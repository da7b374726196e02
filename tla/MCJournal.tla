------------------------------ MODULE MCJournal ------------------------------
(* A one-kilobyte-block volume with a superblock and two other blocks.     *)
EXTENDS JournalInv

CONSTANTS sb, a, b

W(blk, body, head) == [blk |-> blk, body |-> body, head |-> head]

(* A plain block, one that must be escaped, and a pair with the superblock first, so  *)
(* that flushing it clears RECOVER before the data is home.                *)
MCTxns == { << W(b, 1, "magic") >>,
            << W(a, 0, "plain") >>,
            << W(sb, 1, "plain"), W(a, 1, "magic") >> }

Fresh(s) == [home |-> [x \in FsBlock |-> [body |-> 0, head |-> "plain", recover |-> FALSE]],
             log |-> [p \in LogPos |-> DataBlock(Zero)], start |-> 0, seq |-> s]

(* A log that an earlier system used up to sequence s - 1.                 *)
Used(s) ==
  [Fresh(s) EXCEPT
     !.log = [p \in LogPos |->
                IF p = First + 1
                THEN DescriptorBlock(s - 1, << TagOf(b, Zero, s - 1) >>)
                ELSE IF p = First + 2 THEN CommitBlock(s - 1)
                ELSE DataBlock(Zero)]]

MCDisk == { Used(1) }
==============================================================================
