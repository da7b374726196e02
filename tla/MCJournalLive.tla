---------------------------- MODULE MCJournalLive ----------------------------
(* A transaction of the superblock first and a block that needs the escape, *)
(* and transactions that hold one block twice, on a log an earlier system   *)
(* used.                                                                    *)
EXTENDS JournalLive

CONSTANTS sb, a, b

W(blk, body, head) == [blk |-> blk, body |-> body, head |-> head]

LiveTxns == { << W(sb, 1, "plain"), W(a, 1, "magic") >>,
              << W(a, 1, "magic"), W(a, 0, "plain") >>,
              << W(b, 1, "plain"), W(a, 0, "magic"), W(b, 0, "magic") >> }

LiveDisk ==
  { [home |-> [x \in FsBlock |-> [body |-> 0, head |-> "plain", recover |-> FALSE]],
     log |-> [p \in LogPos |-> IF p = First + 2 THEN CommitBlock(0) ELSE DataBlock(Zero)],
     start |-> 0, seq |-> 1] }
==============================================================================
