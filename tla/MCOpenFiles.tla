----------------------------- MODULE MCOpenFiles -----------------------------
(***************************************************************************)
(* A small volume with one directory for the open files.                   *)
(***************************************************************************)
EXTENDS OpenFilesInv, MCFileOps

CONSTANTS sft1, sft2, sft3   \* SFT entries

Exchange == {x @@ y : x \in Permutations(Name), y \in Permutations(Sft)}

\* The copy in a stale slot is read only by steps after which nothing is explored.
Shown == [k \in SlotNo |-> IF slots[k].sft \in stale THEN [slots[k] EXCEPT !.inode = Nothing]
                           ELSE slots[k]]
LiveOpen == <<Live, Shown, held, call, stale, spoiled>>
Valid == ~Void
==============================================================================
