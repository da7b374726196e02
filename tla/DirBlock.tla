------------------------------- MODULE DirBlock -------------------------------
(***************************************************************************)
(* One block of a directory: records laid end to end, each with the room   *)
(* it takes and, unless it is free, an inode and a name (dir.c, and the    *)
(* slot helpers of extent.c).  Offsets and lengths count units of four     *)
(* bytes, to which the code rounds every record: a header is two units.    *)
(* A removed record's bytes stay in the block; nothing leads to them.      *)
(***************************************************************************)
EXTENDS Naturals, SequencesExt

CONSTANTS
  Name,        \* names, "." and ".." aside
  SizeOf,      \* units a record for a name needs, its header included
  BlockSize,   \* units in a block
  Tails        \* metadata_csum: a checksum record ends every block

ASSUME BlockAssumption ==
  /\ BlockSize \in Nat /\ BlockSize >= 9
  /\ SizeOf \in [Name -> 3 .. BlockSize]
  /\ Tails \in BOOLEAN
  /\ Name \cap {".", "..", "tail", ""} = {}

Offset == 0 .. BlockSize - 1
Dots == {".", ".."}
EntrySize(n) == IF n \in Dots THEN 3 ELSE SizeOf[n]

Rec(i, l, n) == [ino |-> i, len |-> l, name |-> n]
Unwritten == Rec(0, 0, "")

\* the checksum record, known by its type, its length and its inode 0
Sentinel == Rec(0, 3, "tail")
TailSize == IF Tails THEN 3 ELSE 0
Stamped(blk) == IF Tails THEN [blk EXCEPT ![BlockSize - 3] = Sentinel] ELSE blk

(* Where a walk over the block finds records: it stops at a length that    *)
(* cannot be.                                                              *)
Sound(blk, o) == blk[o].len >= 2 /\ o + blk[o].len <= BlockSize

Offsets(blk) ==
  LET from[o \in 0 .. BlockSize] ==
        IF o + 2 <= BlockSize /\ Sound(blk, o)
        THEN << o >> \o from[o + blk[o].len] ELSE << >>
  IN from[0]

\* all but the checksum record
Records(blk) == {o \in Range(Offsets(blk)) : blk[o] # Sentinel}

\* what ext4_dir_iter calls back, in order
Shown(blk, o) == blk[o].ino # 0 /\ EntrySize(blk[o].name) <= blk[o].len
Listed(blk) ==
  LET at == Offsets(blk) IN
  FlattenSeq([k \in DOMAIN at |-> IF Shown(blk, at[k]) THEN << blk[at[k]] >> ELSE << >>])

-----------------------------------------------------------------------------
(* Putting an entry behind the first record with room to spare.            *)

Used(c) == IF c.ino = 0 THEN 0 ELSE EntrySize(c.name)
Slots(blk, n) == {o \in Records(blk) : blk[o].len >= Used(blk[o]) + EntrySize(n)}

InsertedToEnd(blk, n, i) ==                                   \* a seeded fault
  LET o == Min(Slots(blk, n))
      at == o + Used(blk[o])
  IN Stamped([blk EXCEPT ![o].len = Used(blk[o]),
                         ![at] = Rec(i, BlockSize - TailSize - at, n)])

Inserted(blk, n, i) ==
  LET o == Min(Slots(blk, n))
      at == o + Used(blk[o])
  IN Stamped([blk EXCEPT ![o].len = Used(blk[o]),
                         ![at] = Rec(i, blk[o].len - Used(blk[o]), n)])

(* Taking one out: its room goes to the record before it; the first record *)
(* of a block is only marked free.                                         *)
EntriesOf(blk, i) == {o \in Records(blk) : blk[o].ino = i}

RemovedOver(blk, i) ==                                        \* a seeded fault
  LET o == Min(EntriesOf(blk, i))
      before == {p \in Records(blk) : p < o}
  IN Stamped(IF before = {} THEN [blk EXCEPT ![o].ino = 0]
             ELSE [blk EXCEPT ![Max(before)].len = blk[o].len])

Removed(blk, i) ==
  LET o == Min(EntriesOf(blk, i))
      before == {p \in Records(blk) : p < o}
  IN Stamped(IF before = {} THEN [blk EXCEPT ![o].ino = 0]
             ELSE [blk EXCEPT ![Max(before)].len = @ + blk[o].len])

\* in place, if the new name fits the record
Renamable(blk, i, n) == EntrySize(n) <= blk[Min(EntriesOf(blk, i))].len
Renamed(blk, i, n) == Stamped([blk EXCEPT ![Min(EntriesOf(blk, i))].name = n])

\* a new directory's block
FreshBlock(i, p) ==
  Stamped([o \in Offset |-> CASE o = 0 -> Rec(i, 3, ".")
                              [] o = 3 -> Rec(p, BlockSize - 3 - TailSize, "..")
                              [] OTHER -> Unwritten])
==============================================================================
