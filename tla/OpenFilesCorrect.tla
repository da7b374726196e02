-------------------------- MODULE OpenFilesCorrect --------------------------
(***************************************************************************)
(* What an open file must keep standing for.                               *)
(***************************************************************************)
EXTENDS OpenFiles, FileOpsCorrect

\* Past this nothing is promised: the volume is in disorder, or a write went
\* through a handle whose file was changed by another way.
Void == Exposed \/ spoiled

\* Every SFT that DOS believes open finds a slot, and the slot is of the file
\* DOS opened with it, whatever was closed, forgotten, refused or reused in
\* between (tsr.c:204, 219).
HandleKeepsFile ==
  \A f \in Sft : held[f] # 0 => \E k \in FindSlot(f) : slots[k].ino = held[f]

\* The copy of an inode a slot appends to and reads from is the volume's, in
\* the middle of loops and after failed calls, unless another way changed the
\* file or nothing can be written any more (tsr.c:2144, extent.c:1258).
CopyIsCurrent ==
  ~Void /\ ~dirty =>
    \A k \in SlotNo : slots[k].used /\ slots[k].sft \notin stale =>
      /\ slots[k].inode = Cached(store, slots[k].ino)
      /\ IsFile(slots[k].ino)

\* what a read through a copy c of an inode finds is the file i, up to its size
ReadsWhole(c, i) ==
  LET found == Mapped(c.ext) IN
  /\ {m.lb : m \in found} = {l \in 0 .. Cardinality(Blk) : l * Unit < c.size}
  /\ \A m \in found : store[Data(m.pb)] = FileData(i)

\* Between two calls, a read through an open file finds every byte of the file
\* DOS opened, each in a block that holds what was written to that file,
\* whatever was written, cut, replaced, removed or refused by another way in
\* between (tsr.c:475, 2315).
HandleReadsFile ==
  Resting /\ ~Void /\ ~dirty =>
    \A f \in Sft \ stale : held[f] # 0 =>
      \E k \in FindSlot(f) : ReadsWhole(slots[k].inode, held[f])

\* Whatever is done through handles is to the volume a file operation: the
\* redirector implements FileOps, and what is true of the volume there is
\* true here (tsr.c:2036).
HandlesAreFileOps == [][Void' \/ Next]_vars
==============================================================================
