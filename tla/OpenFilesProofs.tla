--------------------------- MODULE OpenFilesProofs ---------------------------
(***************************************************************************)
(* A handle keeps its file, its copy of the inode stays the volume's, what *)
(* it reads is that file, and what it does to the volume is a file         *)
(* operation: for every number of slots, SFTs, names and failures, and for *)
(* every sound volume.                                                     *)
(***************************************************************************)
EXTENDS OpenFilesInv, FileOpsProofs

(***************************************************************************)
(* The helpers.                                                            *)
(***************************************************************************)
(* alloc_open_slot returns the slot of this SFT or, if there is none, an   *)
(* unused slot.                                                            *)
LEMMA AllocGives ==
  ASSUME NEW f, NEW k \in AllocSlot(f)
  PROVE  /\ k \in SlotNo
         /\ slots[k].used => slots[k].sft = f
         /\ \A j \in SlotNo : slots[j].used /\ slots[j].sft = f => slots[k].used
  BY DEF AllocSlot, FindSlot, Lowest, Matches, Unused

(* With one slot for each SFT at most, find_open_slot returns it.          *)
LEMMA FindGives ==
  ASSUME OneSlotEach, NEW k \in SlotNo, slots[k].used
  PROVE  k \in FindSlot(slots[k].sft)
<1>1. Matches(slots[k].sft) = {k}
  BY DEF Matches, OneSlotEach
<1>2. k <= k
  BY SlotsAssumption DEF SlotNo
<1> QED BY <1>1, <1>2 DEF FindSlot, Lowest

(* Filling the slot that alloc_open_slot gave keeps the tables in order.   *)
LEMMA FillKeepsShape ==
  ASSUME SlotsShape, NEW f \in Sft, NEW k \in AllocSlot(f), NEW i, NEW x, Fill(k, f, i, x)
  PROVE  SlotsShape'
<1> DEFINE r == [used |-> TRUE, sft |-> f, ino |-> i, inode |-> x]
<1>1. k \in SlotNo /\ (slots[k].used => slots[k].sft = f)
      /\ \A j \in SlotNo : slots[j].used /\ slots[j].sft = f => slots[k].used
  BY AllocGives
<1>2. slots' = [j \in SlotNo |-> IF j = k THEN r ELSE slots[j]]
  BY <1>1 DEF Fill, SlotsShape, TablesOK
<1>3. held' = [g \in Sft |-> IF g = f THEN i ELSE held[g]]
  BY DEF Fill, SlotsShape, TablesOK
<1>4. \A j \in SlotNo \ {k} : slots[j].used => slots[j].sft # f
  BY <1>1 DEF SlotsShape, OneSlotEach
<1>5. TablesOK'
  BY <1>2, <1>3 DEF SlotsShape, TablesOK
<1>6. OneSlotEach'
  BY <1>2, <1>4 DEF SlotsShape, OneSlotEach
<1>7. SlotOfFile'
  <2> SUFFICES ASSUME NEW g \in Sft, held'[g] # 0
               PROVE  \E j \in SlotNo : slots'[j].used /\ slots'[j].sft = g /\ slots'[j].ino = held'[g]
    BY DEF SlotOfFile
  <2>1. CASE g = f
    BY <2>1, <1>1, <1>2, <1>3
  <2>2. CASE g # f
    <3>1. PICK j \in SlotNo : slots[j].used /\ slots[j].sft = g /\ slots[j].ino = held[g]
      BY <2>2, <1>3 DEF SlotsShape, SlotOfFile
    <3>2. j # k
      BY <3>1, <2>2, <1>1
    <3> QED BY <3>1, <3>2, <2>2, <1>2, <1>3
  <2> QED BY <2>1, <2>2
<1> QED BY <1>5, <1>6, <1>7 DEF SlotsShape

(* Giving a slot back for an SFT that is not open keeps them in order.     *)
LEMMA DropKeepsShape ==
  ASSUME SlotsShape, NEW f \in Sft, held[f] = 0, NEW k \in AllocSlot(f), Drop(k)
  PROVE  SlotsShape'
<1>1. k \in SlotNo /\ (slots[k].used => slots[k].sft = f)
  BY AllocGives
<1>2. slots' = [j \in SlotNo |-> IF j = k THEN FreeSlot ELSE slots[j]] /\ held' = held
  BY <1>1 DEF Drop, SlotsShape, TablesOK
<1>3. ~FreeSlot.used /\ DOMAIN FreeSlot = {"used", "sft", "ino", "inode"}
  BY DEF FreeSlot
<1>4. TablesOK'
  BY <1>2, <1>3 DEF SlotsShape, TablesOK
<1>5. OneSlotEach'
  BY <1>2, <1>3 DEF SlotsShape, OneSlotEach
<1>6. SlotOfFile'
  BY <1>1, <1>2 DEF SlotsShape, SlotOfFile
<1> QED BY <1>4, <1>5, <1>6 DEF SlotsShape

(* A slot whose inode copy alone changes stands for what it stood for.     *)
LEMMA CopyKeepsShape ==
  ASSUME SlotsShape, NEW k \in SlotNo, NEW x, UNCHANGED held,
         slots' = [slots EXCEPT ![k].inode = x]
  PROVE  SlotsShape'
<1>1. /\ slots' = [j \in SlotNo |-> slots'[j]]
      /\ \A j \in SlotNo : /\ DOMAIN slots'[j] = DOMAIN slots[j]
                           /\ slots'[j].used = slots[j].used
                           /\ slots'[j].sft = slots[j].sft
                           /\ slots'[j].ino = slots[j].ino
  BY DEF SlotsShape, TablesOK
<1>2. TablesOK'
  BY <1>1 DEF SlotsShape, TablesOK
<1>3. OneSlotEach'
  BY <1>1 DEF SlotsShape, OneSlotEach
<1>4. SlotOfFile'
  BY <1>1 DEF SlotsShape, SlotOfFile
<1> QED BY <1>2, <1>3, <1>4 DEF SlotsShape

(* A call that is over, or one that waits for no slot, is in order.        *)
LEMMA NoCallOK ==
  ASSUME call' = NoCall
  PROVE  CallOK'
  BY DEF NoCall, CallOK, Opening, Writing

(* Nothing about open files changes when their variables do not.           *)
LEMMA SameShape ==
  ASSUME OpenShape, UNCHANGED <<slots, held, call>>
  PROVE  OpenShape'
<1>1. SlotsShape'
  BY DEF OpenShape, SlotsShape, TablesOK, OneSlotEach, SlotOfFile
<1>2. \A f : AllocSlot(f)' = AllocSlot(f)
  BY DEF AllocSlot, FindSlot, Lowest, Matches, Unused
<1>3. CallOK'
  BY <1>2 DEF OpenShape, CallOK
<1> QED BY <1>1, <1>3 DEF OpenShape

(***************************************************************************)
(* The steps.                                                              *)
(***************************************************************************)
(* An open, with or without a new file, keeps the tables in order.         *)
LEMMA OpenKeepsShape ==
  ASSUME OpenShape, NEW f \in Sft, NEW n, Open(f, n) \/ CreateNew(f, n)
  PROVE  OpenShape'
<1>1. call = NoCall /\ call' = call /\ held[f] = 0
  BY DEF Open, CreateNew, Resting
<1>2. PICK k \in AllocSlot(f) : Drop(k) \/ \E i, x : Fill(k, f, i, x)
  BY DEF Open, CreateNew
<1>3. SlotsShape'
  BY <1>1, <1>2, FillKeepsShape, DropKeepsShape DEF OpenShape
<1> QED BY <1>1, <1>3, NoCallOK DEF OpenShape

(* A replace only notes which slot waits for its truncate.                 *)
LEMMA ReplaceKeepsShape ==
  ASSUME OpenShape, NEW f \in Sft, NEW n, NEW way \in Opening, Replace(f, n, way)
  PROVE  OpenShape'
<1>1. UNCHANGED <<slots, held>> /\ held[f] = 0
  BY DEF Replace
<1>2. PICK k \in AllocSlot(f) : call' = [do |-> way, slot |-> k, sft |-> f]
  BY DEF Replace
<1>3. AllocSlot(f)' = AllocSlot(f)
  BY <1>1 DEF AllocSlot, FindSlot, Lowest, Matches, Unused
<1>4. CallOK'
  BY <1>1, <1>2, <1>3 DEF CallOK, Opening, Writing
<1>5. SlotsShape'
  BY <1>1 DEF OpenShape, SlotsShape, TablesOK, OneSlotEach, SlotOfFile
<1> QED BY <1>4, <1>5 DEF OpenShape

(* A refused create and a close give back a slot nobody holds.             *)
LEMMA GiveBackKeepsShape ==
  ASSUME OpenShape, NEW f \in Sft, CreateRefused(f) \/ Close(f) \/ Forget(f)
  PROVE  OpenShape'
<1>1. call' = NoCall
  BY DEF CreateRefused, Close, Forget, Resting
<1> SUFFICES SlotsShape'
  BY <1>1, NoCallOK DEF OpenShape
<1> USE DEF OpenShape
<1>2. CASE CreateRefused(f)
  <2>1. PICK k \in AllocSlot(f) : Drop(k)
    BY <1>2 DEF CreateRefused
  <2>2. held[f] = 0
    BY <1>2 DEF CreateRefused
  <2> QED BY <2>1, <2>2, DropKeepsShape
<1>3. CASE Close(f)
  <2>1. slots' = [k \in SlotNo |-> IF k \in FindSlot(f) THEN FreeSlot ELSE slots[k]]
        /\ held' = [g \in Sft |-> IF g = f THEN 0 ELSE held[g]]
    BY <1>3 DEF Close, OpenShape, SlotsShape, TablesOK
  <2>2. ~FreeSlot.used /\ DOMAIN FreeSlot = {"used", "sft", "ino", "inode"}
    BY DEF FreeSlot
  <2>3. \A k \in FindSlot(f) : slots[k].used => slots[k].sft = f
    BY DEF FindSlot, Lowest, Matches
  <2>4. TablesOK'
    BY <2>1, <2>2 DEF OpenShape, SlotsShape, TablesOK
  <2>5. OneSlotEach'
    BY <2>1, <2>2 DEF OpenShape, SlotsShape, OneSlotEach
  <2>6. SlotOfFile'
    <3> SUFFICES ASSUME NEW g \in Sft, held'[g] # 0
                 PROVE  \E k \in SlotNo : slots'[k].used /\ slots'[k].sft = g /\ slots'[k].ino = held'[g]
      BY DEF SlotOfFile
    <3>1. g # f /\ held'[g] = held[g]
      BY <2>1
    <3>2. PICK k \in SlotNo : slots[k].used /\ slots[k].sft = g /\ slots[k].ino = held[g]
      BY <3>1 DEF OpenShape, SlotsShape, SlotOfFile
    <3> QED BY <3>1, <3>2, <2>1, <2>3
  <2> QED BY <2>4, <2>5, <2>6 DEF SlotsShape
<1>4. CASE Forget(f)
  <2>1. slots' = slots /\ held' = [g \in Sft |-> IF g = f THEN 0 ELSE held[g]]
    BY <1>4 DEF Forget, OpenShape, SlotsShape, TablesOK
  <2> QED BY <2>1 DEF SlotsShape, TablesOK, OneSlotEach, SlotOfFile
<1> QED BY <1>2, <1>3, <1>4

(* A write picks a slot and touches at most its inode copy.                *)
LEMMA WriteKeepsShape ==
  ASSUME OpenShape, NEW f \in Sft, NEW n, NEW x,
         Lengthen(f, n) \/ Overwrite(f, n, x) \/ CutTo(f, n) \/ CutAgain(f, n)
  PROVE  OpenShape'
<1> USE DEF OpenShape
<1>1. ASSUME UNCHANGED <<slots, held>>
      PROVE  SlotsShape'
  BY <1>1 DEF SlotsShape, TablesOK, OneSlotEach, SlotOfFile
<1>2. \A k \in FindSlot(f) : k \in SlotNo /\ slots[k].used
  BY DEF FindSlot, Lowest, Matches
<1>3. CASE Lengthen(f, n)
  <2>1. CallOK'
    BY <1>2, <1>3 DEF Lengthen, CallOK, Opening, Writing
  <2> QED BY <1>1, <1>3, <2>1 DEF Lengthen
<1>4. CASE Overwrite(f, n, x)
  <2>1. CallOK'
    BY <1>2, <1>4 DEF Overwrite, CallOK, Opening, Writing
  <2> QED BY <1>1, <1>4, <2>1 DEF Overwrite
<1>5. CASE CutTo(f, n)
  <2>1. CallOK'
    BY <1>2, <1>5 DEF CutTo, CallOK, Opening, Writing
  <2> QED BY <1>1, <1>5, <2>1 DEF CutTo
<1>6. CASE CutAgain(f, n)
  <2>1. call' = NoCall /\ UNCHANGED held
    BY <1>6 DEF CutAgain, Resting
  <2>2. PICK k \in SlotNo : ReRead(k, store, slots[k].ino)
    BY <1>2, <1>6 DEF CutAgain
  <2> QED BY <2>1, <2>2, CopyKeepsShape, NoCallOK DEF ReRead
<1> QED BY <1>3, <1>4, <1>5, <1>6

(* So does a step of its loop.                                             *)
LEMMA LoopKeepsShape ==
  ASSUME OpenShape, ExtendOne \/ OverwriteOne \/ WriteFails
  PROVE  OpenShape'
<1> USE DEF OpenShape
<1>1. ASSUME UNCHANGED <<slots, held>>
      PROVE  SlotsShape'
  BY <1>1 DEF SlotsShape, TablesOK, OneSlotEach, SlotOfFile
<1>2. CASE ExtendOne
  <2>1. call.slot \in SlotNo /\ call.do = "extend" /\ slots[call.slot].used
    BY <1>2 DEF ExtendOne, CallOK, Writing
  <2>2. call' = NoCall \/ call' = call
    BY <1>2 DEF ExtendOne
  <2>3. UNCHANGED held /\ (slots' = slots \/ \E y : slots' = [slots EXCEPT ![call.slot].inode = y])
    BY <1>2 DEF ExtendOne
  <2>4. SlotsShape'
    BY <1>1, <2>1, <2>3, CopyKeepsShape
  <2>5. slots'[call.slot].used = slots[call.slot].used
    BY <2>1, <2>3 DEF SlotsShape, TablesOK
  <2>6. CallOK'
    BY <2>1, <2>2, <2>5, NoCallOK DEF CallOK, Opening, Writing
  <2> QED BY <2>4, <2>6
<1>3. CASE OverwriteOne
  <2>1. UNCHANGED <<slots, held>> /\ call.do = "overwrite"
        /\ call.slot \in SlotNo /\ slots[call.slot].used
    BY <1>3 DEF OverwriteOne, CallOK, Writing
  <2>2. call' = NoCall \/ call' = [call EXCEPT !.next = @ + 1]
    BY <1>3 DEF OverwriteOne
  <2>3. LET c == [call EXCEPT !.next = @ + 1] IN c.do = "overwrite" /\ c.slot = call.slot
    BY <2>1
  <2>4. CallOK'
    BY <2>1, <2>2, <2>3, NoCallOK DEF CallOK, Opening, Writing
  <2> QED BY <1>1, <2>1, <2>4
<1>4. CASE WriteFails
  BY <1>1, <1>4, NoCallOK DEF WriteFails
<1> QED BY <1>2, <1>3, <1>4

(* The end of a truncate fills the slot that waited, or drops it, or reads *)
(* its inode again.                                                        *)
LEMMA TruncateKeepsShape ==
  ASSUME OpenShape, TruncateDone \/ TruncateFails
  PROVE  OpenShape'
<1> USE DEF OpenShape
<1>1. CallOK'
  BY NoCallOK DEF TruncateDone, TruncateFails
<1>2. CASE call.do = "cut"
  <2>1. call.slot \in SlotNo
    BY <1>2 DEF CallOK
  <2>2. /\ UNCHANGED held
        /\ slots' = slots \/ \E y : slots' = [slots EXCEPT ![call.slot].inode = y]
    BY <1>2 DEF TruncateDone, TruncateFails, ReRead
  <2>3. CASE slots' = slots
    BY <1>1, <2>2, <2>3 DEF SlotsShape, TablesOK, OneSlotEach, SlotOfFile
  <2> QED BY <1>1, <2>1, <2>2, <2>3, CopyKeepsShape
<1>3. CASE call.do \in Opening
  <2>1. call.sft \in Sft /\ held[call.sft] = 0 /\ call.slot \in AllocSlot(call.sft)
    BY <1>3 DEF CallOK
  <2>2. Drop(call.slot) \/ \E i, y : Fill(call.slot, call.sft, i, y)
    BY <1>3 DEF TruncateDone, TruncateFails, Opening
  <2> QED BY <1>1, <2>1, <2>2, FillKeepsShape, DropKeepsShape
<1> QED BY <1>2, <1>3 DEF TruncateDone, TruncateFails, Opening

(* Empty tables are in order.                                              *)
LEMMA EmptyShape ==
  ASSUME slots = [k \in SlotNo |-> FreeSlot], held = [f \in Sft |-> 0], call = NoCall
  PROVE  OpenShape
<1>1. ~FreeSlot.used /\ DOMAIN FreeSlot = {"used", "sft", "ino", "inode"}
  BY DEF FreeSlot
<1>2. SlotsShape
  BY <1>1 DEF SlotsShape, TablesOK, OneSlotEach, SlotOfFile
<1>3. CallOK
  BY DEF CallOK, NoCall, Opening, Writing
<1> QED BY <1>2, <1>3 DEF OpenShape

(* After a restart the tables are in order because they are empty.         *)
LEMMA RestartKeepsShape ==
  ASSUME Restart
  PROVE  OpenShape'
<1>1. ~FreeSlot.used /\ DOMAIN FreeSlot = {"used", "sft", "ino", "inode"}
  BY DEF FreeSlot
<1>2. SlotsShape'
  BY <1>1 DEF Restart, SlotsShape, TablesOK, OneSlotEach, SlotOfFile
<1> QED BY <1>2, NoCallOK DEF Restart, OpenShape

(***************************************************************************)
(* What handles do to the volume.                                          *)
(***************************************************************************)
(* Disorders and writes through stale handles stay in the history.         *)
LEMMA VoidStays ==
  ASSUME [OpenNext]_allVars, ~Void'
  PROVE  ~Void
<1> DEFINE Grow == interrupted \subseteq interrupted' /\ overlapped \subseteq overlapped'
           Stay == Grow /\ (spoiled => spoiled')
<1>1. \A name, tx, next : Commit(name, tx, next) => Grow
  BY DEF Commit, CommitOk, CheckpointFails, Applied
<1>2. \A o : Begin(o) => Grow
  BY DEF Begin
<1>3. Interrupt \/ Remount => Grow
  BY DEF Interrupt, Remount
<1>4. UNCHANGED vars => Grow
  BY DEF vars
<1> HIDE DEF Grow
<1>5. TruncateFree \/ TruncateFinish \/ UnlinkFree \/ UnlinkFinish => Grow
  BY <1>1 DEF TruncateFree, TruncateFinish, UnlinkFree, UnlinkFinish
<1>6. \A p, n : Create(p, n) \/ Unlink(p, n) \/ Truncate(p, n) => Grow
  BY <1>1, <1>2 DEF Create, Unlink, Truncate
<1>7. \A f : Uses(f) => (spoiled => spoiled')
  BY DEF Uses
<1>8. \A f : Close(f) \/ Forget(f) \/ CreateRefused(f) => Stay
  BY <1>4 DEF Close, Forget, CreateRefused
<1>9. \A f, n : Open(f, n) \/ CreateNew(f, n) => Stay
  BY <1>4, <1>6 DEF Open, CreateNew
<1>10. \A f, n, way : Replace(f, n, way) => Stay
  BY <1>6 DEF Replace
<1>11. \A f, n : Lengthen(f, n) \/ CutTo(f, n) \/ CutAgain(f, n) => Stay
  BY <1>4, <1>6, <1>7 DEF Lengthen, CutTo, CutAgain
<1>12. \A f, x, y : Overwrite(f, x, y) => Stay
  BY <1>4, <1>7 DEF Overwrite
<1>13. ExtendOne \/ OverwriteOne \/ WriteFails => Stay
  <2>1. ExtendOne => spoiled' = spoiled /\ \E name, tx, next : Commit(name, tx, next)
    BY Zenon DEF ExtendOne
  <2>2. OverwriteOne => spoiled' = spoiled /\ \E name, tx, next : Commit(name, tx, next)
    BY Zenon DEF OverwriteOne
  <2>3. WriteFails => UNCHANGED vars /\ spoiled' = spoiled
    BY DEF WriteFails
  <2> QED BY <1>1, <1>4, <2>1, <2>2, <2>3
<1>14. TruncateGoes \/ TruncateDone \/ TruncateFails => Stay
  BY <1>3, <1>5 DEF TruncateGoes, TruncateDone, TruncateFails, openVars
<1>15. \A n : Delete(n) => Stay
  BY <1>6 DEF Delete
<1>16. DeleteGoes \/ Restart => Stay
  BY <1>3, <1>4, <1>5 DEF DeleteGoes, Restart, openVars
<1>17. UNCHANGED allVars => Stay
  BY <1>4 DEF allVars, openVars
<1> HIDE DEF Stay
<1>18. Stay
  BY <1>8, <1>9, <1>10, <1>11, <1>12, <1>13, <1>14, <1>15, <1>16, <1>17 DEF OpenNext
<1> QED BY <1>18 DEF Stay, Grow, Void, Exposed

(* Files with a name are those a directory leads to.                       *)
LEMMA NamedBelow ==
  ASSUME Sound(store), NEW i
  PROVE  /\ i \in NamedFiles(store) <=> IsFile(i) /\ \E p \in Dirs(store) : i \in Below(p)
         /\ NamedFiles(store) = Files(store) \cap Numbers(store)
<1>1. NamedFiles(store) = Files(store) \cap Numbers(store)
  BY NumbersAre DEF NamedFiles
<1>2. ASSUME NEW p \in Dirs(store), i \in Below(p), IsFile(i)
      PROVE  i \in NamedFiles(store)
  BY <1>1, <1>2, BelowFacts, BelowNumbers
<1>3. ASSUME i \in NamedFiles(store)
      PROVE  IsFile(i) /\ \E p \in Dirs(store) : i \in Below(p)
  <2>1. i \in Ino /\ i # 0 /\ IsFile(i)
    BY <1>3, SoundFacts, SlotFacts DEF NamedFiles, Files, IsFile
  <2>2. PICK p \in Dirs(store), k \in Places : At(store, p, k) = i
    BY <1>3 DEF NamedFiles, NamedIn
  <2> DEFINE e == Ents(store, p)[k]
  <2>3. e.ino = i /\ e.name \in Name
    BY <2>1, <2>2 DEF At, Sound, Rooted, TreeOf, Shape, Held
  <2>4. e \in Range(Ents(store, p))
    <3>1. DOMAIN Ents(store, p) = Slot /\ k \in Slot
      BY DirFacts, SlotFacts, SoundFacts DEF Sound
    <3> QED BY <3>1 DEF Range
  <2>5. e.name \notin {".", ".."}
    BY <2>3, ImageAssumption, Zenon
  <2> HIDE DEF e
  <2>6. e \in Children(store, p)
    BY <2>1, <2>3, <2>4, <2>5 DEF Children
  <2> QED BY <2>1, <2>3, <2>6 DEF Below
<1> QED BY <1>1, <1>2, <1>3

(* A file that is looked up in the root directory is one of these.         *)
LEMMA FoundBelow ==
  ASSUME Sound(store), NEW n \in Name, NEW i \in FileNamed(n)
  PROVE  Root \in Dirs(store) /\ i \in Below(Root) /\ i \in NamedFiles(store)
<1>1. Root \in Dirs(store)
  BY DEF Sound, Rooted, TreeOf, Shape
<1>2. PICK e \in Range(Ents(store, Root)) : e.ino # 0 /\ e.name = n /\ e.ino = i
  BY DEF FileNamed, Lookup
<1>3. n \notin {".", ".."}
  BY ImageAssumption, Zenon
<1>4. e \in Children(store, Root)
  BY <1>2, <1>3 DEF Children
<1>5. i \in Below(Root)
  BY <1>2, <1>4 DEF Below
<1>6. IsFile(i)
  BY DEF FileNamed
<1> QED BY <1>1, <1>5, <1>6, NamedBelow

(* An inode and a copy of it append the same way.                          *)
LEMMA CopyAppends ==
  ASSUME NEW s, NEW c, NEW d, c.ext = d.ext, c.size = d.size
  PROVE  /\ EndsInLastBlock(c) <=> EndsInLastBlock(d)
         /\ Candidates(s, c) = Candidates(s, d)
         /\ \A x, b : Grown(x, c, b) = Grown(x, d, b)
         /\ \A i, b, n : ExtendTx(s, c, i, b, n) = ExtendTx(s, d, i, b, n)
<1>1. LastExt(c) = LastExt(d)
  BY DEF LastExt
<1>2. Contig(c) = Contig(d)
  BY <1>1 DEF Contig
<1>3. EndsInLastBlock(c) <=> EndsInLastBlock(d)
  BY <1>1 DEF EndsInLastBlock
<1>4. Candidates(s, c) = Candidates(s, d)
  BY <1>2 DEF Candidates
<1>5. \A x, b : Grown(x, c, b) = Grown(x, d, b)
  BY <1>1, <1>2 DEF Grown
<1>6. \A rec, b, n : Append1(rec, c, b, n) = Append1(rec, d, b, n)
  BY <1>5 DEF Append1
<1>7. \A i, b, n : ExtendTx(s, c, i, b, n) = ExtendTx(s, d, i, b, n)
  BY <1>6 DEF ExtendTx
<1> QED BY <1>3, <1>4, <1>5, <1>7

(* What a fresh slot says of its file.                                     *)
LEMMA CurrentCopy ==
  ASSUME VolumeInv, HandlesOK, ~dirty, NEW k \in SlotNo, Current(k)
  PROVE  LET i == slots[k].ino
             c == slots[k].inode IN
         /\ i \in NamedFiles(store) /\ i \in Files(store) \cap Numbers(store)
         /\ IsFile(i) /\ \E p \in Dirs(store) : i \in Below(p)
         /\ c = Cached(store, i) /\ c.size = Inode(store, i).size /\ c.ext = Inode(store, i).ext
         /\ c.size \in Nat
<1>1. Sound(store)
  BY DEF VolumeInv, Going
<1>2. CopyOf(store, slots[k])
  BY DEF HandlesOK, CopiesOK
<1> DEFINE i == slots[k].ino
<1>3. i \in NamedFiles(store) /\ slots[k].inode = Cached(store, i)
  BY <1>2 DEF CopyOf
<1> HIDE DEF i
<1>4. i \in Files(store) \cap Numbers(store) /\ IsFile(i) /\ \E p \in Dirs(store) : i \in Below(p)
  BY <1>1, <1>3, NamedBelow
<1>5. Inode(store, i) \in Node
  BY <1>1, <1>4, SoundFacts, TableFacts DEF Files
<1>6. Inode(store, i).size \in Nat
  BY <1>5 DEF Node
<1> QED BY <1>3, <1>4, <1>6 DEF Cached, i

\* the next piece of an append
Piece(k) == Min({Unit, call.upto - slots[k].inode.size})
(* An append through a slot is one of the library's.                       *)
LEMMA ExtendOneIs ==
  ASSUME VolumeInv, OpenShape, HandlesOK, ExtendOne
  PROVE  LET k == call.slot
             i == slots[k].ino
             c == Inode(store, i)
             n == Piece(k) IN
         /\ k \in SlotNo /\ Current(k) /\ op = Idle /\ ~dirty
         /\ n \in 1 .. Unit /\ c.size + n <= call.upto /\ c.size + n <= MaxSize /\ c.size \in Nat
         /\ EndsInLastBlock(c) /\ Extend(i, n)
         /\ \E b \in Candidates(store, c) :
              /\ Commit("extend", ExtendTx(store, c, i, b, n), Idle)
              /\ slots' = IF dirty' THEN slots
                          ELSE [slots EXCEPT ![k].inode = [size |-> c.size + n, ext |-> Grown(c.ext, c, b)]]
         /\ call' = NoCall \/ (call' = call /\ c.size + n < call.upto)
<1> DEFINE k == call.slot
           i == slots[k].ino
           d == slots[k].inode
           c == Inode(store, i)
           n == Min({Unit, call.upto - d.size})
<1>1. /\ call.do = "extend" /\ ~dirty /\ EndsInLastBlock(d)
      /\ \E b \in Candidates(store, d) :
           /\ Commit("extend", ExtendTx(store, d, i, b, n), Idle)
           /\ slots' = IF dirty' THEN slots ELSE [slots EXCEPT ![k].inode = Remember(d, b, n)]
      /\ call' = IF dirty' \/ ~(Remember(d, 0, n).size < call.upto) THEN NoCall ELSE call
  BY DEF ExtendOne
<1>2. k \in SlotNo /\ Current(k) /\ op = Idle /\ call.upto \in 0 .. MaxSize /\ d.size < call.upto
  BY <1>1 DEF OpenShape, CallOK, HandlesOK, UnderWay, Writing
<1>3. /\ i \in NamedFiles(store) /\ IsFile(i) /\ d.size = c.size /\ d.ext = c.ext /\ c.size \in Nat
  BY <1>1, <1>2, CurrentCopy
<1>4. n \in 1 .. Unit /\ c.size + n <= call.upto /\ c.size + n <= MaxSize
  <2> DEFINE r == call.upto - d.size
  <2>1. r \in Nat \ {0} /\ Unit \in Nat \ {0} /\ c.size + r = call.upto
    BY <1>2, <1>3, Geometry, BoundsAssumption
  <2>2. n \in {Unit, r} /\ n <= Unit /\ n <= r
    <3> HIDE DEF r
    <3>1. {Unit, r} \in SUBSET Nat /\ {Unit, r} # {}
      BY <2>1
    <3>2. Min({Unit, r}) \in {Unit, r} /\ \A x \in {Unit, r} : Min({Unit, r}) <= x
      BY <3>1, MinIs
    <3> QED BY <3>2 DEF r
  <2> HIDE DEF n, r
  <2> QED BY <2>1, <2>2, <1>2, <1>3, BoundsAssumption
<1> HIDE DEF n
<1>5. /\ EndsInLastBlock(c) /\ Candidates(store, c) = Candidates(store, d)
      /\ \A x, b : Grown(x, c, b) = Grown(x, d, b)
      /\ \A j, b, m : ExtendTx(store, c, j, b, m) = ExtendTx(store, d, j, b, m)
  <2> HIDE DEF c, d
  <2> QED BY <1>1, <1>3, CopyAppends
<1>6. \A b : Remember(d, b, n) = [size |-> c.size + n, ext |-> Grown(c.ext, c, b)]
  BY <1>3, <1>5 DEF Remember
<1> HIDE DEF c, d, i
<1>7. \E b \in Candidates(store, c) :
        /\ Commit("extend", ExtendTx(store, c, i, b, n), Idle)
        /\ slots' = IF dirty' THEN slots
                    ELSE [slots EXCEPT ![k].inode = [size |-> c.size + n, ext |-> Grown(c.ext, c, b)]]
  <2>1. PICK b \in Candidates(store, d) :
          /\ Commit("extend", ExtendTx(store, d, i, b, n), Idle)
          /\ slots' = IF dirty' THEN slots ELSE [slots EXCEPT ![k].inode = Remember(d, b, n)]
    BY <1>1
  <2>2. b \in Candidates(store, c) /\ ExtendTx(store, d, i, b, n) = ExtendTx(store, c, i, b, n)
    BY <1>5
  <2>3. Remember(d, b, n) = [size |-> c.size + n, ext |-> Grown(c.ext, c, b)]
    BY <1>6
  <2>4. /\ Commit("extend", ExtendTx(store, c, i, b, n), Idle)
        /\ slots' = IF dirty' THEN slots
                    ELSE [slots EXCEPT ![k].inode = [size |-> c.size + n, ext |-> Grown(c.ext, c, b)]]
    BY <2>1, <2>2, <2>3, Zenon
  <2> QED BY <2>2, <2>4
<1>8. Extend(i, n)
  BY <1>1, <1>2, <1>3, <1>4, <1>5, <1>7 DEF Extend, Ready, c
<1>9. call' = NoCall \/ (call' = call /\ c.size + n < call.upto)
  BY <1>1, <1>6
<1> QED BY <1>1, <1>2, <1>3, <1>4, <1>5, <1>7, <1>8, <1>9 DEF Piece, c, d, i, n

(* A block written through a slot is written by the library.               *)
LEMMA OverwriteOneIs ==
  ASSUME VolumeInv, OpenShape, HandlesOK, OverwriteOne
  PROVE  LET k == call.slot
             i == slots[k].ino IN
         /\ k \in SlotNo /\ Current(k) /\ op = Idle /\ ~dirty /\ WriteBlock(i)
         /\ \E m \in Mapped(Inode(store, i).ext) : Commit("write", WriteTx(store, i, m.pb), Idle)
<1>1. /\ call.do = "overwrite" /\ ~dirty
      /\ \E m \in Mapped(slots[call.slot].inode.ext) :
           Commit("write", WriteTx(store, slots[call.slot].ino, m.pb), Idle)
  BY DEF OverwriteOne
<1>2. call.slot \in SlotNo /\ Current(call.slot) /\ op = Idle
  BY <1>1 DEF OpenShape, CallOK, HandlesOK, UnderWay, Writing
<1>3. /\ slots[call.slot].inode.ext = Inode(store, slots[call.slot].ino).ext
      /\ IsFile(slots[call.slot].ino)
  BY <1>1, <1>2, CurrentCopy
<1> QED BY <1>1, <1>2, <1>3 DEF WriteBlock, Ready

(* The slot find_open_slot returns is the SFT's, and fresh if the call does *)
(* not void everything.                                                    *)
LEMMA FoundCurrent ==
  ASSUME NEW f \in Sft, NEW k \in FindSlot(f)
  PROVE  /\ k \in SlotNo /\ slots[k].used /\ slots[k].sft = f
         /\ Uses(f) /\ ~Void' => Current(k) /\ f \notin stale
<1>1. k \in SlotNo /\ slots[k].used /\ slots[k].sft = f
  BY DEF FindSlot, Lowest, Matches
<1> QED BY <1>1 DEF Uses, Void, Current

(* A cut through a fresh slot is one of the library's.                     *)
LEMMA CutToIs ==
  ASSUME VolumeInv, HandlesOK, NEW f \in Sft, NEW n \in 0 .. MaxSize, CutTo(f, n), ~Void'
  PROVE  \E k \in SlotNo :
           /\ Current(k) /\ slots[k].sft = f /\ Truncate(slots[k].ino, n)
           /\ call' = [do |-> "cut", slot |-> k, sft |-> f] /\ Touch(slots[k].ino, f)
           /\ slots[k].ino \in NamedFiles(store) /\ \E p \in Dirs(store) : slots[k].ino \in Below(p)
<1>1. PICK k \in FindSlot(f) :
        /\ Truncate(slots[k].ino, n)
        /\ call' = [do |-> "cut", slot |-> k, sft |-> f] /\ Touch(slots[k].ino, f)
  BY DEF CutTo
<1>2. k \in SlotNo /\ Current(k) /\ slots[k].sft = f
  BY FoundCurrent DEF CutTo
<1>3. ~dirty
  BY <1>1 DEF Truncate, Ready
<1> QED BY <1>1, <1>2, <1>3, CurrentCopy

(* Every call through a handle is to the volume an operation of the        *)
(* library, or none.                                                       *)
LEMMA OpenStepIs ==
  ASSUME VolumeInv, OpenShape, HandlesOK, [OpenNext]_allVars, ~Void'
  PROVE  [Next]_vars
<1>1. Sound(store) /\ Root \in Dirs(store)
  BY DEF VolumeInv, Going, Sound, Rooted, TreeOf, Shape
<1>2. ASSUME NEW f \in Sft, NEW n \in Name, CreateNew(f, n)
      PROVE  Next
  <2>1. Create(Root, n)
    BY <1>2 DEF CreateNew
  <2> QED BY <1>1, <2>1 DEF Next
<1>3. ASSUME NEW p \in Dirs(store), NEW i \in Below(p), NEW n \in 0 .. MaxSize, Truncate(i, n)
      PROVE  Next
  BY <1>3 DEF Next
<1>4. ASSUME NEW f \in Sft, NEW n \in Name, NEW way, Replace(f, n, way)
      PROVE  Next
  <2>1. PICK i \in FileNamed(n) : Truncate(i, 0)
    BY <1>4 DEF Replace
  <2>2. 0 \in 0 .. MaxSize /\ i \in Below(Root)
    BY <1>1, FoundBelow, BoundsAssumption
  <2> QED BY <1>1, <1>3, <2>1, <2>2
<1>5. ASSUME NEW f \in Sft, NEW n \in 0 .. MaxSize, CutTo(f, n)
      PROVE  Next
  BY <1>3, <1>5, CutToIs
<1>6. ASSUME ExtendOne
      PROVE  Next
  <2>1. PICK n \in 1 .. Unit : Extend(slots[call.slot].ino, n)
    BY <1>6, ExtendOneIs
  <2>2. \E p \in Dirs(store) : slots[call.slot].ino \in Below(p)
    BY <1>6, ExtendOneIs, CurrentCopy
  <2> QED BY <2>1, <2>2 DEF Next
<1>7. ASSUME OverwriteOne
      PROVE  Next
  <2>1. WriteBlock(slots[call.slot].ino)
    BY <1>7, OverwriteOneIs
  <2>2. \E p \in Dirs(store) : slots[call.slot].ino \in Below(p)
    BY <1>7, OverwriteOneIs, CurrentCopy
  <2> QED BY <2>1, <2>2 DEF Next
<1>8. ASSUME NEW n \in Name, Delete(n)
      PROVE  Next
  <2>1. PICK i \in FileNamed(n) : Unlink(Root, i)
    BY <1>8 DEF Delete
  <2>2. i \in Below(Root)
    BY <1>1, FoundBelow
  <2> QED BY <1>1, <2>1, <2>2 DEF Next
<1>9. TruncateGoes \/ TruncateDone \/ TruncateFails \/ DeleteGoes => Next
  <2>1. TruncateFree \/ TruncateFinish \/ UnlinkFree \/ UnlinkFinish \/ Interrupt => Next
    BY DEF Next
  <2> QED BY <2>1 DEF TruncateGoes, TruncateDone, TruncateFails, DeleteGoes
<1>10. Restart => Next \/ UNCHANGED vars
  <2>1. Interrupt \/ Remount => Next
    BY DEF Next
  <2> QED BY <2>1 DEF Restart
<1>11. \A f : Close(f) \/ Forget(f) \/ CreateRefused(f) => UNCHANGED vars
  BY DEF Close, Forget, CreateRefused
<1>12. \A f, n : Open(f, n) \/ Lengthen(f, n) \/ CutAgain(f, n) => UNCHANGED vars
  BY DEF Open, Lengthen, CutAgain
<1>13. \A f, x, y : Overwrite(f, x, y) => UNCHANGED vars
  BY DEF Overwrite
<1>14. WriteFails \/ UNCHANGED allVars => UNCHANGED vars
  BY DEF WriteFails, allVars
<1> HIDE DEF Next
<1> QED BY <1>2, <1>4, <1>5, <1>6, <1>7, <1>8, <1>9, <1>10, <1>11, <1>12, <1>13, <1>14
        DEF OpenNext

(***************************************************************************)
(* What a step leaves of the files that handles stand for.                 *)
(***************************************************************************)
(* What becomes of the volume and the operation when a transaction is      *)
(* committed.                                                              *)
LEMMA CommitLeaves ==
  ASSUME NEW name, NEW tx, NEW next, Commit(name, tx, next), ~dirty
  PROVE  /\ store' = Overlay(store, tx)
         /\ (op' = next /\ ~dirty') \/ (op' = Idle /\ dirty')
  BY DEF Commit, CommitOk, CheckpointFails, Applied

\* the files with names but those of X are as they were
FilesStay(s, t, X) ==
  \A j \in NamedFiles(s) \ X : j \in NamedFiles(t) /\ Inode(t, j) = Inode(s, j)
(* Then so are their copies.                                               *)
LEMMA CopyStays ==
  ASSUME NEW s, NEW t, NEW X, FilesStay(s, t, X), NEW r, CopyOf(s, r), r.ino \notin X
  PROVE  CopyOf(t, r)
  BY DEF FilesStay, CopyOf, Cached

\* the inodes but those of X are as they were, and their names
OthersStay(s, t, X) ==
  /\ SameInodes(s, t, X) /\ InUse(s) \ X \subseteq InUse(t) /\ Numbers(s) \ X \subseteq Numbers(t)
(* Then the files among them are.                                          *)
LEMMA FilesStayOn ==
  ASSUME NEW s, NEW t, NEW X, Both(s, t), OthersStay(s, t, X)
  PROVE  FilesStay(s, t, X \ Dirs(s))
<1>1. /\ NamedIn(s) = Numbers(s) /\ NamedIn(t) = Numbers(t)
      /\ Files(s) \cap Dirs(s) = {} /\ Files(s) \subseteq InUse(s) /\ InUse(s) \subseteq Ino
  BY NumbersAre, SoundFacts DEF Both
<1> SUFFICES ASSUME NEW j \in NamedFiles(s), j \notin X \ Dirs(s)
             PROVE  j \in NamedFiles(t) /\ Inode(t, j) = Inode(s, j)
  BY DEF FilesStay
<1>2. j \in Files(s) /\ j \in Numbers(s) /\ j \in InUse(s) /\ j \in Ino /\ j \notin X
  BY <1>1 DEF NamedFiles
<1>3. Inode(t, j) = Inode(s, j) /\ j \in InUse(t) /\ j \in Numbers(t)
  BY <1>2 DEF OthersStay, SameInodes
<1> QED BY <1>1, <1>2, <1>3 DEF NamedFiles, Files

(* A file is created: it is a file with a name, and was none.              *)
LEMMA CreateFiles ==
  ASSUME VolumeInv, VolumeInv', NEW p \in Dirs(store), NEW n \in Name, Create(p, n), ~dirty'
  PROVE  LET i == AllocIno(store) IN
         /\ op' = Idle /\ i \notin NamedFiles(store) /\ FilesStay(store, store', {i})
         /\ i \in NamedFiles(store') /\ Cached(store', i) = Nothing
<1> DEFINE i == AllocIno(store)
           tx == CreateTx(store, p, n, i)
<1>1. /\ op = Idle /\ Lookup(store, p, n) = {} /\ HasRoom(store, p) /\ CanAllocIno(store)
      /\ Commit("create", tx, Idle) /\ ~dirty
  BY DEF Create, Ready, Free
<1>2. Going(store, Idle) /\ Both(store, store')
  BY <1>1 DEF VolumeInv, Going, Both
<1>3. store' = Overlay(store, tx) /\ op' = Idle
  <2> HIDE DEF tx
  <2> QED BY <1>1, CommitLeaves
<1>4. CreateLeft(store, store', i)
  BY <1>1, <1>2, <1>3, CreateStep
<1> HIDE DEF i
<1>5. /\ i \in Ino \ InUse(store) /\ Inode(store', i) = NewFile /\ SameInodes(store, store', {i})
      /\ InUse(store') = InUse(store) \cup {i} /\ Numbers(store') = Numbers(store) \cup {i}
  BY <1>4 DEF CreateLeft, Tally
<1>6. FilesStay(store, store', {i})
  <2>1. FilesStay(store, store', {i} \ Dirs(store))
    BY <1>2, <1>5, FilesStayOn DEF OthersStay
  <2> QED BY <2>1 DEF FilesStay
<1>7. i \in NamedFiles(store')
  <2>1. NewFile.kind = "file"
    BY DEF NewFile, Blank
  <2>2. NamedIn(store') = Numbers(store')
    BY <1>2, NumbersAre DEF Both
  <2> QED BY <1>5, <2>1, <2>2 DEF NamedFiles, Files
<1>8. Cached(store', i) = Nothing
  BY <1>5 DEF Cached, Nothing, NewFile, Blank
<1>9. i \notin NamedFiles(store)
  BY <1>5 DEF NamedFiles, Files
<1> QED BY <1>3, <1>6, <1>7, <1>8, <1>9 DEF i

(* A file changes, and stays one.                                          *)
LEMMA ChangeLeaves ==
  ASSUME NEW s, NEW t, NEW i, NEW B, Both(s, t), FileLeft(s, t, i, B), Inode(t, i).kind = "file",
         i \in Numbers(s)
  PROVE  i \in NamedFiles(t) /\ FilesStay(s, t, {i})
<1>1. /\ SameInodes(s, t, {i}) /\ InUse(t) = InUse(s) /\ Numbers(t) = Numbers(s)
      /\ i \in Files(s)
  BY DEF FileLeft, Tally
<1>2. FilesStay(s, t, {i} \ Dirs(s))
  BY <1>1, FilesStayOn DEF OthersStay
<1>3. i \in Files(t) /\ NamedIn(t) = Numbers(t)
  BY <1>1, NumbersAre DEF Files, Both
<1> QED BY <1>1, <1>2, <1>3 DEF FilesStay, NamedFiles

(* A file is extended.                                                     *)
LEMMA ExtendFiles ==
  ASSUME VolumeInv, VolumeInv', ~dirty, op = Idle, NEW i \in NamedFiles(store), NEW n \in 1 .. Unit,
         NEW c, c = Inode(store, i), NEW b \in Candidates(store, c),
         Commit("extend", ExtendTx(store, c, i, b, n), Idle)
  PROVE  /\ op' = Idle /\ FilesStay(store, store', {i}) /\ i \in NamedFiles(store')
         /\ Cached(store', i) = [size |-> c.size + n, ext |-> Grown(c.ext, c, b)]
<1> DEFINE tx == ExtendTx(store, c, i, b, n)
<1>1. Going(store, Idle) /\ Both(store, store')
  BY DEF VolumeInv, Going, Both
<1>2. i \in Files(store) /\ i \in Numbers(store) /\ n \in Nat
  BY <1>1, NumbersAre, Geometry DEF NamedFiles, Both
<1>3. store' = Overlay(store, tx) /\ op' = Idle
  <2>1. Commit("extend", tx, Idle)
    OBVIOUS
  <2> HIDE DEF tx
  <2> QED BY <2>1, CommitLeaves
<1>4. /\ FileLeft(store, store', i, {b})
      /\ Became(store', i, Grown(c.ext, c, b), c.size + n, c.nblk + 1)
  BY <1>1, <1>2, <1>3, ExtendStep
<1>5. i \in NamedFiles(store') /\ FilesStay(store, store', {i})
  BY <1>1, <1>2, <1>4, ChangeLeaves DEF Became
<1> QED BY <1>3, <1>4, <1>5 DEF Cached, Became

(* A file is written in place.                                             *)
LEMMA WriteFiles ==
  ASSUME VolumeInv, VolumeInv', ~dirty, op = Idle, NEW i \in NamedFiles(store),
         NEW m \in Mapped(Inode(store, i).ext), Commit("write", WriteTx(store, i, m.pb), Idle)
  PROVE  op' = Idle /\ FilesStay(store, store', {})
<1> DEFINE tx == WriteTx(store, i, m.pb)
<1>1. Going(store, Idle) /\ Both(store, store')
  BY DEF VolumeInv, Going, Both
<1>2. i \in Files(store) /\ i \in Numbers(store)
  BY <1>1, NumbersAre DEF NamedFiles, Both
<1>3. store' = Overlay(store, tx) /\ op' = Idle
  <2>1. Commit("write", tx, Idle)
    OBVIOUS
  <2> HIDE DEF tx
  <2> QED BY <2>1, CommitLeaves
<1>4. FileLeft(store, store', i, {m.pb}) /\ Inode(store', i) = Inode(store, i)
  BY <1>1, <1>2, <1>3, WriteStep
<1>5. Inode(store', i).kind = "file"
  BY <1>2, <1>4 DEF Files
<1>6. i \in NamedFiles(store') /\ FilesStay(store, store', {i})
  BY <1>1, <1>2, <1>4, <1>5, ChangeLeaves
<1> QED BY <1>3, <1>4, <1>6 DEF FilesStay

(* unlink and truncate free blocks of a file, and nothing else.            *)
LEMMA FreeFiles ==
  ASSUME VolumeInv, VolumeInv', ~dirty, UnlinkFree \/ TruncateFree
  PROVE  /\ FilesStay(store, store', {})
         /\ (op'.do = op.do /\ op'.ino = op.ino /\ ~dirty') \/ (op' = Idle /\ dirty')
<1>1. Going(store, op) /\ Both(store, store')
  BY DEF VolumeInv, Going, Both
<1>2. PICK m \in op.todo : \E name :
        Commit(name, FreeBlk(store, m.pb), [op EXCEPT !.todo = @ \ {m}, !.begun = TRUE])
  BY DEF UnlinkFree, TruncateFree
<1> DEFINE tx == FreeBlk(store, m.pb)
           u == [op EXCEPT !.todo = @ \ {m}, !.begun = TRUE]
<1>3. store' = Overlay(store, tx) /\ ((op' = u /\ ~dirty') \/ (op' = Idle /\ dirty'))
  <2>1. PICK name : Commit(name, tx, u)
    BY <1>2
  <2> HIDE DEF tx, u
  <2> QED BY <2>1, CommitLeaves
<1>4. op.do \in {"unlink", "truncate"}
  BY DEF UnlinkFree, TruncateFree
<1>5. FreeLeft(store, store', m.pb)
  BY <1>1, <1>3, <1>4, UnlinkFrees, TruncateFrees
<1>6. FilesStay(store, store', {} \ Dirs(store))
  BY <1>1, <1>5, FilesStayOn DEF FreeLeft, OthersStay, Tally
<1>7. u.do = op.do /\ u.ino = op.ino
  <2>1. UnlinkGoing(store, op) \/ TruncateGoing(store, op)
    BY <1>1, <1>4, WhichGoes
  <2> QED BY <2>1 DEF UnlinkGoing, TruncateGoing
<1> HIDE DEF u
<1> QED BY <1>3, <1>6, <1>7 DEF FilesStay

(* unlink removes its file.                                                *)
LEMMA UnlinkFiles ==
  ASSUME VolumeInv, VolumeInv', ~dirty, UnlinkFinish
  PROVE  op' = Idle /\ FilesStay(store, store', {op.ino})
<1> DEFINE tx == UnlinkTx(store, op.dir, op.ino)
<1>1. Going(store, op) /\ Both(store, store') /\ op.do = "unlink" /\ Commit("unlink", tx, Idle)
  BY DEF VolumeInv, Going, Both, UnlinkFinish
<1>2. store' = Overlay(store, tx) /\ op' = Idle
  <2> HIDE DEF tx
  <2> QED BY <1>1, CommitLeaves
<1>3. DeleteLeft(store, store', op.dir, op.ino, 0)
  BY <1>1, <1>2, UnlinkEnds
<1>4. FilesStay(store, store', {op.ino, op.dir} \ Dirs(store)) /\ op.dir \in Dirs(store)
  BY <1>1, <1>3, FilesStayOn DEF DeleteLeft, OthersStay, Tally
<1> QED BY <1>2, <1>4 DEF FilesStay

(* truncate leaves a shorter file.                                         *)
LEMMA TruncateFiles ==
  ASSUME VolumeInv, VolumeInv', ~dirty, TruncateFinish
  PROVE  op' = Idle /\ FilesStay(store, store', {op.ino}) /\ op.ino \in NamedFiles(store')
<1> DEFINE tx == TruncateTx(store, op.ino, op.size, op.ext, op.freed)
<1>1. Going(store, op) /\ Both(store, store') /\ op.do = "truncate" /\ Commit("truncate", tx, Idle)
  BY DEF VolumeInv, Going, Both, TruncateFinish
<1>2. store' = Overlay(store, tx) /\ op' = Idle
  <2> HIDE DEF tx
  <2> QED BY <1>1, CommitLeaves
<1>3. FileLeft(store, store', op.ino, {}) /\ Inode(store', op.ino).kind = "file"
  BY <1>1, <1>2, TruncateEnds DEF Became
<1>4. op.ino \in Numbers(store)
  BY <1>1, WhichGoes, NumbersAre DEF TruncateGoing, Both
<1> QED BY <1>1, <1>2, <1>3, <1>4, ChangeLeaves

(***************************************************************************)
(* The copies in the slots stay what the volume says.                      *)
(***************************************************************************)
\* a slot is as it was and stands for a file that was not changed
Untouched(k, X) == Current(k) /\ slots'[k] = slots[k] /\ slots[k].ino \notin X
(* Copies of files that stay, stay right.                                  *)
LEMMA CopiesStay ==
  ASSUME CopiesOK, ~dirty, NEW X, FilesStay(store, store', X),
         \A k \in SlotNo : Current(k)' => CopyOf(store', slots'[k]) \/ Untouched(k, X)
  PROVE  CopiesOK'
<1> SUFFICES ASSUME NEW k \in SlotNo, Current(k)'
             PROVE  CopyOf(store', slots'[k])
  BY DEF CopiesOK
<1>1. CASE Untouched(k, X)
  <2>1. CopyOf(store, slots[k])
    BY <1>1 DEF CopiesOK, Untouched
  <2> QED BY <1>1, <2>1, CopyStays DEF Untouched
<1> QED BY <1>1

(* A volume on which nothing is written does not change its files.         *)
LEMMA NothingWritten ==
  /\ \A s : FilesStay(s, s, {})
  /\ dirty' => CopiesOK'
  BY DEF FilesStay, CopiesOK

(* Between two calls no slot is waited for.                                *)
LEMMA RestingOK ==
  ASSUME op' = Idle, call' = NoCall \/ call'.do = "none"
  PROVE  UnderWay'
<1>1. Idle.do = "idle" /\ NoCall.do = "none"
  BY DEF Idle, NoCall
<1> QED BY <1>1 DEF UnderWay, Opening, Writing

(* A slot that is filled is the only one that changes.                     *)
LEMMA FillCurrent ==
  ASSUME OpenShape, NEW f \in Sft, NEW k \in AllocSlot(f), NEW i, NEW x, Fill(k, f, i, x),
         stale' = stale \ {f}
  PROVE  /\ k \in SlotNo /\ slots'[k].ino = i /\ slots'[k].inode = x
         /\ \A j \in SlotNo \ {k} : /\ Current(j)' => Current(j) /\ slots'[j] = slots[j]
                                    /\ Current(j) => slots[j].sft # f
<1>1. k \in SlotNo /\ (slots[k].used => slots[k].sft = f)
      /\ \A j \in SlotNo : slots[j].used /\ slots[j].sft = f => slots[k].used
  BY AllocGives
<1>2. \A j \in SlotNo : slots'[j] =
        IF j = k THEN [used |-> TRUE, sft |-> f, ino |-> i, inode |-> x] ELSE slots[j]
  BY <1>1 DEF Fill, OpenShape, SlotsShape, TablesOK
<1>3. \A j \in SlotNo \ {k} : slots[j].used => slots[j].sft # f
  BY <1>1 DEF OpenShape, SlotsShape, OneSlotEach
<1> QED BY <1>1, <1>2, <1>3 DEF Current

(* A slot that is given back is no longer fresh.                           *)
LEMMA DropCurrent ==
  ASSUME OpenShape, NEW f \in Sft, NEW k \in AllocSlot(f), Drop(k), stale' = stale \ {f}
  PROVE  \A j \in SlotNo : Current(j)' => Current(j) /\ slots'[j] = slots[j] /\ slots[j].sft # f
<1>1. k \in SlotNo /\ (slots[k].used => slots[k].sft = f)
      /\ \A j \in SlotNo : slots[j].used /\ slots[j].sft = f => slots[k].used
  BY AllocGives
<1>2. \A j \in SlotNo : slots'[j] = IF j = k THEN FreeSlot ELSE slots[j]
  BY <1>1 DEF Drop, OpenShape, SlotsShape, TablesOK
<1>3. \A j \in SlotNo \ {k} : slots[j].used => slots[j].sft # f
  BY <1>1 DEF OpenShape, SlotsShape, OneSlotEach
<1>4. ~FreeSlot.used
  BY DEF FreeSlot
<1> QED BY <1>1, <1>2, <1>3, <1>4 DEF Current

(* A slot whose copy alone is renewed.                                     *)
LEMMA RenewCurrent ==
  ASSUME OpenShape, NEW k \in SlotNo, NEW x, slots' = [slots EXCEPT ![k].inode = x],
         stale \subseteq stale'
  PROVE  /\ slots'[k].ino = slots[k].ino /\ slots'[k].inode = x
         /\ slots'[k].sft = slots[k].sft /\ slots'[k].used = slots[k].used
         /\ \A j \in SlotNo \ {k} : Current(j)' => Current(j) /\ slots'[j] = slots[j]
<1>1. \A j \in SlotNo : slots'[j] = IF j = k THEN [slots[k] EXCEPT !.inode = x] ELSE slots[j]
  BY DEF OpenShape, SlotsShape, TablesOK
<1>2. DOMAIN slots[k] = {"used", "sft", "ino", "inode"}
  BY DEF OpenShape, SlotsShape, TablesOK
<1> QED BY <1>1, <1>2 DEF Current

(* Other slots of a file that is changed are stale.                        *)
LEMMA TouchCurrent ==
  ASSUME NEW i, NEW f, Touch(i, f)
  PROVE  /\ stale \subseteq stale'
         /\ \A j \in SlotNo : slots'[j] = slots[j] /\ Current(j)' =>
              Current(j) /\ (slots[j].ino = i => slots[j].sft = f)
         /\ f \notin stale => f \notin stale'
  BY DEF Touch, Current

(***************************************************************************)
(* Each call keeps them.                                                   *)
(***************************************************************************)
\* what is known of a step that does not void everything
Undisturbed == VolumeInv /\ VolumeInv' /\ OpenShape /\ HandlesOK /\ ~Void'

(* A file is opened.                                                       *)
LEMMA OpenOK ==
  ASSUME Undisturbed, NEW f \in Sft, NEW n \in Name, Open(f, n)
  PROVE  HandlesOK'
<1>1. UNCHANGED <<store, op, dirty>> /\ op' = Idle /\ call' = NoCall /\ stale' = stale \ {f}
  BY DEF Open, Resting, vars
<1>2. PICK i \in FileNamed(n), k \in AllocSlot(f) : Fill(k, f, i, Cached(store, i))
  BY DEF Open
<1>3. i \in NamedFiles(store)
  BY FoundBelow DEF Undisturbed, VolumeInv, Going
<1>4. /\ k \in SlotNo /\ slots'[k].ino = i /\ slots'[k].inode = Cached(store, i)
      /\ \A j \in SlotNo \ {k} : Current(j)' => Current(j) /\ slots'[j] = slots[j]
  BY <1>1, <1>2, FillCurrent DEF Undisturbed
<1>5. CopyOf(store', slots'[k])
  BY <1>1, <1>3, <1>4 DEF CopyOf
<1>6. CASE ~dirty
  <2>1. \A j \in SlotNo : Current(j)' => CopyOf(store', slots'[j]) \/ Untouched(j, {})
    BY <1>4, <1>5 DEF Untouched
  <2>2. CopiesOK'
    BY <1>1, <1>6, <2>1, CopiesStay, NothingWritten DEF Undisturbed, HandlesOK
  <2> QED BY <1>1, <2>2, RestingOK DEF HandlesOK
<1>7. CASE dirty
  BY <1>1, <1>7, RestingOK, NothingWritten DEF HandlesOK
<1> QED BY <1>6, <1>7

(* A new file is made, and opened.                                         *)
LEMMA CreateNewOK ==
  ASSUME Undisturbed, NEW f \in Sft, NEW n \in Name, CreateNew(f, n)
  PROVE  HandlesOK'
<1>1. call' = NoCall /\ stale' = stale \ {f} /\ Create(Root, n)
  BY DEF CreateNew
<1>2. op = Idle /\ ~dirty /\ \E tx : Commit("create", tx, Idle)
  BY <1>1 DEF Create, Ready
<1>3. op' = Idle
  BY <1>2, CommitLeaves
<1>4. CASE dirty'
  BY <1>1, <1>3, <1>4, RestingOK, NothingWritten DEF HandlesOK
<1>5. CASE ~dirty'
  <2> DEFINE i == AllocIno(store)
  <2>1. Root \in Dirs(store)
    BY DEF Undisturbed, VolumeInv, Going, Sound, Rooted, TreeOf, Shape
  <2>2. /\ i \notin NamedFiles(store) /\ FilesStay(store, store', {i})
        /\ i \in NamedFiles(store') /\ Cached(store', i) = Nothing
    BY <1>1, <1>5, <2>1, CreateFiles DEF Undisturbed
  <2>3. PICK k \in AllocSlot(f) : Fill(k, f, i, Nothing)
    BY <1>5 DEF CreateNew
  <2> HIDE DEF i
  <2>4. /\ k \in SlotNo /\ slots'[k].ino = i /\ slots'[k].inode = Nothing
        /\ \A j \in SlotNo \ {k} : Current(j)' => Current(j) /\ slots'[j] = slots[j]
    BY <1>1, <2>3, FillCurrent DEF Undisturbed
  <2>5. CopyOf(store', slots'[k])
    BY <2>2, <2>4 DEF CopyOf
  <2>6. \A j \in SlotNo : Current(j) => slots[j].ino # i
    BY <1>2, <2>2 DEF Undisturbed, HandlesOK, CopiesOK, CopyOf
  <2>7. \A j \in SlotNo : Current(j)' => CopyOf(store', slots'[j]) \/ Untouched(j, {i})
    BY <2>4, <2>5, <2>6 DEF Untouched
  <2>8. CopiesOK'
    BY <1>2, <2>2, <2>7, CopiesStay DEF Undisturbed, HandlesOK
  <2> QED BY <1>1, <1>3, <2>8, RestingOK DEF HandlesOK
<1> QED BY <1>4, <1>5

(* What a truncate begins with.                                            *)
LEMMA TruncateBegun ==
  ASSUME NEW i, NEW n, Truncate(i, n)
  PROVE  UNCHANGED <<store, dirty>> /\ ~dirty /\ op'.do = "truncate" /\ op'.ino = i
  BY DEF Truncate, Begin, Ready

(* Where neither slots nor files change, copies stay right.                *)
LEMMA SameCopies ==
  ASSUME CopiesOK, UNCHANGED slots, dirty => dirty', stale \subseteq stale',
         FilesStay(store, store', {})
  PROVE  CopiesOK'
<1>1. CASE dirty
  BY <1>1, NothingWritten
<1>2. CASE ~dirty
  <2>1. \A k \in SlotNo : Current(k)' => Untouched(k, {})
    BY DEF Current, Untouched
  <2> QED BY <1>2, <2>1, CopiesStay
<1> QED BY <1>1, <1>2

(* A file is to be replaced: no other fresh slot stands for it.            *)
LEMMA ReplaceOK ==
  ASSUME Undisturbed, NEW f \in Sft, NEW n \in Name, NEW way \in Opening, Replace(f, n, way)
  PROVE  HandlesOK'
<1>1. PICK i, k : /\ Truncate(i, 0) /\ Touch(i, f)
                  /\ call' = [do |-> way, slot |-> k, sft |-> f]
  BY DEF Replace
<1>2. UNCHANGED <<store, dirty>> /\ ~dirty /\ op'.do = "truncate" /\ op'.ino = i
  BY <1>1, TruncateBegun
<1>3. UNCHANGED slots
  BY DEF Replace
<1>4. /\ stale \subseteq stale'
      /\ \A j \in SlotNo : Current(j)' => (slots'[j].ino = i => slots'[j].sft = f)
  BY <1>1, <1>3, TouchCurrent
<1>5. CopiesOK'
  BY <1>2, <1>3, <1>4, SameCopies, NothingWritten DEF Undisturbed, HandlesOK
<1>6. Waiter' = f /\ call'.do = way
  BY <1>1 DEF Waiter, Opening
<1>7. UnderWay'
  BY <1>2, <1>4, <1>6 DEF UnderWay, SlotsOf, Opening, Writing
<1> QED BY <1>5, <1>7 DEF HandlesOK

(* A slot is given back, or DOS forgets an SFT.                            *)
LEMMA GiveBackOK ==
  ASSUME Undisturbed, NEW f \in Sft, CreateRefused(f) \/ Close(f) \/ Forget(f)
  PROVE  HandlesOK'
<1>1. UNCHANGED <<store, dirty>> /\ op' = Idle /\ call' = NoCall
  BY DEF CreateRefused, Close, Forget, Resting, vars
<1>2. \A j \in SlotNo : Current(j)' => Untouched(j, {})
  <2>1. CASE CreateRefused(f)
    <3>1. PICK k \in AllocSlot(f) : Drop(k)
      BY <2>1 DEF CreateRefused
    <3>2. stale' = stale \ {f}
      BY <2>1 DEF CreateRefused
    <3> QED BY <3>1, <3>2, DropCurrent DEF Undisturbed, Untouched
  <2>2. CASE Close(f)
    <3>1. /\ \A j \in SlotNo : slots'[j] = IF j \in FindSlot(f) THEN FreeSlot ELSE slots[j]
          /\ stale' = stale \ {f}
      BY <2>2 DEF Close
    <3>2. ~FreeSlot.used
      BY DEF FreeSlot
    <3>3. \A j \in SlotNo : slots[j].used /\ slots[j].sft = f => j \in FindSlot(f)
      BY FindGives DEF Undisturbed, OpenShape, SlotsShape
    <3> QED BY <3>1, <3>2, <3>3 DEF Current, Untouched
  <2>3. CASE Forget(f)
    BY <2>3 DEF Forget, Current, Untouched
  <2> QED BY <2>1, <2>2, <2>3
<1>3. CASE ~dirty
  <2>1. CopiesOK'
    BY <1>1, <1>2, <1>3, CopiesStay, NothingWritten DEF Undisturbed, HandlesOK
  <2> QED BY <1>1, <2>1, RestingOK DEF HandlesOK
<1>4. CASE dirty
  BY <1>1, <1>4, RestingOK, NothingWritten DEF HandlesOK
<1> QED BY <1>3, <1>4

(* A loop of writes begins.                                                *)
LEMMA LoopBeginsOK ==
  ASSUME Undisturbed, NEW f \in Sft, NEW n \in 0 .. MaxSize, NEW x, NEW y,
         Lengthen(f, n) \/ Overwrite(f, x, y)
  PROVE  HandlesOK'
<1>1. /\ UNCHANGED <<store, op, dirty, slots, stale>> /\ op' = Idle /\ Uses(f)
  BY DEF Lengthen, Overwrite, Resting, vars
<1>2. PICK k \in FindSlot(f) :
        \/ call' = [do |-> "extend", slot |-> k, upto |-> n] /\ slots[k].inode.size < n
        \/ call' = [do |-> "overwrite", slot |-> k, next |-> x, last |-> y]
  BY DEF Lengthen, Overwrite
<1>3. k \in SlotNo /\ Current(k)
  BY <1>1, FoundCurrent DEF Undisturbed
<1>4. CopiesOK'
  BY <1>1, SameCopies, NothingWritten DEF Undisturbed, HandlesOK
<1>5. /\ call'.do \in Writing /\ call'.slot = k /\ Current(k)'
      /\ call'.do = "extend" => call'.upto \in 0 .. MaxSize /\ slots'[k].inode.size < call'.upto
  BY <1>1, <1>2, <1>3 DEF Writing, Current
<1>6. Idle.do = "idle"
  BY DEF Idle
<1>7. UnderWay'
  BY <1>1, <1>5, <1>6 DEF UnderWay, Writing, Opening
<1> QED BY <1>4, <1>7 DEF HandlesOK

(* A piece is appended: the slot remembers what the inode became.          *)
LEMMA ExtendOneOK ==
  ASSUME Undisturbed, ExtendOne
  PROVE  HandlesOK'
<1> DEFINE k == call.slot
           i == slots[k].ino
           c == Inode(store, i)
           n == Piece(k)
<1>1. /\ k \in SlotNo /\ Current(k) /\ op = Idle /\ ~dirty
      /\ n \in 1 .. Unit /\ c.size + n <= MaxSize
      /\ \E b \in Candidates(store, c) :
           /\ Commit("extend", ExtendTx(store, c, i, b, n), Idle)
           /\ slots' = IF dirty' THEN slots
                       ELSE [slots EXCEPT ![k].inode = [size |-> c.size + n, ext |-> Grown(c.ext, c, b)]]
      /\ call' = NoCall \/ (call' = call /\ c.size + n < call.upto)
  BY ExtendOneIs DEF Undisturbed
<1>2. Touch(i, slots[k].sft)
  BY DEF ExtendOne
<1>3. i \in NamedFiles(store)
  BY <1>1, CurrentCopy DEF Undisturbed
<1>4. call.do = "extend" /\ call.upto \in 0 .. MaxSize /\ \A g : call' = call => call'.slot = k
  BY DEF ExtendOne, Undisturbed, HandlesOK, UnderWay
<1> HIDE DEF n, i, c, k
<1>5. PICK b \in Candidates(store, c) :
        /\ Commit("extend", ExtendTx(store, c, i, b, n), Idle)
        /\ slots' = IF dirty' THEN slots
                    ELSE [slots EXCEPT ![k].inode = [size |-> c.size + n, ext |-> Grown(c.ext, c, b)]]
  BY <1>1
<1> DEFINE x == [size |-> c.size + n, ext |-> Grown(c.ext, c, b)]
<1>6. /\ op' = Idle /\ FilesStay(store, store', {i}) /\ i \in NamedFiles(store')
      /\ Cached(store', i) = x
  <2>1. c = Inode(store, i)
    BY DEF c
  <2>2. VolumeInv /\ VolumeInv' /\ ~dirty /\ op = Idle /\ n \in 1 .. Unit
    BY <1>1 DEF Undisturbed
  <2>3. Commit("extend", ExtendTx(store, c, i, b, n), Idle)
    BY <1>5
  <2> QED BY <1>3, <2>1, <2>2, <2>3, ExtendFiles
<1>7. x.size = c.size + n
  OBVIOUS
<1>8. ~dirty' => slots' = [slots EXCEPT ![k].inode = x]
  BY <1>5
<1> HIDE DEF x
<1>9. CASE dirty'
  <2>1. call' = NoCall
    BY <1>9 DEF ExtendOne
  <2> QED BY <1>6, <1>9, <2>1, RestingOK, NothingWritten DEF HandlesOK
<1>10. CASE ~dirty'
  <2>1. /\ stale \subseteq stale' /\ slots[k].sft \notin stale'
        /\ \A j \in SlotNo : slots'[j] = slots[j] /\ Current(j)' =>
             Current(j) /\ (slots[j].ino = i => slots[j].sft = slots[k].sft)
    BY <1>1, <1>2, TouchCurrent DEF Current
  <2>2. /\ slots'[k].ino = slots[k].ino /\ slots'[k].inode = x
        /\ slots'[k].sft = slots[k].sft /\ slots'[k].used = slots[k].used
        /\ \A j \in SlotNo \ {k} : Current(j)' => Current(j) /\ slots'[j] = slots[j]
    BY <1>1, <1>8, <1>10, <2>1, RenewCurrent DEF Undisturbed
  <2>3. CopyOf(store', slots'[k])
    BY <1>6, <2>2 DEF CopyOf, i
  <2>4. \A j \in SlotNo \ {k} : Current(j)' => slots[j].ino # i
    BY <1>1, <2>1, <2>2 DEF Undisturbed, OpenShape, SlotsShape, OneSlotEach, Current
  <2>5. \A j \in SlotNo : Current(j)' => CopyOf(store', slots'[j]) \/ Untouched(j, {i})
    BY <2>2, <2>3, <2>4 DEF Untouched
  <2>6. CopiesOK'
    BY <1>1, <1>6, <2>5, CopiesStay DEF Undisturbed, HandlesOK
  <2>7. slots'[k].used /\ slots'[k].sft \notin stale'
    BY <1>1, <2>1, <2>2 DEF Current
  <2>8. CASE call' = NoCall
    BY <1>6, <2>6, <2>8, RestingOK DEF HandlesOK
  <2>9. CASE call' = call /\ c.size + n < call.upto
    <3>1. call'.do = "extend" /\ call'.slot = k /\ call'.upto = call.upto
      BY <1>4, <2>9 DEF k
    <3>2. slots'[k].inode.size < call'.upto
      BY <1>7, <2>2, <2>9, <3>1
    <3>3. Idle.do = "idle"
      BY DEF Idle
    <3>4. Current(call.slot)'
      BY <2>7, <3>1 DEF Current
    <3>5. UnderWay'
      BY <1>4, <1>6, <1>10, <3>1, <3>2, <3>3, <3>4 DEF UnderWay, Writing, Opening
    <3> QED BY <2>6, <3>5 DEF HandlesOK
  <2> QED BY <1>1, <2>8, <2>9
<1> QED BY <1>9, <1>10

(* A piece is written in place.                                            *)
LEMMA OverwriteOneOK ==
  ASSUME Undisturbed, OverwriteOne
  PROVE  HandlesOK'
<1>1. PICK i : /\ i = slots[call.slot].ino /\ i \in NamedFiles(store)
               /\ \E m \in Mapped(Inode(store, i).ext) : Commit("write", WriteTx(store, i, m.pb), Idle)
  BY OverwriteOneIs, CurrentCopy DEF Undisturbed
<1>2. op = Idle /\ ~dirty /\ Current(call.slot) /\ call.do = "overwrite" /\ UNCHANGED <<slots, stale>>
  BY OverwriteOneIs DEF Undisturbed, OverwriteOne
<1>3. op' = Idle /\ FilesStay(store, store', {})
  BY <1>1, <1>2, WriteFiles DEF Undisturbed
<1>4. CASE dirty'
  <2>1. call' = NoCall
    BY <1>4 DEF OverwriteOne
  <2> QED BY <1>3, <1>4, <2>1, RestingOK, NothingWritten DEF HandlesOK
<1>5. CASE ~dirty'
  <2>1. \A k \in SlotNo : Current(k)' => Untouched(k, {})
    BY <1>2 DEF Current, Untouched
  <2>2. CopiesOK'
    BY <1>2, <1>3, <2>1, CopiesStay DEF Undisturbed, HandlesOK
  <2>3. CASE call' = NoCall
    BY <1>3, <2>2, <2>3, RestingOK DEF HandlesOK
  <2>4. CASE call' # NoCall
    <3>1. call' = [call EXCEPT !.next = @ + 1]
      BY <2>4 DEF OverwriteOne
    <3>2. call'.do = "overwrite" /\ call'.slot = call.slot
      BY <1>2, <3>1
    <3>3. Current(call.slot)'
      BY <1>2, <3>2 DEF Current
    <3>4. Idle.do = "idle"
      BY DEF Idle
    <3>5. UnderWay'
      BY <1>3, <1>5, <3>2, <3>3, <3>4 DEF UnderWay, Writing, Opening
    <3> QED BY <2>2, <3>5 DEF HandlesOK
  <2> QED BY <2>3, <2>4
<1> QED BY <1>4, <1>5

(* A loop ends where it is.                                                *)
LEMMA WriteFailsOK ==
  ASSUME Undisturbed, WriteFails
  PROVE  HandlesOK'
<1>1. UNCHANGED <<store, op, dirty, slots, stale>> /\ call' = NoCall /\ call.do \in Writing
  BY DEF WriteFails, Writing, vars
<1>2. op' = Idle
  BY <1>1 DEF Undisturbed, HandlesOK, UnderWay
<1>3. CopiesOK'
  BY <1>1, SameCopies, NothingWritten DEF Undisturbed, HandlesOK
<1> QED BY <1>1, <1>2, <1>3, RestingOK DEF HandlesOK

(* A file is to be cut: no other fresh slot stands for it.                 *)
LEMMA CutToOK ==
  ASSUME Undisturbed, NEW f \in Sft, NEW n \in 0 .. MaxSize, CutTo(f, n)
  PROVE  HandlesOK'
<1>1. PICK k \in SlotNo :
        /\ Current(k) /\ slots[k].sft = f /\ Truncate(slots[k].ino, n)
        /\ call' = [do |-> "cut", slot |-> k, sft |-> f] /\ Touch(slots[k].ino, f)
  BY CutToIs DEF Undisturbed
<1>2. /\ UNCHANGED <<store, dirty>> /\ ~dirty
      /\ op'.do = "truncate" /\ op'.ino = slots[k].ino
  BY <1>1, TruncateBegun
<1>3. UNCHANGED slots
  BY DEF CutTo
<1>4. /\ stale \subseteq stale' /\ f \notin stale'
      /\ \A j \in SlotNo : Current(j)' => (slots'[j].ino = slots[k].ino => slots'[j].sft = f)
  <2>1. f \notin stale
    BY <1>1 DEF Current
  <2> QED BY <1>1, <1>3, <2>1, TouchCurrent
<1>5. CopiesOK'
  BY <1>2, <1>3, <1>4, SameCopies, NothingWritten DEF Undisturbed, HandlesOK
<1>6. /\ Waiter' = f /\ call'.do = "cut" /\ call'.slot = k
      /\ Current(call.slot)' /\ slots'[call'.slot].ino = op'.ino
  BY <1>1, <1>2, <1>3, <1>4 DEF Waiter, Current
<1>7. UnderWay'
  BY <1>2, <1>4, <1>6 DEF UnderWay, SlotsOf, Opening, Writing
<1> QED BY <1>5, <1>7 DEF HandlesOK

(* A cut that was answered with an error is tried again.                   *)
LEMMA CutAgainOK ==
  ASSUME Undisturbed, NEW f \in Sft, NEW n \in 0 .. MaxSize, CutAgain(f, n)
  PROVE  HandlesOK'
<1>1. UNCHANGED <<store, op, dirty, call, stale>> /\ op' = Idle /\ call' = NoCall /\ Uses(f)
  BY DEF CutAgain, Resting, vars
<1>2. PICK k \in FindSlot(f) : ReRead(k, store, slots[k].ino)
  BY DEF CutAgain
<1>3. k \in SlotNo /\ Current(k)
  BY <1>1, FoundCurrent DEF Undisturbed
<1>4. /\ slots'[k].ino = slots[k].ino /\ slots'[k].inode = Cached(store, slots[k].ino)
      /\ \A j \in SlotNo \ {k} : Current(j)' => Current(j) /\ slots'[j] = slots[j]
  BY <1>1, <1>2, <1>3, RenewCurrent DEF Undisturbed, ReRead
<1>5. CASE dirty
  BY <1>1, <1>5, RestingOK, NothingWritten DEF HandlesOK
<1>6. CASE ~dirty
  <2>1. slots[k].ino \in NamedFiles(store)
    BY <1>3, <1>6, CurrentCopy DEF Undisturbed
  <2>2. CopyOf(store', slots'[k])
    BY <1>1, <1>4, <2>1 DEF CopyOf
  <2>3. \A j \in SlotNo : Current(j)' => CopyOf(store', slots'[j]) \/ Untouched(j, {})
    BY <1>4, <2>2 DEF Untouched
  <2>4. CopiesOK'
    BY <1>1, <1>6, <2>3, CopiesStay, NothingWritten DEF Undisturbed, HandlesOK
  <2> QED BY <1>1, <2>4, RestingOK DEF HandlesOK
<1> QED BY <1>5, <1>6

(* Blocks of the file that is cut or removed are freed.                    *)
LEMMA FreeGoesOK ==
  ASSUME Undisturbed, UnlinkFree \/ TruncateFree, op' # Idle, UNCHANGED openVars
  PROVE  HandlesOK'
<1>1. op # Idle /\ ~dirty
  <2>1. op.do \in {"unlink", "truncate"} /\ Idle.do = "idle"
    BY DEF UnlinkFree, TruncateFree, Idle
  <2> QED BY <2>1 DEF Undisturbed, HandlesOK, UnderWay
<1>2. FilesStay(store, store', {}) /\ op'.do = op.do /\ op'.ino = op.ino /\ ~dirty'
  BY <1>1, FreeFiles DEF Undisturbed
<1>3. UNCHANGED <<slots, call, stale>>
  BY DEF openVars
<1>4. CopiesOK'
  BY <1>1, <1>2, <1>3, SameCopies DEF Undisturbed, HandlesOK
<1>5. \A k \in SlotNo : Current(k)' <=> Current(k)
  BY <1>3 DEF Current
<1>6. Current(call.slot)' <=> Current(call.slot)
  BY <1>3 DEF Current
<1>7. Waiter' = Waiter /\ SlotsOf(op.ino)' = SlotsOf(op.ino)
  BY <1>2, <1>3, <1>5 DEF Waiter, SlotsOf
<1>8. UnderWay
  BY DEF Undisturbed, HandlesOK
<1>9. op.do \in {"unlink", "truncate"}
  BY DEF UnlinkFree, TruncateFree
<1>10. Idle.do = "idle"
  BY DEF Idle
<1>11. UnderWay'
  BY <1>2, <1>3, <1>6, <1>7, <1>8, <1>9, <1>10 DEF UnderWay
<1> QED BY <1>4, <1>11 DEF HandlesOK

(* A file is removed: no fresh slot stands for it.                         *)
LEMMA DeleteOK ==
  ASSUME Undisturbed, NEW n \in Name, Delete(n)
  PROVE  HandlesOK'
<1>1. PICK i : Unlink(Root, i) /\ Touch(i, 0)
  BY DEF Delete
<1>2. /\ UNCHANGED <<store, dirty>> /\ op = Idle /\ ~dirty
      /\ op'.do = "unlink" /\ op'.ino = i
  BY <1>1 DEF Unlink, Begin, Ready
<1>3. UNCHANGED slots /\ call' = NoCall
  BY DEF Delete
<1>4. /\ stale \subseteq stale'
      /\ \A j \in SlotNo : Current(j)' => Current(j) /\ (slots'[j].ino = i => slots'[j].sft = 0)
  BY <1>1, <1>3, TouchCurrent
<1>5. \A j \in SlotNo : Current(j) => slots[j].sft # 0
  BY SlotsAssumption DEF Undisturbed, OpenShape, SlotsShape, TablesOK, Current
<1>6. CopiesOK'
  BY <1>2, <1>3, <1>4, SameCopies, NothingWritten DEF Undisturbed, HandlesOK
<1>7. SlotsOf(op.ino)' = {}
  BY <1>2, <1>3, <1>4, <1>5 DEF SlotsOf
<1>8. NoCall.do = "none"
  BY DEF NoCall
<1>9. UnderWay'
  BY <1>2, <1>3, <1>7, <1>8 DEF UnderWay, Opening, Writing
<1> QED BY <1>6, <1>9 DEF HandlesOK

(* It goes on being removed, or its removal is cut short.                  *)
LEMMA DeleteGoesOK ==
  ASSUME Undisturbed, DeleteGoes
  PROVE  HandlesOK'
<1>1. op.do = "unlink" /\ op # Idle /\ ~dirty /\ UNCHANGED <<slots, call, stale>>
  <2>1. Idle.do = "idle"
    BY DEF Idle
  <2> QED BY <2>1 DEF DeleteGoes, Undisturbed, HandlesOK, UnderWay, openVars
<1>2. CASE op' # Idle
  <2>1. UnlinkFree
    BY <1>2, UnlinkFiles, <1>1 DEF DeleteGoes, Interrupt, Undisturbed
  <2> QED BY <1>2, <2>1, FreeGoesOK DEF DeleteGoes
<1>3. CASE op' = Idle
  <2>1. call.do = "none"
    BY <1>1 DEF Undisturbed, OpenShape, CallOK, HandlesOK, UnderWay
  <2>2. UnderWay'
    BY <1>1, <1>3, <2>1, RestingOK
  <2>3. \A k \in SlotNo : Current(k)' => Untouched(k, {op.ino})
    BY <1>1 DEF Undisturbed, HandlesOK, UnderWay, SlotsOf, Current, Untouched
  <2>4. UnlinkFree \/ Interrupt => FilesStay(store, store', {})
    BY <1>1, FreeFiles, NothingWritten DEF Undisturbed, Interrupt
  <2>5. UnlinkFinish => FilesStay(store, store', {op.ino})
    BY <1>1, UnlinkFiles DEF Undisturbed
  <2>6. FilesStay(store, store', {op.ino})
    BY <2>4, <2>5 DEF FilesStay, DeleteGoes
  <2>7. CopiesOK'
    BY <1>1, <2>3, <2>6, CopiesStay DEF Undisturbed, HandlesOK
  <2> QED BY <2>2, <2>7 DEF HandlesOK
<1> QED BY <1>2, <1>3

(* A file is shorter, and the slot that waited for it says so.             *)
LEMMA TruncateDoneOK ==
  ASSUME Undisturbed, TruncateDone
  PROVE  HandlesOK'
<1>1. op.do = "truncate" /\ TruncateFinish /\ ~dirty' /\ call' = NoCall
  BY DEF TruncateDone
<1>2. ~dirty
  <2>1. Idle.do = "idle"
    BY DEF Idle
  <2> QED BY <1>1, <2>1 DEF Undisturbed, HandlesOK, UnderWay
<1>3. /\ op' = Idle /\ FilesStay(store, store', {op.ino}) /\ op.ino \in NamedFiles(store')
  BY <1>1, <1>2, TruncateFiles DEF Undisturbed
<1>4. call'.do = "none"
  BY <1>1 DEF NoCall
<1>5. UnderWay'
  BY <1>3, <1>4, RestingOK
<1>6. \A j \in SlotNo : Current(j) /\ slots[j].ino = op.ino => slots[j].sft = Waiter
  BY <1>1 DEF Undisturbed, HandlesOK, UnderWay, SlotsOf
<1>7. CASE call.do = "cut"
  <2>1. PICK k \in SlotNo : k = call.slot /\ Current(k) /\ slots[k].ino = op.ino
    BY <1>7 DEF Undisturbed, OpenShape, CallOK, HandlesOK, UnderWay
  <2>2. Waiter = slots[k].sft
    BY <1>7, <2>1 DEF Waiter
  <2>3. ReRead(k, store', op.ino) /\ UNCHANGED stale
    BY <1>7, <2>1 DEF TruncateDone, Opening
  <2>4. /\ slots'[k].ino = op.ino /\ slots'[k].inode = Cached(store', op.ino)
        /\ \A j \in SlotNo \ {k} : Current(j)' => Current(j) /\ slots'[j] = slots[j]
    BY <2>1, <2>3, RenewCurrent DEF Undisturbed, ReRead
  <2>5. \A j \in SlotNo \ {k} : Current(j) => slots[j].ino # op.ino
    BY <1>6, <2>1, <2>2 DEF Undisturbed, OpenShape, SlotsShape, OneSlotEach, Current
  <2>6. \A j \in SlotNo : Current(j)' => CopyOf(store', slots'[j]) \/ Untouched(j, {op.ino})
    BY <1>3, <2>4, <2>5 DEF CopyOf, Untouched
  <2>7. CopiesOK'
    BY <1>2, <1>3, <2>6, CopiesStay DEF Undisturbed, HandlesOK
  <2> QED BY <1>5, <2>7 DEF HandlesOK
<1>8. CASE call.do \in Opening
  <2>1. PICK f \in Sft : f = call.sft /\ call.slot \in AllocSlot(f)
    BY <1>8 DEF Undisturbed, OpenShape, CallOK
  <2>2. PICK k \in AllocSlot(f) : k = call.slot
    BY <2>1
  <2>3. Waiter = f
    BY <1>8, <2>1 DEF Waiter, Opening
  <2>4. Fill(k, f, op.ino, Cached(store', op.ino)) /\ stale' = stale \ {f}
    BY <1>8, <2>1, <2>2 DEF TruncateDone, Opening
  <2>5. /\ k \in SlotNo /\ slots'[k].ino = op.ino /\ slots'[k].inode = Cached(store', op.ino)
        /\ \A j \in SlotNo \ {k} : /\ Current(j)' => Current(j) /\ slots'[j] = slots[j]
                                   /\ Current(j) => slots[j].sft # f
    BY <2>4, FillCurrent DEF Undisturbed
  <2>6. \A j \in SlotNo : Current(j)' => CopyOf(store', slots'[j]) \/ Untouched(j, {op.ino})
    BY <1>3, <1>6, <2>3, <2>5 DEF CopyOf, Untouched
  <2>7. CopiesOK'
    BY <1>2, <1>3, <2>6, CopiesStay DEF Undisturbed, HandlesOK
  <2> QED BY <1>5, <2>7 DEF HandlesOK
<1> QED BY <1>1, <1>7, <1>8 DEF Undisturbed, HandlesOK, UnderWay

(* What a truncate is shortening is a file with a name.                    *)
LEMMA ShortenedFile ==
  ASSUME VolumeInv, op.do = "truncate"
  PROVE  op.ino \in NamedFiles(store)
<1>1. Going(store, op) /\ Sound(store)
  BY DEF VolumeInv, Going
<1>2. op.ino \in NamedIn(store)
  BY <1>1, WhichGoes DEF TruncateGoing
<1>3. op.ino \in Files(store)
  BY <1>1, TruncateEnds DEF FileLeft
<1> QED BY <1>2, <1>3 DEF NamedFiles

(* A truncate fails: the slot is given back, or is of the file as it is.   *)
LEMMA TruncateFailsOK ==
  ASSUME Undisturbed, TruncateFails
  PROVE  HandlesOK'
<1>1. op.do = "truncate" /\ call' = NoCall
  BY DEF TruncateFails
<1>2. ~dirty
  <2>1. Idle.do = "idle"
    BY DEF Idle
  <2> QED BY <1>1, <2>1 DEF Undisturbed, HandlesOK, UnderWay
<1>3. op' = Idle
  BY <1>1, <1>2, FreeFiles, TruncateFiles DEF TruncateFails, Interrupt, Undisturbed
<1>4. call'.do = "none"
  BY <1>1 DEF NoCall
<1>5. UnderWay'
  BY <1>3, <1>4, RestingOK
<1>6. CASE dirty'
  BY <1>5, <1>6, NothingWritten DEF HandlesOK
<1>7. CASE ~dirty'
  <2>1. UNCHANGED store
    BY <1>7 DEF TruncateFails, Interrupt
  <2>2. \A j \in SlotNo : Current(j)' => CopyOf(store', slots'[j]) \/ Untouched(j, {})
    <3>1. CASE call.do = "cut"
      <4>1. UNCHANGED <<slots, stale>>
        BY <3>1 DEF TruncateFails
      <4> QED BY <4>1 DEF Current, Untouched
    <3>2. CASE call.do \in Opening
      <4>1. PICK f \in Sft : f = call.sft /\ call.slot \in AllocSlot(f)
        BY <3>2 DEF Undisturbed, OpenShape, CallOK
      <4>2. PICK k \in AllocSlot(f) : k = call.slot
        BY <4>1
      <4>3. stale' = stale \ {f}
        BY <3>2, <4>1 DEF TruncateFails, Opening
      <4>4. CASE Drop(k)
        BY <4>3, <4>4, DropCurrent DEF Undisturbed, Untouched
      <4>5. CASE Fill(k, f, op.ino, Cached(store, op.ino))
        <5>1. /\ k \in SlotNo /\ slots'[k].ino = op.ino /\ slots'[k].inode = Cached(store, op.ino)
              /\ \A j \in SlotNo \ {k} : Current(j)' => Current(j) /\ slots'[j] = slots[j]
          BY <4>3, <4>5, FillCurrent DEF Undisturbed
        <5>2. op.ino \in NamedFiles(store')
          BY <1>1, <2>1, ShortenedFile DEF Undisturbed
        <5> QED BY <2>1, <5>1, <5>2 DEF CopyOf, Untouched
      <4> QED BY <3>2, <4>1, <4>2, <4>4, <4>5 DEF TruncateFails, Opening
    <3> QED BY <1>1, <3>1, <3>2 DEF Undisturbed, HandlesOK, UnderWay
  <2>3. CopiesOK'
    BY <1>2, <2>1, <2>2, CopiesStay, NothingWritten DEF Undisturbed, HandlesOK
  <2> QED BY <1>5, <2>3 DEF HandlesOK
<1> QED BY <1>6, <1>7

(* After a restart no slot stands for anything.                            *)
LEMMA RestartOK ==
  ASSUME Undisturbed, Restart
  PROVE  HandlesOK'
<1>1. slots' = [k \in SlotNo |-> FreeSlot] /\ call' = NoCall
  BY DEF Restart
<1>2. op' = Idle
  <2>1. Remount => op' = Idle
    BY DEF Remount, Undisturbed, HandlesOK, UnderWay
  <2> QED BY <2>1 DEF Restart, Interrupt, vars
<1>3. call'.do = "none" /\ ~FreeSlot.used
  BY <1>1 DEF NoCall, FreeSlot
<1>4. CopiesOK'
  BY <1>1, <1>3 DEF CopiesOK, Current
<1> QED BY <1>2, <1>3, <1>4, RestingOK DEF HandlesOK

(* Nothing changes when nothing changes.                                   *)
LEMMA SameHandles ==
  ASSUME HandlesOK, UNCHANGED allVars
  PROVE  HandlesOK'
<1>1. UNCHANGED <<store, op, dirty, slots, call, stale>>
  BY DEF allVars, openVars, vars
<1>2. \A k \in SlotNo : Current(k)' <=> Current(k)
  BY <1>1 DEF Current
<1>3. Current(call.slot)' <=> Current(call.slot)
  BY <1>1 DEF Current
<1>4. CopiesOK'
  BY <1>1, <1>2 DEF HandlesOK, CopiesOK
<1>5. Waiter' = Waiter /\ SlotsOf(op.ino)' = SlotsOf(op.ino)
  BY <1>1, <1>2 DEF Waiter, SlotsOf
<1>6. UnderWay'
  BY <1>1, <1>3, <1>5 DEF HandlesOK, UnderWay
<1> QED BY <1>4, <1>6 DEF HandlesOK

(* Whatever is called, they are kept.                                      *)
LEMMA HandlesStep ==
  ASSUME Undisturbed, [OpenNext]_allVars
  PROVE  HandlesOK'
<1>1. \A f \in Sft : Close(f) \/ Forget(f) \/ CreateRefused(f) => HandlesOK'
  BY GiveBackOK
<1>2. \A f \in Sft, n \in Name : Open(f, n) \/ CreateNew(f, n) => HandlesOK'
  BY OpenOK, CreateNewOK
<1>3. \A f \in Sft, n \in Name, way \in {"create", "extopen"} : Replace(f, n, way) => HandlesOK'
  BY ReplaceOK DEF Opening
<1>4. \A f \in Sft, n \in 0 .. MaxSize : Lengthen(f, n) \/ CutTo(f, n) \/ CutAgain(f, n) => HandlesOK'
  BY LoopBeginsOK, CutToOK, CutAgainOK
<1>5. \A f \in Sft, x, y \in 0 .. MaxSize \div Unit : Overwrite(f, x, y) => HandlesOK'
  <2>1. 0 \in 0 .. MaxSize
    BY BoundsAssumption
  <2> QED BY <2>1, LoopBeginsOK
<1>6. ExtendOne \/ OverwriteOne \/ WriteFails => HandlesOK'
  BY ExtendOneOK, OverwriteOneOK, WriteFailsOK
<1>7. TruncateGoes => HandlesOK'
  BY FreeGoesOK DEF TruncateGoes
<1>8. TruncateDone \/ TruncateFails \/ DeleteGoes \/ Restart => HandlesOK'
  BY TruncateDoneOK, TruncateFailsOK, DeleteGoesOK, RestartOK
<1>9. \A n \in Name : Delete(n) => HandlesOK'
  BY DeleteOK
<1>10. UNCHANGED allVars => HandlesOK'
  BY SameHandles DEF Undisturbed
<1> HIDE DEF HandlesOK
<1> QED BY <1>1, <1>2, <1>3, <1>4, <1>5, <1>6, <1>7, <1>8, <1>9, <1>10 DEF OpenNext

(* Whatever is called, the tables stay in order.                           *)
LEMMA ShapeStep ==
  ASSUME OpenShape, [OpenNext]_allVars
  PROVE  OpenShape'
<1>1. CASE UNCHANGED allVars
  BY <1>1, SameShape DEF allVars, openVars
<1>2. ASSUME NEW f \in Sft, Close(f) \/ Forget(f) \/ CreateRefused(f)
      PROVE  OpenShape'
  BY <1>2, GiveBackKeepsShape
<1>3. ASSUME NEW f \in Sft, NEW n \in Name, Open(f, n) \/ CreateNew(f, n)
      PROVE  OpenShape'
  BY <1>3, OpenKeepsShape
<1>4. ASSUME NEW f \in Sft, NEW n \in Name, NEW way \in {"create", "extopen"}, Replace(f, n, way)
      PROVE  OpenShape'
  BY <1>4, ReplaceKeepsShape DEF Opening
<1>5. ASSUME NEW f \in Sft, NEW n \in 0 .. MaxSize, Lengthen(f, n) \/ CutTo(f, n) \/ CutAgain(f, n)
      PROVE  OpenShape'
  BY <1>5, WriteKeepsShape
<1>6. ASSUME NEW f \in Sft, NEW x \in 0 .. MaxSize \div Unit, NEW y \in 0 .. MaxSize \div Unit,
             Overwrite(f, x, y)
      PROVE  OpenShape'
  BY <1>6, WriteKeepsShape
<1>7. CASE ExtendOne \/ OverwriteOne \/ WriteFails
  BY <1>7, LoopKeepsShape
<1>8. CASE TruncateDone \/ TruncateFails
  BY <1>8, TruncateKeepsShape
<1>9. CASE TruncateGoes \/ DeleteGoes \/ \E n \in Name : Delete(n)
  BY <1>9, SameShape DEF TruncateGoes, DeleteGoes, Delete, openVars
<1>10. CASE Restart
  BY <1>10, RestartKeepsShape
<1> QED BY <1>1, <1>2, <1>3, <1>4, <1>5, <1>6, <1>7, <1>8, <1>9, <1>10 DEF OpenNext

(***************************************************************************)
(* The theorems.                                                           *)
(***************************************************************************)
(* The tables of open files are in order in every reachable state.         *)
THEOREM OpenShapeInvariant == OpenSpec => []OpenShape
<1>1. OpenInit => OpenShape
  BY EmptyShape DEF OpenInit
<1>2. OpenShape /\ [OpenNext]_allVars => OpenShape'
  BY ShapeStep
<1> QED BY <1>1, <1>2, PTL DEF OpenSpec

(* Every SFT that DOS believes open finds a slot of the file DOS opened    *)
(* with it, whatever was closed, forgotten, refused or reused in between   *)
(* (tsr.c:204, 219).                                                       *)
THEOREM HandlesKeepFiles == OpenSpec => []HandleKeepsFile
<1>1. OpenShape => HandleKeepsFile
  <2> SUFFICES ASSUME OpenShape, NEW f \in Sft, held[f] # 0
               PROVE  \E k \in FindSlot(f) : slots[k].ino = held[f]
    BY DEF HandleKeepsFile
  <2>1. PICK k \in SlotNo : slots[k].used /\ slots[k].sft = f /\ slots[k].ino = held[f]
    BY DEF OpenShape, SlotsShape, SlotOfFile
  <2> QED BY <2>1, FindGives DEF OpenShape, SlotsShape
<1> QED BY <1>1, OpenShapeInvariant, PTL

(* Until then, a step is one of the library's or none, and leaves all      *)
(* that holds a volume and its handles together.                           *)
LEMMA OpenStep ==
  ASSUME OpenInv, [OpenNext]_allVars, ~Void'
  PROVE  ~Void /\ VolumeInv /\ [Next]_vars /\ Advances /\ HandlesOK'
<1>1. ~Void /\ ~Exposed'
  BY VoidStays DEF Void
<1>2. VolumeInv /\ OpenShape /\ HandlesOK
  BY <1>1 DEF OpenInv
<1>3. [Next]_vars
  BY <1>2, OpenStepIs
<1>4. Advances
  BY <1>1, <1>2, <1>3, VolumeStep
<1>5. HandlesOK'
  BY <1>2, <1>4, HandlesStep DEF Advances, Undisturbed
<1> QED BY <1>1, <1>2, <1>3, <1>4, <1>5

(* Nothing is wrong to begin with.                                         *)
LEMMA OpenBegins ==
  ASSUME OpenInit
  PROVE  OpenInv
<1>1. Init /\ slots = [k \in SlotNo |-> FreeSlot] /\ call = NoCall
  BY DEF OpenInit
<1>2. OpenShape
  BY EmptyShape DEF OpenInit
<1>3. VolumeInv
  BY <1>1, VolumeInit
<1>4. ~FreeSlot.used /\ NoCall.do = "none" /\ Idle.do = "idle" /\ op = Idle
  BY <1>1 DEF FreeSlot, NoCall, Idle, Init
<1>5. CopiesOK
  BY <1>1, <1>4 DEF CopiesOK, Current
<1>6. UnderWay
  BY <1>1, <1>4 DEF UnderWay, Opening, Writing
<1> QED BY <1>2, <1>3, <1>5, <1>6 DEF OpenInv, HandlesOK

(* Until the disorders of the volume or a write through a stale handle:    *)
(* the volume is sound, the copies in the slots are those of files with    *)
(* names, and nobody else has the file that is being shortened or removed. *)
THEOREM OpenInvariant == OpenSpec => []OpenInv
<1>1. OpenInit => OpenInv
  BY OpenBegins
<1>2. OpenInv /\ [OpenNext]_allVars => OpenInv'
  <2> SUFFICES ASSUME OpenInv, [OpenNext]_allVars
               PROVE  OpenInv'
    OBVIOUS
  <2>1. OpenShape'
    BY ShapeStep DEF OpenInv
  <2>2. ~Void' => VolumeInv' /\ HandlesOK'
    BY OpenStep DEF Advances
  <2> QED BY <2>1, <2>2 DEF OpenInv
<1> QED BY <1>1, <1>2, PTL DEF OpenSpec

(* The copy of an inode a slot appends to and reads from is the volume's,  *)
(* in the middle of loops and after failed calls, unless another way       *)
(* changed the file or nothing can be written any more (tsr.c:2144,        *)
(* extent.c:1258).                                                         *)
THEOREM CopiesStayCurrent == OpenSpec => []CopyIsCurrent
<1>1. OpenInv => CopyIsCurrent
  <2> SUFFICES ASSUME OpenInv, ~Void, ~dirty, NEW k \in SlotNo, Current(k)
               PROVE  slots[k].inode = Cached(store, slots[k].ino) /\ IsFile(slots[k].ino)
    BY DEF CopyIsCurrent, Current
  <2> QED BY CurrentCopy DEF OpenInv
<1> QED BY <1>1, OpenInvariant, PTL

(* Whatever is done through handles is to the volume a file operation: the *)
(* redirector implements FileOps (tsr.c:2036).                             *)
THEOREM HandlesStayFileOps == OpenSpec => HandlesAreFileOps
<1>1. OpenInv /\ [OpenNext]_allVars => [Void' \/ Next]_vars
  BY OpenStep
<1> QED BY <1>1, OpenInvariant, PTL DEF OpenSpec, HandlesAreFileOps

(* So names change one whole operation at a time under handles too         *)
(* (extent.c:2510).                                                        *)
THEOREM HandlesKeepNamesWhole == OpenSpec => [][Void' \/ View!Next]_<<Tree, Sizes>>
<1>1. OpenInv /\ [OpenNext]_allVars => [Void' \/ View!Next]_<<Tree, Sizes>>
  <2> SUFFICES ASSUME OpenInv, [OpenNext]_allVars, ~Void'
               PROVE  View!Next \/ UNCHANGED <<Tree, Sizes>>
    OBVIOUS
  <2>1. Sound(store) /\ Sound(store') /\ NamesGo(store, store')
    BY OpenStep DEF VolumeInv, Going, Advances
  <2> QED BY <2>1, ViewSteps
<1> QED BY <1>1, OpenInvariant, PTL DEF OpenSpec

\* nothing is lost
OpenTidy == ~Void => TidyInv
(* Whatever is called loses nothing.                                       *)
LEMMA OpenTidies == OpenSpec => []OpenTidy
<1>1. OpenInit => OpenTidy
  BY TidyAssumption DEF OpenInit, Init, TidyInv, OpenTidy
<1>2. OpenInv /\ OpenTidy /\ [OpenNext]_allVars => OpenTidy'
  <2> SUFFICES ASSUME OpenInv, OpenTidy, [OpenNext]_allVars, ~Void',
                      interrupted' = {}, overlapped' = {}
               PROVE  Tidy(store', op')
    BY DEF OpenTidy, TidyInv
  <2>1. ~Void /\ [Next]_vars /\ Advances
    BY OpenStep
  <2>2. interrupted = {} /\ overlapped = {}
    BY <2>1, StillCalm
  <2> QED BY <2>1, <2>2 DEF OpenTidy, TidyInv, Advances, StaysTidy
<1> QED BY <1>1, <1>2, OpenInvariant, PTL DEF OpenSpec

(* What FileOps keeps of a volume, handles keep: no block is in two        *)
(* places, counters and the tree of names are right, and between           *)
(* operations none of which was cut short nothing is lost (tsr.c:2036).    *)
THEOREM HandlesKeepVolume ==
  OpenSpec => [](~Void => BlocksOwnedOnce /\ CountersAgree /\ TreeSound /\ NothingLeaks)
<1>1. OpenInv /\ OpenTidy => (~Void => BlocksOwnedOnce /\ CountersAgree /\ TreeSound /\ NothingLeaks)
  <2> SUFFICES ASSUME OpenInv, OpenTidy, ~Void
               PROVE  BlocksOwnedOnce /\ CountersAgree /\ TreeSound /\ NothingLeaks
    OBVIOUS
  <2>1. FileInv /\ TidyInv
    BY DEF OpenInv, OpenTidy, FileInv
  <2>2. CountersAgree
    BY <2>1, SoundFacts DEF FileInv, VolumeInv, Going, CountersAgree, Counting
  <2> QED BY <2>1, <2>2, VolumeOwns, VolumeTree, NothingLost
<1> QED BY <1>1, OpenInvariant, OpenTidies, PTL

\* files are complete
OpenFilled == ~Void => Filled(store, op)
(* Between two calls what a fresh handle reads is its file.                *)
LEMMA HandleReads ==
  ASSUME OpenInv, OpenFilled
  PROVE  HandleReadsFile
<1> SUFFICES ASSUME Resting, ~Void, ~dirty, NEW f \in Sft \ stale, held[f] # 0
             PROVE  \E k \in FindSlot(f) : ReadsWhole(slots[k].inode, held[f])
  BY DEF HandleReadsFile
<1>1. PICK k \in SlotNo : slots[k].used /\ slots[k].sft = f /\ slots[k].ino = held[f]
  BY DEF OpenInv, OpenShape, SlotsShape, SlotOfFile
<1>2. k \in FindSlot(f)
  BY <1>1, FindGives DEF OpenInv, OpenShape, SlotsShape
<1> DEFINE i == slots[k].ino
           c == Inode(store, i)
<1>3. /\ i \in Files(store) /\ i = held[f]
      /\ slots[k].inode.size = c.size /\ slots[k].inode.ext = c.ext
  BY <1>1, CurrentCopy DEF OpenInv, Current
<1>4. Sound(store) /\ Complete(store, i)
  BY <1>3 DEF OpenInv, VolumeInv, Going, OpenFilled, Filled
<1> HIDE DEF i
<1>5. LET found == Mapped(c.ext) IN
      /\ {m.lb : m \in found} = {l \in 0 .. Cardinality(Blk) : l * Unit < c.size}
      /\ \A m \in found : store[Data(m.pb)] = FileData(i)
  BY <1>3, <1>4, FoundWhole
<1> HIDE DEF c
<1>6. ReadsWhole(slots[k].inode, held[f])
  BY <1>3, <1>5 DEF ReadsWhole
<1> QED BY <1>2, <1>6

(* A read through an open file finds every byte of the file DOS opened,    *)
(* each in a block that holds what was written to that file (tsr.c:475,    *)
(* 2315), as long as no program lets a file grow until the length of an    *)
(* extent is taken for that of one without data.                           *)
THEOREM HandlesReadFiles ==
  ASSUME BlocksFor(MaxSize) < LenBit
  PROVE  OpenSpec => []HandleReadsFile
<1>1. OpenInit => OpenFilled
  BY TidyAssumption DEF OpenInit, Init, OpenFilled
<1>2. OpenInv /\ OpenFilled /\ [OpenNext]_allVars => OpenFilled'
  <2> SUFFICES ASSUME OpenInv, OpenFilled, [OpenNext]_allVars, ~Void'
               PROVE  Filled(store', op')
    BY DEF OpenFilled
  <2>1. ~Void /\ Advances
    BY OpenStep
  <2>2. Fitting
    BY DEF Fitting
  <2> QED BY <2>1, <2>2 DEF OpenFilled, Advances, StaysFilled
<1>3. OpenInv /\ OpenFilled => HandleReadsFile
  BY HandleReads
<1> QED BY <1>1, <1>2, <1>3, OpenInvariant, PTL DEF OpenSpec
==============================================================================
