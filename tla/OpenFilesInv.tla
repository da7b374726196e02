----------------------------- MODULE OpenFilesInv -----------------------------
(***************************************************************************)
(* What ties the handles to the volume under them, as one inductive        *)
(* invariant, until the disorders of the volume or a write through a       *)
(* handle whose file was changed by another way.                           *)
(***************************************************************************)
EXTENDS OpenFilesCorrect, FileOpsInv

(* The slot table and DOS's table are tables.                              *)
TablesOK ==
  /\ slots = [k \in SlotNo |-> slots[k]]
  /\ \A k \in SlotNo : DOMAIN slots[k] = {"used", "sft", "ino", "inode"}
  /\ \A k \in SlotNo : slots[k].used => slots[k].sft \in Sft
  /\ held = [f \in Sft |-> held[f]]

(* find_open_slot finds the only slot of an SFT, and it is of DOS's file.  *)
OneSlotEach ==
  \A j, k \in SlotNo : slots[j].used /\ slots[k].used /\ slots[j].sft = slots[k].sft => j = k
SlotOfFile ==
  \A f \in Sft : held[f] # 0 =>
    \E k \in SlotNo : slots[k].used /\ slots[k].sft = f /\ slots[k].ino = held[f]

(* A handler that waits for its truncate holds the slot alloc_open_slot    *)
(* gave it, for an SFT that is not open; a loop of writes has its slot.    *)
Opening == {"create", "extopen"}
Writing == {"extend", "overwrite"}
CallOK ==
  /\ call.do \in {"none", "cut"} \cup Writing \cup Opening
  /\ call.do \in {"cut"} \cup Writing => call.slot \in SlotNo /\ slots[call.slot].used
  /\ call.do \in Opening =>
       call.sft \in Sft /\ held[call.sft] = 0 /\ call.slot \in AllocSlot(call.sft)

SlotsShape == TablesOK /\ OneSlotEach /\ SlotOfFile
OpenShape == SlotsShape /\ CallOK

(* The copy in a slot is the inode of a file with a name, unless its SFT   *)
(* is stale or a checkpoint has failed, after which nothing is written.    *)
NamedFiles(s) == Files(s) \cap NamedIn(s)
CopyOf(s, r) == r.inode = Cached(s, r.ino) /\ r.ino \in NamedFiles(s)
Current(k) == slots[k].used /\ slots[k].sft \notin stale
CopiesOK == ~dirty => \A k \in SlotNo : Current(k) => CopyOf(store, slots[k])

(* A file that is being shortened or removed is no file of another fresh   *)
(* slot than the one whose handler waits for it.                           *)
Waiter == IF call.do = "cut" THEN slots[call.slot].sft ELSE call.sft
SlotsOf(i) == {k \in SlotNo : Current(k) /\ slots[k].ino = i}
UnderWay ==
  /\ dirty => op = Idle
  /\ op.do = "truncate" <=> call.do \in {"cut"} \cup Opening
  /\ op.do = "truncate" => \A k \in SlotsOf(op.ino) : slots[k].sft = Waiter
  /\ op.do = "unlink" => SlotsOf(op.ino) = {}
  /\ call.do = "cut" => Current(call.slot) /\ slots[call.slot].ino = op.ino
  /\ call.do \in Writing => op = Idle /\ Current(call.slot)
  /\ call.do = "extend" => call.upto \in 0 .. MaxSize /\ slots[call.slot].inode.size < call.upto

HandlesOK == CopiesOK /\ UnderWay
OpenInv == OpenShape /\ (~Void => VolumeInv /\ HandlesOK)
==============================================================================
