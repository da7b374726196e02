------------------------------ MODULE OpenFiles ------------------------------
(***************************************************************************)
(* The redirector's open files (tsr.c): DOS names an open file by the      *)
(* address of its SFT entry; the redirector keeps, per SFT, the number of  *)
(* the inode and a copy of its size and extents from which it appends,     *)
(* looks up blocks and reads.  A write of many blocks is a loop of         *)
(* transactions that may stop half way.  The file operations below the     *)
(* handlers are those of FileOps.                                          *)
(*                                                                         *)
(* DOS chooses the position of every call, and may give an SFT to another  *)
(* file without having closed it.  Files are in the root directory.        *)
(***************************************************************************)
EXTENDS FileOps

CONSTANTS
  Sft,        \* the SFT entries of DOS
  NumSlots    \* MAX_OPEN_SLOTS

ASSUME SlotsAssumption == NumSlots \in Nat \ {0} /\ 0 \notin Sft

VARIABLES
  slots,      \* g_open
  held,       \* what DOS was told an SFT stands for: an inode, or 0
  call,       \* the handler between two transactions of the library
  \* history
  stale,      \* SFTs whose file was changed or removed by another way
  spoiled     \* a write went through a stale SFT

openVars == <<slots, held, call, stale, spoiled>>
allVars == <<vars, openVars>>

SlotNo == 1 .. NumSlots
Nothing == [size |-> 0, ext |-> << >>]
FreeSlot == [used |-> FALSE, sft |-> 0, ino |-> 0, inode |-> Nothing]
NoCall == [do |-> "none"]

\* ext4_inode_read
Cached(s, i) == [size |-> Inode(s, i).size, ext |-> Inode(s, i).ext]

OpenInit ==
  /\ Init
  /\ slots = [k \in SlotNo |-> FreeSlot]
  /\ held = [f \in Sft |-> 0]
  /\ call = NoCall
  /\ stale = {}
  /\ spoiled = FALSE

Matches(f) == {k \in SlotNo : slots[k].used /\ slots[k].sft = f}
Unused == {k \in SlotNo : ~slots[k].used}
Lowest(K) == {k \in K : \A j \in K : k <= j}
FindSlot(f) == Lowest(Matches(f))
FreshSlot(f) == Lowest(Unused)                                \* a seeded fault
AllocSlot(f) == IF Matches(f) # {} THEN FindSlot(f) ELSE Lowest(Unused)

Resting == op = Idle /\ call = NoCall

\* Handler bookkeeping: slot k now stands for inode i, or for nothing.
Fill(k, f, i, x) ==
  /\ slots' = [slots EXCEPT ![k] = [used |-> TRUE, sft |-> f, ino |-> i, inode |-> x]]
  /\ held' = [held EXCEPT ![f] = i]
Drop(k) == slots' = [slots EXCEPT ![k] = FreeSlot] /\ UNCHANGED held

\* every other SFT that stands for i is out of date
Touch(i, f) == stale' = stale \cup {slots[k].sft : k \in {j \in SlotNo :
                                      slots[j].used /\ slots[j].ino = i /\ slots[j].sft # f}}
Uses(f) == spoiled' = (spoiled \/ f \in stale)

-----------------------------------------------------------------------------
(* Opening and closing.                                                    *)

FileNamed(n) == {i \in Lookup(store, Root, n) : IsFile(i)}

\* 0x16, 0x15, 0x2E for reading, any open of an empty file, and 0x2E when the
\* truncate cannot begin
Open(f, n) ==
  /\ Resting
  /\ held[f] = 0
  /\ \E i \in FileNamed(n), k \in AllocSlot(f) : Fill(k, f, i, Cached(store, i))
  /\ stale' = stale \ {f}
  /\ UNCHANGED <<vars, call, spoiled>>

\* 0x17 and 0x2E on a new name: the library makes the file, the slot's inode
\* is built in memory
CreateNew(f, n) ==
  /\ call = NoCall
  /\ held[f] = 0
  /\ \E k \in AllocSlot(f) :
       /\ Create(Root, n)
       /\ IF dirty' THEN Drop(k) ELSE Fill(k, f, AllocIno(store), Nothing)
  /\ stale' = stale \ {f}
  /\ UNCHANGED <<call, spoiled>>

\* 0x17 and 0x2E for writing on a file that is not empty
Replace(f, n, way) ==
  /\ call = NoCall
  /\ held[f] = 0
  /\ \E i \in FileNamed(n), k \in AllocSlot(f) :
       /\ Truncate(i, 0)
       /\ call' = [do |-> way, slot |-> k, sft |-> f]
       /\ Touch(i, f)
  /\ UNCHANGED <<slots, held, spoiled>>

\* the library's first commit is refused: 0x17 gives the slot back
CreateRefused(f) ==
  /\ Resting
  /\ held[f] = 0
  /\ \E k \in AllocSlot(f) : Drop(k)
  /\ stale' = stale \ {f}
  /\ UNCHANGED <<vars, call, spoiled>>

Close(f) ==
  /\ Resting
  /\ held[f] # 0
  /\ slots' = [k \in SlotNo |-> IF k \in FindSlot(f) THEN FreeSlot ELSE slots[k]]
  /\ held' = [held EXCEPT ![f] = 0]
  /\ stale' = stale \ {f}
  /\ UNCHANGED <<vars, call, spoiled>>

\* DOS takes an SFT back without a call.
Forget(f) ==
  /\ Resting
  /\ held[f] # 0
  /\ held' = [held EXCEPT ![f] = 0]
  /\ UNCHANGED <<vars, slots, call, stale, spoiled>>

-----------------------------------------------------------------------------
(* Writing.                                                                *)

\* CX = 0 behind the end, or an append: the end is on a block boundary
Lengthen(f, upto) ==
  /\ Resting
  /\ held[f] # 0
  /\ \E k \in FindSlot(f) :
       /\ slots[k].inode.size < upto
       /\ slots[k].inode.size % Unit = 0
       /\ call' = [do |-> "extend", slot |-> k, upto |-> upto]
  /\ Uses(f)
  /\ UNCHANGED <<vars, slots, held, stale>>

\* what ext4_file_extend_block leaves in the caller's inode
RememberSize(c, b, n) == [size |-> c.size + n, ext |-> c.ext]  \* a seeded fault
Remember(c, b, n) == [size |-> c.size + n, ext |-> Grown(c.ext, c, b)]

ExtendOne ==
  /\ call.do = "extend"
  /\ ~dirty
  /\ LET k == call.slot
         c == slots[k].inode
         n == Min({Unit, call.upto - c.size})
         more == Remember(c, 0, n).size < call.upto
     IN /\ EndsInLastBlock(c)
        /\ \E b \in Candidates(store, c) :
             /\ Commit("extend", ExtendTx(store, c, slots[k].ino, b, n), Idle)
             /\ slots' = IF dirty' THEN slots ELSE [slots EXCEPT ![k].inode = Remember(c, b, n)]
        /\ call' = IF dirty' \/ ~more THEN NoCall ELSE call
        /\ Touch(slots[k].ino, slots[k].sft)
  /\ UNCHANGED <<held, spoiled>>

\* whole blocks inside the file, or a part of one block
Overwrite(f, first, last) ==
  /\ Resting
  /\ held[f] # 0
  /\ \E k \in FindSlot(f) :
       /\ \/ first = last /\ first * Unit < slots[k].inode.size
          \/ first <= last /\ (last + 1) * Unit <= slots[k].inode.size
       /\ call' = [do |-> "overwrite", slot |-> k, next |-> first, last |-> last]
  /\ Uses(f)
  /\ UNCHANGED <<vars, slots, held, stale>>

OverwriteOne ==
  /\ call.do = "overwrite"
  /\ ~dirty
  /\ \E m \in Mapped(slots[call.slot].inode.ext) :
       /\ m.lb = call.next
       /\ Commit("write", WriteTx(store, slots[call.slot].ino, m.pb), Idle)
  /\ call' = IF dirty' \/ call.next = call.last THEN NoCall ELSE [call EXCEPT !.next = @ + 1]
  /\ UNCHANGED <<slots, held, stale, spoiled>>

\* no space, a full leaf, or a refused commit: the loop ends where it is
WriteFails ==
  /\ call.do \in {"extend", "overwrite"}
  /\ call' = NoCall
  /\ UNCHANGED <<vars, slots, held, stale, spoiled>>

CutKeepsCopy(k, s, i) == UNCHANGED slots                      \* a seeded fault
ReRead(k, s, i) == slots' = [slots EXCEPT ![k].inode = Cached(s, i)]

\* CX = 0 inside the file
CutTo(f, n) ==
  /\ call = NoCall
  /\ held[f] # 0
  /\ \E k \in FindSlot(f) :
       /\ n < slots[k].inode.size
       /\ Truncate(slots[k].ino, n)
       /\ call' = [do |-> "cut", slot |-> k, sft |-> f]
       /\ Touch(slots[k].ino, f)
  /\ Uses(f)
  /\ UNCHANGED <<slots, held>>

\* the volume has that length already: a cut that was answered with an error
\* is tried again
CutAgain(f, n) ==
  /\ Resting
  /\ held[f] # 0
  /\ \E k \in FindSlot(f) :
       /\ n < slots[k].inode.size
       /\ n = Inode(store, slots[k].ino).size
       /\ ReRead(k, store, slots[k].ino)
  /\ Uses(f)
  /\ UNCHANGED <<vars, held, call, stale>>

-----------------------------------------------------------------------------
(* ext4_file_truncate under one of its three callers.                      *)

TruncateGoes ==
  /\ op.do = "truncate"
  /\ TruncateFree
  /\ op' # Idle
  /\ UNCHANGED openVars

TruncateDone ==
  /\ op.do = "truncate"
  /\ TruncateFinish
  /\ ~dirty'
  /\ \/ /\ call.do = "cut"
        /\ ReRead(call.slot, store', op.ino)
        /\ UNCHANGED <<held, stale>>
     \/ /\ call.do \in {"create", "extopen"}
        /\ Fill(call.slot, call.sft, op.ino, Cached(store', op.ino))
        /\ stale' = stale \ {call.sft}
  /\ call' = NoCall
  /\ UNCHANGED spoiled

TruncateFails ==
  /\ op.do = "truncate"
  /\ Interrupt \/ ((TruncateFree \/ TruncateFinish) /\ dirty')
  /\ \/ call.do = "cut" /\ UNCHANGED <<slots, held, stale>>
     \/ call.do = "create" /\ Drop(call.slot) /\ stale' = stale \ {call.sft}
     \/ /\ call.do = "extopen"
        /\ Fill(call.slot, call.sft, op.ino, Cached(store, op.ino))
        /\ stale' = stale \ {call.sft}
  /\ call' = NoCall
  /\ UNCHANGED spoiled

-----------------------------------------------------------------------------

\* REM_DELETE asks nobody whether the file is open.
Delete(n) ==
  /\ call = NoCall
  /\ \E i \in FileNamed(n) : Unlink(Root, i) /\ Touch(i, 0)
  /\ UNCHANGED <<slots, held, call, spoiled>>

DeleteGoes ==
  /\ op.do = "unlink"
  /\ UnlinkFree \/ UnlinkFinish \/ Interrupt
  /\ UNCHANGED openVars

\* Power is cut, or the machine is restarted: DOS and the redirector begin anew.
Restart ==
  /\ \/ Interrupt
     \/ Remount
     \/ op = Idle /\ ~dirty /\ UNCHANGED vars
  /\ slots' = [k \in SlotNo |-> FreeSlot]
  /\ held' = [f \in Sft |-> 0]
  /\ call' = NoCall
  /\ stale' = {}
  /\ UNCHANGED spoiled

OpenNext ==
  \/ \E f \in Sft :
       \/ Close(f) \/ Forget(f) \/ CreateRefused(f)
       \/ \E n \in Name :
            \/ Open(f, n) \/ CreateNew(f, n)
            \/ \E way \in {"create", "extopen"} : Replace(f, n, way)
       \/ \E n \in 0 .. MaxSize : Lengthen(f, n) \/ CutTo(f, n) \/ CutAgain(f, n)
       \/ \E x, y \in 0 .. MaxSize \div Unit : Overwrite(f, x, y)
  \/ ExtendOne \/ OverwriteOne \/ WriteFails
  \/ TruncateGoes \/ TruncateDone \/ TruncateFails
  \/ \E n \in Name : Delete(n)
  \/ DeleteGoes \/ Restart

OpenSpec == OpenInit /\ [][OpenNext]_allVars
==============================================================================
