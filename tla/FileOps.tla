------------------------------- MODULE FileOps -------------------------------
(***************************************************************************)
(* The operations on files and directories (extent.c) as the redirector    *)
(* calls them, one at a time, over a store of blocks that changes by whole *)
(* transactions (the contract AtomicStore, which Journal implements).      *)
(* mkdir and rmdir are two transactions, unlink and truncate one per freed *)
(* block and a last one.  A commit can be refused, or be on the log while  *)
(* its checkpoint fails, after which nothing commits until the next mount; *)
(* power can be cut between any two transactions.                          *)
(***************************************************************************)
EXTENDS FsImage

CONSTANTS
  Images,     \* the volumes a history may begin with
  MaxSize,    \* bytes a program lets a file grow to
  MaxFaults   \* failures and power cuts in one history

ASSUME BoundsAssumption == MaxSize \in Nat /\ MaxFaults \in Nat

VARIABLES
  store,        \* the volume after recovery
  op,           \* the operation between two of its transactions
  dirty,        \* the last checkpoint failed: jbd.start # 0
  \* history, read by the properties only
  interrupted,  \* operations that ended between two of their transactions
  overlapped,   \* operations that staged two different copies of one block
  faults

vars == <<store, op, dirty, interrupted, overlapped, faults>>

Idle == [do |-> "idle", begun |-> FALSE]

Init ==
  /\ store \in Images
  /\ op = Idle
  /\ dirty = FALSE
  /\ interrupted = {}
  /\ overlapped = {}
  /\ faults = 0

-----------------------------------------------------------------------------
(* ext4_journal_commit, as its caller sees it.                             *)

Abandoned(o) == IF o.begun THEN {o.do} ELSE {}

Applied(name, tx) ==
  /\ store' = Overlay(store, tx)
  /\ overlapped' = IF \E k \in DOMAIN tx : store'[tx[k].blk] # tx[k].val
                     THEN overlapped \cup {name} ELSE overlapped

CommitOk(name, tx, next) ==
  /\ Applied(name, tx)
  /\ op' = next
  /\ UNCHANGED <<dirty, interrupted, faults>>

CheckpointFails(name, tx, next) ==
  /\ faults < MaxFaults
  /\ faults' = faults + 1
  /\ Applied(name, tx)
  /\ op' = Idle
  /\ interrupted' = interrupted \cup Abandoned(next)
  /\ dirty' = TRUE

Commit(name, tx, next) == CommitOk(name, tx, next) \/ CheckpointFails(name, tx, next)

Ready == op = Idle /\ ~dirty
Begin(o) ==
  /\ op' = o
  /\ UNCHANGED <<store, dirty, interrupted, overlapped, faults>>

-----------------------------------------------------------------------------
(* Operations.  The redirector has looked the path up: the new name is     *)
(* free, the old one leads from p to i.                                    *)

Free(p, n) == Lookup(store, p, n) = {} /\ HasRoom(store, p)
IsFile(i) == Inode(store, i).kind = "file"

Create(p, n) ==
  /\ Ready
  /\ Free(p, n)
  /\ CanAllocIno(store)
  /\ Commit("create", CreateTx(store, p, n, AllocIno(store)), Idle)

Mkdir(p, n) ==
  /\ Ready
  /\ Free(p, n)
  /\ CanAllocIno(store)
  /\ LET i == AllocIno(store) IN
     Commit("mkdir", MkdirTx1(store, i),
            [do |-> "mkdir", begun |-> TRUE, dir |-> p, name |-> n, ino |-> i])

MkdirWire ==
  /\ op.do = "mkdir"
  /\ CanAllocBlk(store)
  /\ Commit("mkdir", MkdirTx2(store, op.dir, op.name, op.ino, AllocBlk(store)), Idle)

MkdirNoSpace ==
  /\ op.do = "mkdir"
  /\ ~CanAllocBlk(store)
  /\ op' = Idle
  /\ interrupted' = interrupted \cup {"mkdir"}
  /\ UNCHANGED <<store, dirty, overlapped, faults>>

RmdirFull(p, i) ==                                            \* a seeded fault
  /\ Ready
  /\ IsDir(store, i)
  /\ Len(Inode(store, i).ext) = 1
  /\ Commit("rmdir", FreeBlk(store, DirBlk(store, i)),
            [do |-> "rmdir", begun |-> TRUE, dir |-> p, ino |-> i])

Rmdir(p, i) ==
  /\ Ready
  /\ IsDir(store, i)
  /\ Len(Inode(store, i).ext) = 1
  /\ Children(store, i) = {}
  /\ Commit("rmdir", FreeBlk(store, DirBlk(store, i)),
            [do |-> "rmdir", begun |-> TRUE, dir |-> p, ino |-> i])

RmdirFinish ==
  /\ op.do = "rmdir"
  /\ Commit("rmdir", RmdirTx2(store, op.dir, op.ino), Idle)

Unlink(p, i) ==
  /\ Ready
  /\ IsFile(i)
  /\ Begin([do |-> "unlink", begun |-> FALSE, dir |-> p, ino |-> i,
            todo |-> Counted(Inode(store, i).ext)])

UnlinkFreeBlanks ==                                           \* a seeded fault
  /\ op.do = "unlink"
  /\ \E m \in op.todo :
       /\ \A k \in op.todo : m.lb <= k.lb
       /\ Commit("unlink", FreeBlk(store, m.pb) \o << PutInode(store, op.ino, Blank) >>,
                 [op EXCEPT !.todo = @ \ {m}, !.begun = TRUE])

UnlinkFree ==
  /\ op.do = "unlink"
  /\ \E m \in op.todo :
       /\ \A k \in op.todo : m.lb <= k.lb
       /\ Commit("unlink", FreeBlk(store, m.pb),
                 [op EXCEPT !.todo = @ \ {m}, !.begun = TRUE])

UnlinkFinish ==
  /\ op.do = "unlink"
  /\ op.todo = {}
  /\ Commit("unlink", UnlinkTx(store, op.dir, op.ino), Idle)

Truncate(i, n) ==
  /\ Ready
  /\ IsFile(i)
  /\ n < Inode(store, i).size
  /\ LET x == Inode(store, i).ext
         doomed == Doomed(x, n)
     IN Begin([do |-> "truncate", begun |-> FALSE, ino |-> i, size |-> n,
               ext |-> Kept(x, n), todo |-> doomed, freed |-> Cardinality(doomed)])

TruncateFree ==
  /\ op.do = "truncate"
  /\ \E m \in op.todo :
       /\ \A k \in op.todo : m.lb >= k.lb
       /\ Commit("truncate", FreeBlk(store, m.pb),
                 [op EXCEPT !.todo = @ \ {m}, !.begun = TRUE])

TruncateFinish ==
  /\ op.do = "truncate"
  /\ op.todo = {}
  /\ Commit("truncate", TruncateTx(store, op.ino, op.size, op.ext, op.freed), Idle)

Extend(i, n) ==
  /\ Ready
  /\ IsFile(i)
  /\ LET c == Inode(store, i) IN
     /\ EndsInLastBlock(c)
     /\ c.size + n <= MaxSize
     /\ \E b \in Candidates(store, c) : Commit("extend", ExtendTx(store, c, i, b, n), Idle)

WriteBlock(i) ==
  /\ Ready
  /\ IsFile(i)
  /\ \E m \in Mapped(Inode(store, i).ext) : Commit("write", WriteTx(store, i, m.pb), Idle)

Rename(p, i, n) ==
  /\ Ready
  /\ Lookup(store, p, n) = {}
  /\ Commit("rename", RenameTx(store, p, i, n), Idle)

RenameXdir(p, i, q, n) ==
  /\ Ready
  /\ Free(q, n)
  /\ ~IsFile(i) => IsDir(store, i) /\ i # q /\ Walk(store, i, q) \in {Root, 0}
  /\ Commit("rename", RenameXdirTx(store, p, i, q, n), Idle)

-----------------------------------------------------------------------------

\* The next commit is refused, or power is cut before it is durable.
Interrupt ==
  /\ op # Idle
  /\ faults < MaxFaults
  /\ faults' = faults + 1
  /\ op' = Idle
  /\ interrupted' = interrupted \cup Abandoned(op)
  /\ UNCHANGED <<store, dirty, overlapped>>

Remount ==
  /\ dirty
  /\ dirty' = FALSE
  /\ UNCHANGED <<store, op, interrupted, overlapped, faults>>

Below(p) == {e.ino : e \in Children(store, p)}
Named == UNION {Below(p) : p \in Dirs(store)}

Next ==
  \/ \E p \in Dirs(store) :
       \/ \E n \in Name : Create(p, n) \/ Mkdir(p, n)
       \/ \E i \in Below(p) :
            \/ Rmdir(p, i) \/ Unlink(p, i)
            \/ \E n \in 0 .. MaxSize : Truncate(i, n)
            \/ \E n \in 1 .. Unit : Extend(i, n)
            \/ WriteBlock(i)
            \/ \E n \in Name : Rename(p, i, n)
            \/ \E q \in Dirs(store) \ {p}, n \in Name : RenameXdir(p, i, q, n)
  \/ MkdirWire \/ MkdirNoSpace \/ RmdirFinish
  \/ UnlinkFree \/ UnlinkFinish \/ TruncateFree \/ TruncateFinish
  \/ Interrupt \/ Remount

Spec == Init /\ [][Next]_vars
==============================================================================
