--------------------------- MODULE JournalCorrect ---------------------------
(***************************************************************************)
(* What makes the journal correct, for volumes whose log was clean when    *)
(* the driver first saw them: the abstraction from disk and memory to an   *)
(* AtomicStore, the invariants and the action properties.                  *)
(***************************************************************************)
EXTENDS Journal, StoreOverlay

(***************************************************************************)
(* The committed store: the fs blocks in place, overlaid by the            *)
(* transaction that jsb.s_start points at.  The RECOVER bit is bookkeeping *)
(* and not part of the store.                                              *)
(***************************************************************************)
Val == [body : Body, head : FirstWord]
Mask(c) == [body |-> c.body, head |-> c.head]

LiveTags == IF jStart = 0 THEN << >> ELSE log[jStart].tags
LiveCopy(k) == Restore(log[jStart + k].data, LiveTags[k].esc)
LiveWrites ==
  [k \in DOMAIN LiveTags |-> [blk |-> LiveTags[k].blk, val |-> Mask(LiveCopy(k))]]
HomeStore == [b \in FsBlock |-> Mask(home[b])]
CommittedStore == Overlay(HomeStore, LiveWrites)

TxnWrites == [k \in DOMAIN txn |-> [blk |-> txn[k].blk, val |-> Mask(txn[k].data)]]

Abs == INSTANCE AtomicStore WITH
         Blk <- FsBlock, Val <- Val, MaxWrites <- TransMax,
         store <- CommittedStore, pending <- TxnWrites,
         applied <- (txn # << >> /\ pc \in CkptPC), reply <- reply

(* Crash atomicity and durability: every step of the driver, every failed  *)
(* write and every power cut is a step of the atomic store.  The commit    *)
(* point is the write of jsb.s_start (step 5); nothing before it and       *)
(* nothing after it may show.                                              *)
AtomicAndDurable == Abs!Spec

TypeOK ==
  /\ home \in [FsBlock -> Content]
  /\ log \in [LogPos -> LogBlock]
  /\ jStart \in LogPos \cup {0} /\ jSeq \in SeqNo
  /\ pc \in PC
  /\ writable \in BOOLEAN /\ rec \in BOOLEAN /\ active \in BOOLEAN
  /\ start \in LogPos \cup {0} /\ seq \in SeqNo
  /\ map \in Seq(MapEntry)
  /\ revoked \in [FsBlock -> SeqNo \cup {NoSeq}]
  /\ walk \in WalkState
  /\ txn \in Seq(StagedWrite)
  /\ idx \in Nat
  /\ reply \in {"none", "ok", "err"}

(* Between the operations of a mount that has its journal (jbd.present), a *)
(* read returns the committed copy of every block, whether it comes from   *)
(* its place or, through the replay map, from the log: after a read-only   *)
(* mount of a dirty log, and after a checkpoint that failed half way.  A   *)
(* mount whose ext4_journal_init failed promises nothing of the kind.      *)
ReadsSeeCommitted ==
  pc = "idle" => \A b \in FsBlock : Mask(ReadView(b)) = CommittedStore[b]

(* The guard of ext4_journal_commit looks at memory (jbd.start); in a      *)
(* mount that has its journal it must never say "clean" of a log the disk  *)
(* still needs, or the next descriptor would overwrite a transaction that  *)
(* is not home yet.  Without the journal it does say so, and only          *)
(* jbd.present keeps commits out (LiveLogKept).                            *)
MemoryKnowsLog == pc = "idle" /\ start = 0 => jStart = 0

(* While the journal superblock points at a transaction, no log block      *)
(* changes, in no mount, with its journal or without: recovery may still   *)
(* need every one of them.                                                 *)
LiveLogKept == [][jStart # 0 => log' = log]_vars

(* A commit that returned 0 left nothing for the next mount to do: the log *)
(* is clean, RECOVER is clear, and the data is in place.                   *)
OkLeavesClean == reply = "ok" => jStart = 0 /\ ~home[SB].recover /\ ~active

(* The driver never refuses to mount what it wrote itself: whatever        *)
(* failures and power cuts left in the log, no step of its own gives up    *)
(* (walk_log, iterate_descriptor_tags).  A device error may still end the  *)
(* walk; that the walk has a next step at all is part of MountCleansLog.   *)
OwnLogMounts == [][Driver => pc' # "refused"]_vars

(* No data block in the log can be taken for a header.                     *)
NoForgedHeader == \A p \in LogPos : log[p].data.head # "magic"

(* The same for a read-only mount alone that has its journal, where the    *)
(* map is built by the walk: a block that a transaction holds twice counts *)
(* with its last copy.                                                     *)
ReadOnlySeesCommitted == ~writable => ReadsSeeCommitted
==============================================================================
