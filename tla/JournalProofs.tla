---------------------------- MODULE JournalProofs ----------------------------
(***************************************************************************)
(* What holds of Journal for every set of transactions, every clean disk   *)
(* and every size of the log: its types and what each of its variables     *)
(* owes to another, that Inv of JournalInv is inductive, and from it that  *)
(* the driver implements the atomic store, that reads show the committed   *)
(* copies, and that no step of the driver's own refuses a log that the     *)
(* driver wrote.                                                           *)
(***************************************************************************)
EXTENDS JournalInv, OverlayProofs, TLAPS

(***************************************************************************)
(* Types of the operators.                                                 *)
(***************************************************************************)
(* The position after a log position, wrapped, is a log position           *)
(* (wrap_jblk).                                                            *)
LEMMA NextPosType ==
  ASSUME NEW p \in LogPos
  PROVE  NextPos(p) \in LogPos
  BY FormatAssumption DEF NextPos, Wrap, LogPos

(* Sequence numbers stay sequence numbers when they advance or step back.  *)
LEMMA SeqType ==
  ASSUME NEW s \in SeqNo
  PROVE  SeqInc(s) \in SeqNo /\ SeqDec(s) \in SeqNo
  BY FormatAssumption DEF SeqInc, SeqDec, SeqNo

(* An all-zero block is a block content.                                   *)
LEMMA ZeroType == Zero \in Content
  BY FormatAssumption DEF Zero, Content, FirstWord

(* A torn block is a block content, whichever way its RECOVER bit fell.    *)
LEMMA TornType == ASSUME NEW bit \in BOOLEAN PROVE [Torn EXCEPT !.recover = bit] \in Content
  BY FormatAssumption DEF Torn, Content, FirstWord

(* The journal copy of a block never begins with the magic, and restoring  *)
(* one gives a block content.                                              *)
LEMMA EscapeType ==
  ASSUME NEW c \in Content
  PROVE  /\ Escape(c) \in Content /\ Escape(c).head # "magic"
         /\ \A e \in BOOLEAN : Restore(c, e) \in Content
  BY DEF Escape, NeedsEscape, Restore, Content, FirstWord

(* What a commit writes to the log are log blocks.                         *)
LEMMA BlockTypes ==
  /\ \A c \in Content : DataBlock(c) \in LogBlock
  /\ \A s \in SeqNo : CommitBlock(s) \in LogBlock
  /\ \A s \in SeqNo, ts \in Seq(Tag) : DescriptorBlock(s, ts) \in LogBlock
  BY ZeroType, FormatAssumption DEF DataBlock, CommitBlock, DescriptorBlock, LogBlock, SeqNo

(* The tag a commit writes for a block is a tag.                           *)
LEMMA TagOfType ==
  ASSUME NEW b \in FsBlock, NEW c \in Content, NEW s \in SeqNo
  PROVE  TagOf(b, c, s) \in Tag
  BY EscapeType DEF TagOf, Tag, NeedsEscape

(* Adding to the replay map keeps it a sequence of map entries             *)
(* (replay_upsert).                                                        *)
LEMMA UpsertType ==
  ASSUME NEW m \in Seq(MapEntry), NEW e \in MapEntry
  PROVE  Upsert(m, e) \in Seq(MapEntry)
  BY DEF Upsert

(* What a caller stages is a sequence of staged blocks.                    *)
LEMMA StageType ==
  ASSUME NEW t \in Seq(Write)
  PROVE  Stage(t) \in Seq(StagedWrite) /\ Len(Stage(t)) = Len(t)
<1> DEFINE e(k) == [blk |-> t[k].blk,
                    data |-> [body |-> t[k].body, head |-> t[k].head,
                              recover |-> t[k].blk = SB /\ ReadView(SB).recover]]
<1>1. \A k \in DOMAIN t : e(k) \in StagedWrite
  <2> TAKE k \in DOMAIN t
  <2>1. t[k] \in Write
    OBVIOUS
  <2>2. (t[k].blk = SB /\ ReadView(SB).recover) \in BOOLEAN
    OBVIOUS
  <2> QED BY <2>1, <2>2 DEF Write, StagedWrite, Content
<1>2. Stage(t) = [k \in DOMAIN t |-> e(k)]
  BY DEF Stage
<1> HIDE DEF e
<1> QED BY <1>1, <1>2

(***************************************************************************)
(* The types and the control part of the invariant.                        *)
(***************************************************************************)
(* A walk that begins, and the absence of one, are states of the walk.     *)
LEMMA WalkTypes ==
  /\ IdleWalk \in WalkState
  /\ NoRevokes \in [FsBlock -> SeqNo \cup {NoSeq}]
  /\ \A pass \in Pass, st \in LogPos, s \in SeqNo, e \in SeqNo :
       StartPass(pass, st, s, e) \in WalkState
  BY FormatAssumption DEF IdleWalk, NoRevokes, StartPass, WalkState, Pass, LogPos, SeqNo

(* The empty map, the empty transaction and the first sequence number are  *)
(* of their types.                                                         *)
LEMMA EmptyTypes ==
  << >> \in Seq(MapEntry) /\ << >> \in Seq(StagedWrite) /\ 0 \in SeqNo /\ 0 \in Nat
  BY FormatAssumption DEF SeqNo

(* A cleanly unmounted volume satisfies the invariant before any mount.    *)
LEMMA ShapeInit == Init => Shape
<1> SUFFICES ASSUME NEW d \in Disk, Clean(d), PowerUp(d) PROVE Shape
  BY DEF Init
<1>1. /\ home \in [FsBlock -> Content] /\ log \in [LogPos -> LogBlock]
      /\ jStart \in LogPos \cup {0} /\ jSeq \in SeqNo
  BY DEF Clean, PowerUp, DiskState
<1>2. TypeOK
  BY <1>1, WalkTypes, EmptyTypes DEF PowerUp, TypeOK, PC
<1>3. NoForgedHeader /\ Control
  BY DEF PowerUp, Clean, NoForgedHeader, Control, CommitPC, CkptPC
<1> QED BY <1>2, <1>3 DEF Shape

(* ext4_journal_init preserves the invariant when it finds the journal,    *)
LEMMA OpenShape ==
  ASSUME Shape, NEW w \in BOOLEAN, Open(w)
  PROVE  Shape'
<1>1. TypeOK'
  <2>1. home[SB].recover \in BOOLEAN
    BY FormatAssumption DEF Shape, TypeOK, Content
  <2>2. jStart # 0 => jStart \in LogPos
    BY DEF Shape, TypeOK
  <2>3. walk' \in WalkState
    BY <2>2, WalkTypes, EmptyTypes DEF Open, Pass, Shape, TypeOK
  <2>4. pc' \in PC
    BY DEF Open, PC, CkptPC
  <2> QED BY <2>1, <2>3, <2>4, WalkTypes, EmptyTypes
       DEF Open, Shape, TypeOK, disk
<1>2. Control' /\ NoForgedHeader'
  BY DEF Open, Shape, Control, NoForgedHeader, disk, CommitPC, CkptPC
<1> QED BY <1>1, <1>2 DEF Shape

(* and when it does not.                                                   *)
LEMMA OpenBareShape ==
  ASSUME Shape, NEW w \in BOOLEAN, OpenBare(w)
  PROVE  Shape'
<1>1. TypeOK'
  <2>1. home[SB].recover \in BOOLEAN
    BY FormatAssumption DEF Shape, TypeOK, Content
  <2>2. start' \in LogPos \cup {0} /\ seq' \in SeqNo
    BY FormatAssumption DEF OpenBare, Shape, TypeOK, SeqNo
  <2> QED BY <2>1, <2>2, WalkTypes, EmptyTypes DEF OpenBare, Shape, TypeOK, disk, PC
<1>2. Control' /\ NoForgedHeader'
  BY DEF OpenBare, Shape, Control, NoForgedHeader, disk, CommitPC, CkptPC
<1> QED BY <1>1, <1>2 DEF Shape

(* A refused mount changes no memory but the driver's state.               *)
LEMMA RefuseShape ==
  ASSUME Shape, RefuseMount, home' \in [FsBlock -> Content], UNCHANGED <<log, jStart, jSeq>>
  PROVE  Shape'
<1>1. TypeOK'
  BY WalkTypes, EmptyTypes DEF RefuseMount, Reset, Shape, TypeOK, PC
<1>2. Control' /\ NoForgedHeader'
  BY DEF RefuseMount, Reset, Shape, Control, NoForgedHeader, CommitPC, CkptPC
<1> QED BY <1>1, <1>2 DEF Shape

(* The end of a replay preserves the invariant: control goes on only from  *)
(* a mounted state.                                                        *)
LEMMA FinishShape ==
  ASSUME Shape, pc \in {"walk", "tags"}, FinishReplay, UNCHANGED disk
  PROVE  Shape'
<1>1. TypeOK'
  BY WalkTypes DEF FinishReplay, Shape, TypeOK, PC, CkptPC, disk
<1>2. Control' /\ NoForgedHeader'
  BY DEF FinishReplay, Shape, Control, NoForgedHeader, disk, CommitPC, CkptPC
<1> QED BY <1>1, <1>2 DEF Shape

(* The end of a pass of walk_log preserves the invariant, whichever pass   *)
(* follows.                                                                *)
LEMMA EndPassShape ==
  ASSUME Shape, pc \in {"walk", "tags"}, NEW w \in WalkState, EndPass(w),
         revoked' \in [FsBlock -> SeqNo \cup {NoSeq}], UNCHANGED disk
  PROVE  Shape'
<1> DEFINE Again(pass, end) ==
      /\ walk' = StartPass(pass, start, seq, end)
      /\ pc' = "walk"
      /\ UNCHANGED <<writable, start, seq, rec, active, map, txn, idx, reply>>
<1>1. w.end \in SeqNo /\ LastSeq(w) \in SeqNo
  BY SeqType DEF WalkState, LastSeq
<1>2. ASSUME NEW pass \in Pass, NEW end \in SeqNo, Again(pass, end)
      PROVE  Shape'
  <2>1. start \in LogPos /\ seq \in SeqNo
    BY DEF Shape, TypeOK, Control
  <2>2. walk' \in WalkState
    BY <1>2, <2>1, WalkTypes
  <2>3. TypeOK'
    BY <1>2, <2>2 DEF Shape, TypeOK, PC, disk
  <2>4. Control' /\ NoForgedHeader'
    BY <1>2 DEF Shape, Control, NoForgedHeader, disk, CommitPC, CkptPC
  <2> QED BY <2>3, <2>4 DEF Shape
<1>3. \/ Again("REVOKE", LastSeq(w))
      \/ Again("FLUSH", w.end) \/ Again("BUILD", w.end)
      \/ FinishReplay
  BY DEF EndPass
<1>4. {"REVOKE", "FLUSH", "BUILD"} \subseteq Pass
  BY DEF Pass
<1> HIDE DEF Again
<1> QED BY <1>1, <1>2, <1>3, <1>4, FinishShape

(* Stepping over a log block preserves the invariant, also when the walk   *)
(* gives up there.                                                         *)
LEMMA StepOverShape ==
  ASSUME Shape, pc \in {"walk", "tags"}, NEW w \in WalkState,
         NEW r \in [FsBlock -> SeqNo \cup {NoSeq}], StepOver(w, r), UNCHANGED disk
  PROVE  Shape'
<1> DEFINE v == [w EXCEPT !.blk = NextPos(w.blk), !.n = Visited(w)]
<1>1. v \in WalkState
  <2>1. NextPos(w.blk) \in LogPos /\ Visited(w) \in Nat
    BY NextPosType DEF WalkState, Visited
  <2> QED BY <2>1 DEF WalkState
<1>2. CASE RefuseMount
  BY <1>2, RefuseShape DEF disk, Shape, TypeOK
<1>3. CASE EndPass(v) /\ revoked' = r
  BY <1>1, <1>3, EndPassShape
<1>4. CASE /\ pc' = "walk" /\ walk' = v /\ revoked' = r
           /\ UNCHANGED <<writable, start, seq, rec, active, map, txn, idx, reply>>
  <2>1. TypeOK'
    BY <1>1, <1>4 DEF Shape, TypeOK, PC, disk
  <2>2. Control' /\ NoForgedHeader'
    BY <1>4 DEF Shape, Control, NoForgedHeader, disk, CommitPC, CkptPC
  <2> QED BY <2>1, <2>2 DEF Shape
<1> QED BY <1>2, <1>3, <1>4 DEF StepOver

(* An iteration of walk_log's loop preserves the invariant.                *)
LEMMA WalkShape ==
  ASSUME Shape, Walk
  PROVE  Shape'
<1> USE DEF PastLast, Header
<1>1. walk \in WalkState /\ revoked \in [FsBlock -> SeqNo \cup {NoSeq}]
      /\ log[walk.blk] \in LogBlock
  BY DEF Shape, TypeOK, WalkState
<1>2. CASE WalkStop
  BY <1>1, <1>2, EndPassShape DEF WalkStop
<1>3. CASE WalkMismatch
  BY <1>3, RefuseShape DEF WalkMismatch, disk, Shape, TypeOK
<1>4. CASE WalkCommit
  <2> DEFINE s == SeqInc(walk.seq)
             w == [walk EXCEPT !.seq = s, !.end = IF walk.pass = "SCAN" THEN s ELSE @]
  <2>1. w \in WalkState
    BY <1>1, SeqType DEF WalkState
  <2>2. StepOver(w, revoked) /\ UNCHANGED disk /\ pc = "walk"
    BY <1>4 DEF WalkCommit
  <2> QED BY <1>1, <2>1, <2>2, StepOverShape
<1>5. CASE WalkRevoke
  <2> DEFINE r == IF walk.pass = "REVOKE"
                  THEN RevokeUpsert(revoked, Header.revokes, walk.seq) ELSE revoked
  <2>1. r \in [FsBlock -> SeqNo \cup {NoSeq}]
    BY <1>1 DEF RevokeUpsert, WalkState
  <2>2. (RefuseMount \/ StepOver(walk, r)) /\ UNCHANGED disk /\ pc = "walk"
    BY <1>5 DEF WalkRevoke
  <2>3. CASE RefuseMount
    BY <2>2, <2>3, RefuseShape DEF disk, Shape, TypeOK
  <2> QED BY <1>1, <2>1, <2>2, <2>3, StepOverShape
<1>6. CASE WalkDescriptor
  <2>1. walk' \in WalkState
    BY <1>1, <1>6 DEF WalkDescriptor, WalkState
  <2>2. TypeOK'
    BY <1>6, <2>1 DEF WalkDescriptor, Shape, TypeOK, PC, disk
  <2>3. Control' /\ NoForgedHeader'
    BY <1>6 DEF WalkDescriptor, Shape, Control, NoForgedHeader, disk, CommitPC, CkptPC
  <2> QED BY <2>2, <2>3 DEF Shape
<1> QED BY <1>2, <1>3, <1>4, <1>5, <1>6 DEF Walk

(* A tag of a descriptor preserves the invariant: what a replay writes     *)
(* home are block contents.                                                *)
LEMMA TagShape ==
  ASSUME Shape, TagNext
  PROVE  Shape'
<1>1. /\ walk \in WalkState /\ NextPos(walk.blk) \in LogPos
      /\ log[walk.desc] \in LogBlock /\ log[NextPos(walk.blk)] \in LogBlock
  BY NextPosType DEF Shape, TypeOK, WalkState
<1>2. ASSUME AtTag PROVE CurTag \in Tag /\ TagPos \in LogPos /\ TagData \in Content
  BY <1>1, <1>2 DEF AtTag, Tags, CurTag, TagPos, TagData, LogBlock, WalkState
<1>3. ASSUME TagStep, pc = "tags", home' \in [FsBlock -> Content], map' \in Seq(MapEntry)
      PROVE  Shape'
  <2>1. walk' \in WalkState
    <3>1. walk' = [walk EXCEPT !.blk = NextPos(walk.blk), !.k = walk.k + 1]
      BY <1>3 DEF TagStep, TagPos
    <3>2. walk.k + 1 \in Nat
      BY <1>1 DEF WalkState
    <3> QED BY <1>1, <3>1, <3>2 DEF WalkState
  <2>2. TypeOK'
    BY <1>3, <2>1 DEF TagStep, Shape, TypeOK, PC
  <2>3. Control' /\ NoForgedHeader'
    BY <1>3 DEF TagStep, Shape, Control, NoForgedHeader, CommitPC, CkptPC
  <2> QED BY <2>2, <2>3 DEF Shape
<1>4. CASE TagSkip
  BY <1>3, <1>4 DEF TagSkip, AtTag, Shape, TypeOK
<1>5. CASE TagFlush
  <2>1. Restore(TagData, CurTag.esc) \in Content
    BY <1>2, <1>5, EscapeType DEF TagFlush, Tag
  <2> QED BY <1>3, <1>5, <2>1 DEF TagFlush, AtTag, Shape, TypeOK
<1>6. CASE TagBuild
  <2>1. [blk |-> CurTag.blk, jblk |-> TagPos, esc |-> CurTag.esc] \in MapEntry
    BY <1>2, <1>6 DEF TagBuild, Tag, MapEntry
  <2>2. map' \in Seq(MapEntry)
    BY <1>6, <2>1, UpsertType DEF TagBuild, Shape, TypeOK
  <2> QED BY <1>3, <1>6, <2>2 DEF TagBuild, AtTag, Shape, TypeOK
<1>7. CASE TagRefused
  BY <1>7, RefuseShape DEF TagRefused, disk, Shape, TypeOK
<1>8. CASE TagsDone
  <2>1. revoked \in [FsBlock -> SeqNo \cup {NoSeq}]
    BY DEF Shape, TypeOK
  <2> QED BY <1>1, <1>8, <2>1, StepOverShape DEF TagsDone
<1> QED BY <1>4, <1>5, <1>6, <1>7, <1>8 DEF TagNext

(* Setting or clearing RECOVER leaves the home blocks block contents.      *)
LEMMA SetRecoverType ==
  ASSUME home \in [FsBlock -> Content], NEW bit \in BOOLEAN
  PROVE  SetRecover(bit) \in [FsBlock -> Content]
  BY DEF SetRecover, Content

(* A write of ext4_journal_checkpoint preserves the invariant: it ends     *)
(* clean on disk and in memory.                                            *)
LEMMA CheckpointShape ==
  ASSUME Shape, Checkpoint
  PROVE  Shape'
<1>1. CASE CkptFlush
  <2>1. map[idx] \in MapEntry /\ idx \in Nat
    BY <1>1 DEF CkptFlush, Shape, TypeOK
  <2>2. Restore(log[map[idx].jblk].data, map[idx].esc) \in Content
    BY <2>1, EscapeType DEF Shape, TypeOK, LogBlock, MapEntry
  <2>3. home' \in [FsBlock -> Content]
    BY <1>1, <2>2 DEF CkptFlush, Shape, TypeOK
  <2>4. idx' \in Nat /\ pc' \in PC
    BY <1>1, <2>1 DEF CkptFlush, PC, CkptPC
  <2>5. TypeOK'
    BY <1>1, <2>3, <2>4 DEF CkptFlush, Shape, TypeOK, jbd
  <2>6. Control' /\ NoForgedHeader'
    BY <1>1, <2>1 DEF CkptFlush, Shape, TypeOK, Control, NoForgedHeader, jbd, CommitPC, CkptPC
  <2> QED BY <2>5, <2>6 DEF Shape
<1>2. CASE CkptJsb
  <2>1. TypeOK'
    BY <1>2 DEF CkptJsb, Shape, TypeOK, jbd, PC, CkptPC
  <2>2. Control' /\ NoForgedHeader'
    BY <1>2 DEF CkptJsb, Shape, Control, NoForgedHeader, jbd, CommitPC, CkptPC
  <2> QED BY <2>1, <2>2 DEF Shape
<1>3. CASE CkptSb
  <2>1. /\ SetRecover(FALSE) \in [FsBlock -> Content]
        /\ SetRecover(FALSE)[SB].recover = FALSE
    BY SetRecoverType, FormatAssumption DEF SetRecover, Shape, TypeOK, Content
  <2>2. TypeOK'
    BY <1>3, <2>1, EmptyTypes, WalkTypes, SeqType DEF CkptSb, Shape, TypeOK, PC
  <2>3. Control' /\ NoForgedHeader'
    BY <1>3, <2>1 DEF CkptSb, Shape, Control, NoForgedHeader, CommitPC, CkptPC
  <2> QED BY <2>2, <2>3 DEF Shape
<1> QED BY <1>1, <1>2, <1>3 DEF Checkpoint

(* An accepted transaction fits into the log and into memory.              *)
LEMMA SubmitShape ==
  ASSUME Shape, NEW t \in Txns, Submit(t)
  PROVE  Shape'
<1>1. t \in Seq(Write) /\ t # << >>
  BY JournalAssumption
<1>2. /\ Stage(t) \in Seq(StagedWrite) /\ Len(Stage(t)) = Len(t)
      /\ Stage(t) # << >>
  BY <1>1, StageType
<1>3. TypeOK'
  BY <1>2 DEF Submit, Shape, TypeOK, PC, CommitPC, disk, jbd
<1>4. Len(t) \in Nat /\ First \in Nat /\ MaxLen \in Nat /\ start = 0
      /\ Len(t) <= TransMax /\ First + Len(t) + 2 <= MaxLen
  BY <1>1, FormatAssumption DEF Submit, Accepts
<1>5. pc = "idle"
  BY DEF Submit, Accepts, Mounted
<1>6. Control' /\ NoForgedHeader'
  BY <1>2, <1>4, <1>5 DEF Submit, Shape, Control, NoForgedHeader, CommitPC, CkptPC, disk, jbd
<1> QED BY <1>3, <1>6 DEF Shape

(* A refused commit changes nothing but its answer.                        *)
LEMMA RefuseCommitShape ==
  ASSUME Shape, NEW t \in Txns, RefuseCommit(t)
  PROVE  Shape'
  BY DEF RefuseCommit, Shape, TypeOK, Control, NoForgedHeader, disk, jbd

(* The transaction being committed is staged blocks, and its index is in   *)
(* range.                                                                  *)
LEMMA TxnType ==
  ASSUME txn \in Seq(StagedWrite)
  PROVE  \A k \in DOMAIN txn : txn[k].blk \in FsBlock /\ txn[k].data \in Content
<1> TAKE k \in DOMAIN txn
<1>1. txn[k] \in StagedWrite
  OBVIOUS
<1> QED BY <1>1 DEF StagedWrite

(* What the commit writes into the log.                                    *)
LEMMA WrittenTypes ==
  ASSUME Shape
  PROVE  /\ TxnTags \in Seq(Tag) /\ Len(TxnTags) = Len(txn)
         /\ DescWritten \in [LogPos -> LogBlock]
         /\ idx \in 1 .. Len(txn) => DataWritten \in [LogPos -> LogBlock]
         /\ CommitWritten \in [LogPos -> LogBlock]
         /\ \A p \in LogPos : /\ DescWritten[p].data.head # "magic"
                              /\ CommitWritten[p].data.head # "magic"
         /\ idx \in 1 .. Len(txn) =>
              \A p \in LogPos : DataWritten[p].data.head # "magic"
<1>1. txn \in Seq(StagedWrite) /\ seq \in SeqNo /\ log \in [LogPos -> LogBlock]
  BY DEF Shape, TypeOK
<1>2. \A k \in DOMAIN txn : txn[k].blk \in FsBlock /\ txn[k].data \in Content
  BY <1>1, TxnType
<1>3. \A k \in DOMAIN txn : TagOf(txn[k].blk, txn[k].data, seq) \in Tag
  BY <1>1, <1>2, TagOfType
<1>4. TxnTags \in Seq(Tag) /\ Len(TxnTags) = Len(txn)
  BY <1>1, <1>3 DEF TxnTags
<1>5. DescriptorBlock(seq, TxnTags) \in LogBlock /\ CommitBlock(seq) \in LogBlock
  BY <1>1, <1>4, BlockTypes
<1>6. DescWritten \in [LogPos -> LogBlock] /\ CommitWritten \in [LogPos -> LogBlock]
  BY <1>1, <1>5 DEF DescWritten, CommitWritten
<1>7. ASSUME idx \in 1 .. Len(txn)
      PROVE  /\ Escape(txn[idx].data) \in Content
             /\ Escape(txn[idx].data).head # "magic"
  BY <1>1, <1>2, <1>7, EscapeType
<1>8. idx \in 1 .. Len(txn) => DataWritten \in [LogPos -> LogBlock]
  BY <1>1, <1>7, BlockTypes DEF DataWritten
<1>9. \A p \in LogPos : log[p].data.head # "magic"
  BY DEF Shape, NoForgedHeader
<1>10. \A p \in LogPos : /\ DescWritten[p].data.head # "magic"
                         /\ CommitWritten[p].data.head # "magic"
  BY <1>1, <1>9 DEF DescWritten, CommitWritten, DescriptorBlock, CommitBlock, Zero
<1>11. idx \in 1 .. Len(txn) => \A p \in LogPos : DataWritten[p].data.head # "magic"
  BY <1>1, <1>7, <1>9 DEF DataWritten, DataBlock
<1> QED BY <1>4, <1>6, <1>8, <1>10, <1>11

(* A step of ext4_journal_commit preserves the invariant.                  *)
LEMMA CommitShape ==
  ASSUME Shape, Commit
  PROVE  Shape'
<1>1. CASE CommitSetRecover
  <2>1. SetRecover(TRUE) \in [FsBlock -> Content]
    BY SetRecoverType DEF Shape, TypeOK
  <2>2. TypeOK'
    BY <1>1, <2>1 DEF CommitSetRecover, Shape, TypeOK, jbd, PC, CommitPC
  <2>3. Control' /\ NoForgedHeader'
    BY <1>1 DEF CommitSetRecover, Shape, Control, NoForgedHeader, jbd, CommitPC, CkptPC
  <2> QED BY <2>2, <2>3 DEF Shape
<1>2. CASE CommitDescriptor
  <2>1. TypeOK'
    BY <1>2, WrittenTypes DEF CommitDescriptor, Shape, TypeOK, jbd, PC, CommitPC
  <2>2. Len(txn) \in Nat /\ Len(txn) # 0
    BY <1>2 DEF CommitDescriptor, Shape, TypeOK, Control, CommitPC
  <2>3. Control' /\ NoForgedHeader'
    BY <1>2, <2>2, WrittenTypes
    DEF CommitDescriptor, Shape, Control, NoForgedHeader, jbd, CommitPC, CkptPC
  <2> QED BY <2>1, <2>3 DEF Shape
<1>3. CASE CommitData
  <2>1. idx \in 1 .. Len(txn) /\ idx + 1 \in Nat /\ Len(txn) \in Nat
    BY <1>3 DEF CommitData, Shape, Control, TypeOK
  <2>2. pc' \in PC
    BY <1>3 DEF CommitData, PC, CommitPC
  <2>3. TypeOK'
    BY <1>3, <2>1, <2>2, WrittenTypes DEF CommitData, Shape, TypeOK, jbd
  <2>4. Control' /\ NoForgedHeader'
    BY <1>3, <2>1, WrittenTypes
    DEF CommitData, Shape, Control, NoForgedHeader, jbd, CommitPC, CkptPC
  <2> QED BY <2>3, <2>4 DEF Shape
<1>4. CASE CommitBlockWrite
  <2>1. TypeOK'
    BY <1>4, WrittenTypes DEF CommitBlockWrite, Shape, TypeOK, jbd, PC, CommitPC
  <2>2. Control' /\ NoForgedHeader'
    BY <1>4, WrittenTypes
    DEF CommitBlockWrite, Shape, Control, NoForgedHeader, jbd, CommitPC, CkptPC
  <2> QED BY <2>1, <2>2 DEF Shape
<1>5. CASE CommitJsb
  <2>1. /\ txn \in Seq(StagedWrite) /\ Len(txn) \in Nat /\ Len(txn) # 0
        /\ First + Len(txn) + 2 <= MaxLen /\ First \in LogPos /\ First # 0
    BY <1>5, FormatAssumption DEF CommitJsb, Shape, TypeOK, Control, CommitPC, LogPos
  <2>2. \A k \in DOMAIN txn : First + k \in LogPos /\ txn[k].blk \in FsBlock
    BY <2>1, TxnType, FormatAssumption DEF LogPos
  <2>3. \A k \in DOMAIN txn : [blk |-> txn[k].blk, jblk |-> First + k,
                               esc |-> NeedsEscape(txn[k].data)] \in MapEntry
    BY <2>2 DEF MapEntry, NeedsEscape
  <2>4. TxnMap \in Seq(MapEntry) /\ Len(TxnMap) = Len(txn)
    BY <2>1, <2>3 DEF TxnMap
  <2>5. TypeOK'
    BY <1>5, <2>1, <2>4 DEF CommitJsb, Shape, TypeOK, PC, CkptPC
  <2>6. Control' /\ NoForgedHeader'
    BY <1>5, <2>1, <2>4
    DEF CommitJsb, Shape, Control, NoForgedHeader, CommitPC, CkptPC
  <2> QED BY <2>5, <2>6 DEF Shape
<1> QED BY <1>1, <1>2, <1>3, <1>4, <1>5 DEF Commit

(* A write cut short leaves a block of the right type that is no header.   *)
LEMMA CutShortTypes ==
  ASSUME Shape, CutShort
  PROVE  /\ home' \in [FsBlock -> Content] /\ log' \in [LogPos -> LogBlock]
         /\ NoForgedHeader'
<1>1. /\ home \in [FsBlock -> Content] /\ log \in [LogPos -> LogBlock]
      /\ NoForgedHeader
  BY DEF Shape, TypeOK
<1>2. CASE HomeTorn /\ UNCHANGED log
  <2>1. PICK b \in HomeTarget, bit \in BOOLEAN :
          home' = [home EXCEPT ![b] = [Torn EXCEPT !.recover = bit /\ b = SB]]
    BY <1>2 DEF HomeTorn
  <2>2. [Torn EXCEPT !.recover = bit /\ b = SB] \in Content
    BY TornType
  <2>3. home' \in [FsBlock -> Content]
    BY <1>1, <2>1, <2>2
  <2> QED BY <1>1, <1>2, <2>3 DEF NoForgedHeader
<1>3. CASE LogTorn /\ UNCHANGED home
  <2>1. PICK p \in LogTarget : log' = [log EXCEPT ![p] = DataBlock(Torn)]
    BY <1>3 DEF LogTorn
  <2>2. Torn \in Content /\ Torn.head # "magic"
    BY FormatAssumption DEF Torn, Content, FirstWord
  <2>3. DataBlock(Torn) \in LogBlock /\ DataBlock(Torn).data.head # "magic"
    BY <2>2, BlockTypes DEF DataBlock
  <2> QED BY <1>1, <1>3, <2>1, <2>3 DEF NoForgedHeader
<1> QED BY <1>1, <1>2, <1>3 DEF CutShort, NoForgedHeader

(* What a failed write may leave on disk, by where the driver was.         *)
LEMMA WriteFailsTypes ==
  ASSUME Shape, WriteFails
  PROVE  /\ home' \in [FsBlock -> Content] /\ log' \in [LogPos -> LogBlock]
         /\ jStart' \in {jStart, 0} /\ jSeq' \in SeqNo
         /\ NoForgedHeader'
         /\ pc \in CommitPC \cup CkptPC \cup {"tags"}
         /\ pc = "tags" => UNCHANGED <<log, jStart, jSeq>>
<1>1. /\ home \in [FsBlock -> Content] /\ log \in [LogPos -> LogBlock]
      /\ jSeq \in SeqNo /\ seq \in SeqNo /\ NoForgedHeader
  BY DEF Shape, TypeOK
<1>2. CASE /\ HomeTarget # {} \/ LogTarget # {}
           /\ CutShort
           /\ UNCHANGED <<jStart, jSeq>>
  <2>1. pc \in {"tags", "ckFlush", "cDesc", "cData", "cCommit"}
    BY <1>2 DEF HomeTarget, LogTarget, AtTag
  <2>2. pc = "tags" => UNCHANGED log
    BY <1>2 DEF CutShort, LogTorn, LogTarget
  <2> QED BY <1>1, <1>2, <2>1, <2>2, CutShortTypes DEF CommitPC, CkptPC
<1>3. CASE /\ pc \in {"cSb", "ckSb"}
           /\ home' \in {home, SetRecover(pc = "cSb")}
           /\ UNCHANGED <<log, jStart, jSeq>>
  <2>1. SetRecover(pc = "cSb") \in [FsBlock -> Content]
    BY <1>1, SetRecoverType
  <2> QED BY <1>1, <1>3, <2>1 DEF NoForgedHeader, CommitPC, CkptPC
<1>4. CASE /\ \/ pc = "cDesc" /\ log' = DescWritten
              \/ pc = "cData" /\ log' = DataWritten
              \/ pc = "cCommit" /\ log' = CommitWritten
           /\ UNCHANGED <<home, jStart, jSeq>>
  <2>1. pc = "cData" => idx \in 1 .. Len(txn)
    BY DEF Shape, Control
  <2> QED BY <1>1, <1>4, <2>1, WrittenTypes DEF NoForgedHeader, CommitPC
<1>5. CASE /\ pc = "ckJsb"
           /\ \/ UNCHANGED <<jStart, jSeq>>
              \/ jStart' = 0 /\ jSeq' = seq
           /\ UNCHANGED <<home, log>>
  BY <1>1, <1>5 DEF NoForgedHeader, CkptPC
<1>6. CASE pc = "cJsb" /\ UNCHANGED disk
  BY <1>1, <1>6 DEF NoForgedHeader, CommitPC, disk
<1> QED BY <1>2, <1>3, <1>4, <1>5, <1>6 DEF WriteFails

(* A failed write, a failed read, a mount without the journal and a power  *)
(* cut preserve the invariant.                                             *)
LEMMA FailureShape ==
  ASSUME Shape, Failure
  PROVE  Shape'
<1>1. CASE WriteError
  <2>1. WriteFails
    BY <1>1 DEF WriteError
  <2>2. CASE pc = "tags"
    BY <1>1, <2>1, <2>2, WriteFailsTypes, RefuseShape DEF WriteError
  <2>3. CASE pc # "tags"
    <3>1. /\ pc' = "idle" /\ txn' = << >> /\ idx' = 0 /\ UNCHANGED jbd
          /\ reply' = IF txn = << >> THEN reply ELSE "err"
      BY <1>1, <2>3 DEF WriteError
    <3>2. TypeOK'
      BY <2>1, <3>1, WriteFailsTypes, EmptyTypes DEF Shape, TypeOK, jbd, PC
    <3>3. Control'
      BY <2>1, <2>3, <3>1, WriteFailsTypes DEF Shape, Control, jbd, CommitPC, CkptPC
    <3> QED BY <2>1, <3>2, <3>3, WriteFailsTypes DEF Shape
  <2> QED BY <2>2, <2>3
<1>2. CASE ReadError
  BY <1>2, RefuseShape DEF ReadError, disk, Shape, TypeOK
<1>3. CASE Crash
  <2>1. TypeOK'
    BY <1>3, CutShortTypes, WalkTypes, EmptyTypes DEF Crash, Reset, Shape, TypeOK, PC
  <2>2. Control'
    BY <1>3 DEF Crash, Reset, Control, CommitPC, CkptPC
  <2> QED BY <1>3, <2>1, <2>2, CutShortTypes DEF Crash, Shape
<1> QED BY <1>1, <1>2, <1>3, OpenBareShape DEF Failure

(* Every step preserves the invariant.                                     *)
LEMMA ShapeStep == Shape /\ [Next]_vars => Shape'
<1> SUFFICES ASSUME Shape, [Next]_vars PROVE Shape'
  OBVIOUS
<1>1. CASE UNCHANGED vars
  BY <1>1 DEF vars, disk, jbd, Shape, TypeOK, NoForgedHeader, Control
<1>2. CASE Work
  <2>1. ASSUME NEW t \in Txns, Submit(t) \/ RefuseCommit(t) PROVE Shape'
    BY <2>1, SubmitShape, RefuseCommitShape
  <2> QED BY <1>2, <2>1, OpenShape, WalkShape, TagShape, CheckpointShape, CommitShape
       DEF Work, Driver
<1>3. CASE Failure
  BY <1>3, FailureShape
<1> QED BY <1>1, <1>2, <1>3 DEF Next

(* The types, the control part and the absence of forged headers hold in   *)
(* every reachable state.                                                  *)
THEOREM ShapeInvariant == Spec => []Shape
  BY ShapeInit, ShapeStep, PTL DEF Spec

(***************************************************************************)
(* What follows from it.                                                   *)
(***************************************************************************)
(* Every variable keeps its type.                                          *)
THEOREM TypeCorrect == Spec => []TypeOK
<1>1. Shape => TypeOK
  BY DEF Shape
<1> QED BY <1>1, ShapeInvariant, PTL

(* No data block in the log can ever be read as a header: whatever content *)
(* the callers hand to ext4_journal_commit, the escape took the magic off. *)
THEOREM NoHeaderForged == Spec => []NoForgedHeader
<1>1. Shape => NoForgedHeader
  BY DEF Shape
<1> QED BY <1>1, ShapeInvariant, PTL

(* In a mount that has its journal, ext4_journal_commit's test of jbd.start *)
(* never accepts a transaction while the disk's journal superblock still   *)
(* points at another one.                                                  *)
THEOREM MemoryTracksLog == Spec => []MemoryKnowsLog
<1>1. Shape => MemoryKnowsLog
  BY DEF Shape, Control, MemoryKnowsLog
<1> QED BY <1>1, ShapeInvariant, PTL

(* A commit that returned 0 left the log clean, RECOVER clear and the      *)
(* replay map off.                                                         *)
THEOREM OkIsClean == Spec => []OkLeavesClean
<1>1. Shape => OkLeavesClean
  BY DEF Shape, Control, OkLeavesClean
<1> QED BY <1>1, ShapeInvariant, PTL

(* While the journal superblock points at a transaction, no step of the    *)
(* driver and no failure touches the log; nor does a mount that takes the  *)
(* log for clean because ext4_journal_init failed.                         *)
THEOREM LiveLogUntouched == Spec => LiveLogKept
<1>1. ASSUME Shape, Next, jStart # 0 PROVE log' = log
  <2>1. pc \notin CommitPC
    BY <1>1 DEF Shape, Control
  <2>2. CASE Work
    <3>1. ASSUME NEW t \in Txns, Submit(t) \/ RefuseCommit(t) PROVE log' = log
      BY <3>1 DEF Submit, RefuseCommit, disk
    <3>2. CASE Walk
      BY <3>2 DEF Walk, WalkStop, WalkMismatch, WalkCommit, WalkRevoke, WalkDescriptor, disk
    <3>3. CASE TagNext
      BY <3>3 DEF TagNext, TagSkip, TagFlush, TagBuild, TagRefused, TagsDone, TagStep, disk
    <3>4. CASE Checkpoint
      BY <3>4 DEF Checkpoint, CkptFlush, CkptJsb, CkptSb
    <3>5. CASE Commit
      BY <2>1, <3>5 DEF Commit, CommitSetRecover, CommitDescriptor, CommitData,
           CommitBlockWrite, CommitJsb, CommitPC
    <3>6. CASE \E w \in BOOLEAN : Open(w)
      BY <3>6 DEF Open, disk
    <3> QED BY <2>2, <3>1, <3>2, <3>3, <3>4, <3>5, <3>6 DEF Work, Driver
  <2>3. ASSUME CutShort PROVE log' = log
    BY <2>1, <2>3 DEF CutShort, LogTorn, LogTarget, CommitPC
  <2>4. CASE WriteError
    BY <2>1, <2>3, <2>4 DEF WriteError, WriteFails, CommitPC
  <2>5. CASE ReadError \/ Crash
    BY <2>3, <2>5 DEF ReadError, Crash, disk
  <2>6. CASE \E w \in BOOLEAN : OpenBare(w)
    BY <2>6 DEF OpenBare, disk
  <2> QED BY <1>1, <2>2, <2>4, <2>5, <2>6 DEF Next, Failure
<1>2. Shape /\ [Next]_vars => [jStart # 0 => log' = log]_vars
  BY <1>1
<1> QED BY <1>2, ShapeInvariant, PTL DEF Spec, LiveLogKept

(***************************************************************************)
(* Facts about the state.                                                  *)
(***************************************************************************)
(* Within the bound on commits, sequence numbers are compared and counted  *)
(* as integers.                                                            *)
LEMMA SeqArith ==
  ASSUME NEW a \in 0 .. MaxSeq + 2, NEW b \in 0 .. MaxSeq + 2
  PROVE  /\ SeqDiff(a, b) = a - b
         /\ a <= MaxSeq + 1 => SeqInc(a) = a + 1
         /\ a > 0 => SeqDec(a) = a - 1
<1>1. /\ a \in Int /\ b \in Int /\ MaxSeq \in Nat /\ SeqLimit \in Nat
      /\ 0 <= a /\ a <= MaxSeq + 2 /\ 0 <= b /\ b <= MaxSeq + 2
      /\ 2 * (MaxSeq + 2) < SeqLimit
  BY JournalAssumption, FormatAssumption
<1>2. CASE a >= b
  BY <1>1, <1>2 DEF SeqDiff, SeqInc, SeqDec
<1>3. CASE ~(a >= b)
  BY <1>1, <1>3 DEF SeqDiff, SeqInc, SeqDec
<1> QED BY <1>2, <1>3

(* A journal superblock that points at a transaction points at a whole     *)
(* one: descriptor, data under its checksums, commit block.                *)
LEMMA LiveFacts ==
  ASSUME Shape, Live, jStart # 0
  PROVE  /\ jStart = First /\ LiveTags = log[First].tags
         /\ LiveTags \in Seq(Tag) /\ Len(LiveTags) \in 1 .. TransMax
         /\ LiveEnd \in LogPos /\ First \in LogPos /\ First # LiveEnd
         /\ log[First] = DescriptorBlock(jSeq, LiveTags)
         /\ log[LiveEnd] = CommitBlock(jSeq)
         /\ DOMAIN LiveWrites = 1 .. Len(LiveTags)
         /\ \A k \in 1 .. Len(LiveTags) :
              /\ First + k \in LogPos
              /\ log[First + k].kind = "data"
              /\ LiveTags[k].sum = <<jSeq, log[First + k].data>>
              /\ LiveTags[k].blk \in FsBlock /\ LiveTags[k].esc \in BOOLEAN
              /\ LiveWrites[k].blk = LiveTags[k].blk
              /\ LiveWrites[k].val = Mask(Restore(log[First + k].data, LiveTags[k].esc))
<1>1. jStart = First /\ LiveTags = log[First].tags /\ Holds(jSeq, LiveTags)
  BY FormatAssumption DEF Live, LiveTags
<1>2. First \in LogPos /\ First \in Nat /\ MaxLen \in Nat /\ TransMax \in Nat
  BY FormatAssumption, JournalAssumption DEF LogPos
<1>3. LiveTags \in Seq(Tag)
  BY <1>1, <1>2 DEF Shape, TypeOK, LogBlock
<1>4. Len(LiveTags) \in 1 .. TransMax /\ First + Len(LiveTags) + 2 <= MaxLen
  BY <1>1 DEF Holds
<1>5. LiveEnd \in LogPos /\ First # LiveEnd
  BY <1>2, <1>4 DEF LiveEnd, LogPos
<1>6. DOMAIN LiveWrites = 1 .. Len(LiveTags)
  BY <1>3 DEF LiveWrites
<1>7. ASSUME NEW k \in 1 .. Len(LiveTags)
      PROVE  /\ First + k \in LogPos
             /\ LiveTags[k].blk \in FsBlock /\ LiveTags[k].esc \in BOOLEAN
             /\ LiveWrites[k].blk = LiveTags[k].blk
             /\ LiveWrites[k].val = Mask(Restore(log[First + k].data, LiveTags[k].esc))
  <2>1. First + k \in LogPos
    BY <1>2, <1>4 DEF LogPos
  <2>2. LiveTags[k] \in Tag
    BY <1>3
  <2>3. k \in DOMAIN LiveTags
    BY <1>3
  <2>4. LiveTags[k].blk \in FsBlock /\ LiveTags[k].esc \in BOOLEAN
    BY <2>2 DEF Tag
  <2>5. LiveWrites[k] = [blk |-> LiveTags[k].blk, val |-> Mask(LiveCopy(k))]
    BY <2>3 DEF LiveWrites
  <2>6. LiveWrites[k].blk = LiveTags[k].blk /\ LiveWrites[k].val = Mask(LiveCopy(k))
    BY <2>5
  <2> QED BY <1>1, <2>1, <2>4, <2>6 DEF LiveCopy
<1>8. log[First] = DescriptorBlock(jSeq, LiveTags) /\ log[LiveEnd] = CommitBlock(jSeq)
  BY <1>1 DEF Holds, LiveEnd
<1>9. \A k \in 1 .. Len(LiveTags) :
         log[First + k].kind = "data" /\ LiveTags[k].sum = <<jSeq, log[First + k].data>>
  BY <1>1 DEF Holds
<1> QED BY <1>1, <1>2, <1>3, <1>4, <1>5, <1>6, <1>7, <1>8, <1>9

(* While the log and its superblock stay, so does what they hold.          *)
LEMMA LiveSame ==
  ASSUME UNCHANGED <<log, jStart>>
  PROVE  LiveTags' = LiveTags /\ LiveWrites' = LiveWrites /\ LiveEnd' = LiveEnd
  BY DEF LiveTags, LiveWrites, LiveCopy, LiveEnd

(* The stores are stores.                                                  *)
LEMMA HomeStoreType ==
  ASSUME home \in [FsBlock -> Content]
  PROVE  HomeStore \in [FsBlock -> Val]
<1>1. \A c \in Content : Mask(c) \in Val
  BY DEF Content, Mask, Val
<1> QED BY <1>1 DEF HomeStore

(* A clean log leaves the blocks in place for the committed store.         *)
LEMMA CleanStore ==
  ASSUME jStart = 0
  PROVE  CommittedStore = HomeStore
<1>1. DOMAIN LiveWrites = {}
  BY DEF LiveWrites, LiveTags
<1>2. \A b \in FsBlock : ~Writes(LiveWrites, b)
  BY <1>1 DEF Writes
<1> QED BY <1>2 DEF CommittedStore, Overlay, HomeStore

(* The same of the next state.                                            *)
LEMMA CleanStorePrimed ==
  ASSUME jStart' = 0
  PROVE  CommittedStore' = HomeStore'
<1>1. DOMAIN LiveWrites' = {}
  BY DEF LiveWrites, LiveTags
<1>2. \A b \in FsBlock : ~Writes(LiveWrites', b)
  BY <1>1 DEF Writes
<1> QED BY <1>2 DEF CommittedStore, Overlay, HomeStore

(* Home blocks that are all there make the log redundant.                  *)
LEMMA FlushedStore ==
  ASSUME Shape, Live, jStart # 0, Home(Len(LiveTags))
  PROVE  CommittedStore = HomeStore
<1> DEFINE n == Len(LiveTags)
<1>1. n \in Nat /\ DOMAIN LiveWrites = 1 .. n
  BY LiveFacts
<1>2. HomeStore \in [FsBlock -> Val]
  BY HomeStoreType DEF Shape, TypeOK
<1>3. ASSUME NEW k \in 1 .. n, NEW b \in FsBlock, LastWrite(LiveWrites, b, k)
      PROVE  HomeStore[b] = LiveWrites[k].val
  <2>1. LiveTags[k].blk = b
    BY <1>3, LiveFacts DEF LastWrite
  <2>2. \A m \in k + 1 .. n : LiveTags[m].blk # LiveTags[k].blk
    BY <1>1, <1>3, <2>1, LiveFacts DEF LastWrite
  <2>3. Mask(home[b]) = LiveWrites[k].val
    BY <2>1, <2>2 DEF Home
  <2> QED BY <2>3 DEF HomeStore
<1> HIDE DEF n
<1>4. Overlay(HomeStore, LiveWrites) = HomeStore
  BY <1>1, <1>2, <1>3, OverlayDone
<1> QED BY <1>4 DEF CommittedStore

(* The committed store does not depend on what the blocks of the live      *)
(* transaction hold in place: a torn write, a flush or a replay of one of  *)
(* them does not show, nor does the RECOVER bit.                           *)
LEMMA StoreKept ==
  ASSUME UNCHANGED <<log, jStart>>, home \in [FsBlock -> Content],
         home' \in [FsBlock -> Content],
         \A b \in FsBlock : Mask(home'[b]) = Mask(home[b]) \/ Writes(LiveWrites, b)
  PROVE  CommittedStore' = CommittedStore
<1>1. LiveWrites' = LiveWrites
  BY LiveSame
<1>2. HomeStore \in [FsBlock -> Val]
  BY HomeStoreType
<1>3. HomeStore' \in [FsBlock -> Val]
  <2>1. \A c \in Content : Mask(c) \in Val
    BY DEF Content, Mask, Val
  <2> QED BY <2>1 DEF HomeStore
<1>4. \A b \in FsBlock : ~Writes(LiveWrites, b) => HomeStore'[b] = HomeStore[b]
  BY DEF HomeStore
<1>5. Overlay(HomeStore', LiveWrites) = Overlay(HomeStore, LiveWrites)
  BY <1>2, <1>3, <1>4, OverlayCovers
<1> QED BY <1>1, <1>5 DEF CommittedStore

(***************************************************************************)
(* Preservation of single parts of the invariant.                          *)
(***************************************************************************)
(* What the log holds stays true of a log nobody wrote, also when the      *)
(* superblock lets go of it.                                               *)
LEMMA LogKept ==
  ASSUME Shape, Stale, Live, log' = log,
         UNCHANGED <<jStart, jSeq>> \/ (jStart' = 0 /\ jSeq' \in SeqNo /\ jSeq' >= jSeq)
  PROVE  Stale' /\ Live'
<1>1. \A p \in LogPos : log[p].seq \in Int
  BY DEF Shape, TypeOK, LogBlock, SeqNo
<1>2. jSeq \in Int /\ jSeq' \in Int /\ jSeq' >= jSeq
  BY DEF Shape, TypeOK, SeqNo
<1>3. Stale'
  BY <1>1, <1>2, FormatAssumption DEF Stale, LogPos
<1>4. Live'
  BY DEF Live, Holds
<1> QED BY <1>3, <1>4

(* Reads see the committed store when the log is clean and no map in use.  *)
LEMMA CleanReads ==
  ASSUME jStart' = 0, active' = FALSE
  PROVE  Reading'
<1>1. CommittedStore' = HomeStore'
  BY CleanStorePrimed
<1>2. ASSUME NEW b \in FsBlock PROVE Mask(ReadView(b)') = CommittedStore'[b]
  BY <1>1 DEF HomeStore, ReadView
<1> QED BY <1>2 DEF Reading

(* They still do after a step that changes, of what a read takes from its  *)
(* place, nothing but the RECOVER bit.                                     *)
LEMMA KeptReads ==
  ASSUME Reading, pc \in {"idle"} \cup CkptPC, UNCHANGED <<log, active, map, writable>>,
         CommittedStore' = CommittedStore,
         \A b \in FsBlock : Mask(home'[b]) = Mask(home[b]) \/ (active /\ Hits(b) # {})
  PROVE  Reading'
<1>1. CommittedStore' = CommittedStore
  OBVIOUS
<1>2. ASSUME NEW b \in FsBlock PROVE Hits(b)' = Hits(b) /\ (HeldOnce(b)' <=> HeldOnce(b))
  BY DEF Hits, HeldOnce
<1>3. ASSUME NEW b \in FsBlock PROVE Mask(ReadView(b))' = Mask(ReadView(b))
  <2>1. FirstHit(b)' = FirstHit(b)
    BY <1>2 DEF FirstHit, Hits
  <2>2. CASE active /\ Hits(b) # {}
    BY <1>2, <2>1, <2>2 DEF ReadView, Mask
  <2>3. CASE ~(active /\ Hits(b) # {})
    BY <1>2, <2>3 DEF ReadView, Mask
  <2> QED BY <2>2, <2>3
<1>4. ASSUME NEW b \in FsBlock, (writable => HeldOnce(b))'
      PROVE  (Mask(ReadView(b)) = CommittedStore[b])'
  BY <1>1, <1>2, <1>3, <1>4 DEF Reading
<1> QED BY <1>4 DEF Reading

(* They do when the live transaction has been written home.                *)
LEMMA FlushedReads ==
  ASSUME Shape, Live, jStart # 0, Home(Len(LiveTags)), active' = FALSE,
         UNCHANGED <<home, log, jStart>>
  PROVE  Reading'
<1>1. CommittedStore = HomeStore
  BY FlushedStore
<1>2. CommittedStore' = CommittedStore
  BY StoreKept DEF Shape, TypeOK
<1>3. ASSUME NEW b \in FsBlock PROVE Mask(ReadView(b)') = CommittedStore'[b]
  BY <1>1, <1>2 DEF HomeStore, ReadView
<1> QED BY <1>3 DEF Reading

(***************************************************************************)
(* The initial state, and the states of a driver that is down.             *)
(***************************************************************************)
(* A cleanly unmounted volume satisfies the invariant before any mount.    *)
LEMMA InvInit == Init => Inv
<1> SUFFICES ASSUME Init PROVE Inv
  OBVIOUS
<1>1. PICK d \in Disk : Clean(d) /\ PowerUp(d)
  BY DEF Init
<1>2. Shape
  BY ShapeInit
<1>3. jStart = 0 /\ pc = "down" /\ txn = << >> /\ active = FALSE /\ seq = 0
      /\ jSeq = d.seq /\ jSeq \in 0 .. MaxSeq
  BY <1>1 DEF Clean, PowerUp
<1>4. \A p \in LogPos : log[p].kind # "data" => log[p].seq < jSeq
  BY <1>1 DEF Clean, PowerUp
<1>5. \A p \in LogPos : log[p].seq \in Int
  BY <1>2 DEF Shape, TypeOK, LogBlock, SeqNo
<1>6. Stale /\ Live
  BY <1>3, <1>4, <1>5, FormatAssumption DEF Stale, Live, LogPos
<1>7. Memory /\ Sequence
  BY <1>3, JournalAssumption DEF Memory, Sequence, CkptPC
<1>8. Committing /\ Walking /\ Flushing /\ Reading
  BY <1>3 DEF Committing, Walking, Flushing, Reading, CkptPC
<1> QED BY <1>2, <1>6, <1>7, <1>8 DEF Inv

(* Losing the driver's memory preserves the invariant.                     *)
LEMMA ResetInv ==
  ASSUME Inv, Shape', Reset, pc' \in {"down", "refused"}, Stale', Live', jSeq' <= MaxSeq
  PROVE  Inv'
<1>1. Memory' /\ Sequence'
  BY JournalAssumption DEF Reset, Memory, Sequence, CkptPC
<1>2. Committing' /\ Walking' /\ Flushing' /\ Reading'
  BY DEF Committing, Walking, Flushing, Reading, CkptPC
<1> QED BY <1>1, <1>2 DEF Inv

(* A refused mount preserves the invariant.                                *)
LEMMA RefuseInv ==
  ASSUME Inv, RefuseMount, home' \in [FsBlock -> Content], UNCHANGED <<log, jStart, jSeq>>
  PROVE  Inv'
<1>1. Shape'
  BY RefuseShape DEF Inv
<1>2. Stale' /\ Live'
  BY LogKept DEF Inv
<1> QED BY <1>1, <1>2, ResetInv DEF Inv, RefuseMount, Sequence

(* ext4_journal_init preserves the invariant when it finds the journal,    *)
LEMMA OpenInv ==
  ASSUME Inv, NEW w \in BOOLEAN, Open(w)
  PROVE  Inv'
<1>1. Shape' /\ Stale' /\ Live'
  BY OpenShape, LogKept DEF Inv, Open, disk
<1>2. txn' = << >> /\ active' = FALSE /\ start' = jStart /\ jStart' = jStart
      /\ jSeq' = jSeq /\ seq' = jSeq /\ map' = << >> /\ revoked' = NoRevokes /\ writable' = w
  BY DEF Open, disk
<1>3. CASE jStart # 0
  <2>1. pc' = "walk" /\ walk' = StartPass("SCAN", jStart, jSeq, 0) /\ jStart = First
    BY <1>3, LiveFacts DEF Open, Inv
  <2>2. Memory' /\ Sequence'
    BY <1>2, <2>1 DEF Memory, Sequence, CkptPC, Inv, Shape, TypeOK
  <2>3. Walking'
    BY <1>2, <2>1 DEF Walking, PassOK, AtFirst, StartPass
  <2>4. Committing' /\ Flushing' /\ Reading'
    BY <2>1 DEF Committing, Flushing, Reading, CkptPC
  <2> QED BY <1>1, <2>2, <2>3, <2>4 DEF Inv
<1>4. CASE jStart = 0
  <2>1. pc' = "idle" \/ (pc' = "ckJsb" /\ w)
    BY <1>4 DEF Open
  <2>2. Memory' /\ Sequence'
    BY <1>2, <1>4, <2>1 DEF Memory, Sequence, CkptPC, Inv, Shape, TypeOK
  <2>3. Reading'
    BY <1>2, <1>4, CleanReads
  <2>4. Committing' /\ Walking' /\ Flushing'
    BY <1>2, <1>4, <2>1 DEF Committing, Walking, Flushing
  <2> QED BY <1>1, <2>2, <2>3, <2>4 DEF Inv
<1> QED BY <1>3, <1>4

(* and when it does not.                                                   *)
LEMMA OpenBareInv ==
  ASSUME Inv, NEW w \in BOOLEAN, OpenBare(w)
  PROVE  Inv'
<1>1. Shape' /\ Stale' /\ Live'
  BY OpenBareShape, LogKept DEF Inv, OpenBare, disk
<1>2. /\ pc' = "bare" /\ txn' = << >> /\ active' = FALSE /\ jSeq' = jSeq
      /\ seq' = 0 \/ seq' = jSeq
  BY DEF OpenBare, disk
<1>3. Memory' /\ Sequence'
  BY <1>2, JournalAssumption DEF Memory, Sequence, CkptPC, Inv, Shape, TypeOK
<1>4. Committing' /\ Walking' /\ Flushing' /\ Reading'
  BY <1>2 DEF Committing, Walking, Flushing, Reading, CkptPC
<1> QED BY <1>1, <1>3, <1>4 DEF Inv

(***************************************************************************)
(* The walk.                                                               *)
(***************************************************************************)
(* What a walk knows of its place in the log it was started on.            *)
LEMMA WalkFacts ==
  ASSUME Inv, pc \in {"walk", "tags"}
  PROVE  /\ jStart # 0 /\ start = First /\ seq = jSeq /\ txn = << >> /\ active = FALSE
         /\ seq \in 0 .. MaxSeq /\ MaxSeq \in Nat /\ revoked = NoRevokes
         /\ Len(LiveTags) \in Nat /\ LiveEnd \in Nat /\ First \in Nat
         /\ walk \in WalkState
<1>1. jStart # 0 /\ start = First /\ seq = jSeq /\ txn = << >> /\ active = FALSE
  BY LiveFacts DEF Inv, Shape, Control, TypeOK, Memory
<1>2. seq \in 0 .. MaxSeq /\ MaxSeq \in Nat /\ revoked = NoRevokes /\ walk \in WalkState
  BY JournalAssumption DEF Inv, Shape, TypeOK, SeqNo, Sequence, Walking
<1>3. Len(LiveTags) \in Nat /\ LiveEnd \in Nat /\ First \in Nat
  BY <1>1, LiveFacts, FormatAssumption DEF Inv, LiveEnd, LogPos
<1> QED BY <1>1, <1>2, <1>3

(* A step of a walk within its pass: the walk stays where the invariant    *)
(* says it may be, and all but its locals is left alone.                   *)
LEMMA WithinPass ==
  ASSUME Inv, Shape', pc \in {"walk", "tags"}, pc' \in {"walk", "tags"}, UNCHANGED disk,
         UNCHANGED <<writable, start, seq, active, revoked, txn>>, Walking'
  PROVE  Inv'
<1>1. Stale' /\ Live'
  BY LogKept DEF Inv, disk
<1>2. Memory' /\ Sequence'
  BY WalkFacts DEF Memory, Sequence, CkptPC, disk, Inv
<1>3. Committing' /\ Flushing' /\ Reading'
  BY DEF Committing, Flushing, Reading, CkptPC
<1> QED BY <1>1, <1>2, <1>3 DEF Inv

(* What a map of last copies shows of a block is its last write.           *)
LEMMA BuiltReads ==
  ASSUME Inv, jStart # 0, Built(Len(LiveTags)), NEW b \in FsBlock
  PROVE  Mask(IF Hits(b) # {} THEN Restore(log[map[FirstHit(b)].jblk].data, map[FirstHit(b)].esc)
              ELSE home[b])
         = CommittedStore[b]
<1> DEFINE n == Len(LiveTags)
<1>1. n \in Nat /\ DOMAIN LiveWrites = 1 .. n /\ map \in Seq(MapEntry)
      /\ DOMAIN HomeStore = FsBlock
  BY LiveFacts DEF Inv, Shape, TypeOK, HomeStore
<1>2. CASE Hits(b) # {}
  <2>1. FirstHit(b) \in Hits(b)
    <3>1. Hits(b) \in SUBSET Nat
      BY <1>1 DEF Hits
    <3> QED BY <1>2, <3>1, LeastExists DEF FirstHit
  <2> DEFINE e == map[FirstHit(b)]
  <2>2. e.blk = b /\ LastCopy(e, n)
    BY <2>1 DEF Hits, Built
  <2>3. PICK k \in 1 .. n :
          /\ e = [blk |-> LiveTags[k].blk, jblk |-> First + k, esc |-> LiveTags[k].esc]
          /\ \A m \in k + 1 .. n : LiveTags[m].blk # LiveTags[k].blk
    BY <2>2 DEF LastCopy
  <2>4. LiveTags[k].blk = b /\ e.jblk = First + k /\ e.esc = LiveTags[k].esc
    BY <2>2, <2>3
  <2>5. \A i \in 1 .. n : LiveWrites[i].blk = LiveTags[i].blk
    BY LiveFacts DEF Inv
  <2>6. LastWrite(LiveWrites, b, k)
    BY <1>1, <2>3, <2>4, <2>5, SMTT(20) DEF LastWrite
  <2>7. CommittedStore[b] = LiveWrites[k].val
    BY <1>1, <2>6, OverlayShows DEF CommittedStore
  <2>8. LiveWrites[k].val = Mask(Restore(log[e.jblk].data, e.esc))
    BY <2>4, LiveFacts DEF Inv
  <2> QED BY <1>2, <2>7, <2>8
<1>3. CASE Hits(b) = {}
  <2>1. ~Writes(LiveWrites, b)
    <3>1. \A k \in 1 .. n : LiveTags[k].blk # b
      BY <1>3 DEF Built, Hits
    <3> QED BY <1>1, <3>1, LiveFacts DEF Writes, Inv
  <2>2. CommittedStore[b] = HomeStore[b]
    BY <1>1, <2>1, OverlayShows DEF CommittedStore
  <2> QED BY <1>3, <2>2 DEF HomeStore
<1> QED BY <1>2, <1>3

(* The end of a replay.                                                    *)
LEMMA FinishInv ==
  ASSUME Inv, pc \in {"walk", "tags"}, FinishReplay, UNCHANGED disk,
         \/ walk.pass = "FLUSH" /\ Home(Len(LiveTags))
         \/ walk.pass = "BUILD" /\ Built(Len(LiveTags)) 
  PROVE  Inv'
<1>1. Shape' /\ Stale' /\ Live'
  BY FinishShape, LogKept DEF Inv, disk
<1>2. PassOK(walk)
  BY DEF Inv, Walking
<1>3. jStart' # 0 /\ start' # 0 /\ start # 0 /\ txn' = << >> /\ seq' = jSeq' /\ jSeq' = jSeq
      /\ writable' = writable /\ map' = map /\ seq' = seq
  BY WalkFacts, FormatAssumption DEF FinishReplay, disk
<1>4. CASE walk.pass = "FLUSH" /\ Home(Len(LiveTags))
  <2>1. writable /\ active' = FALSE /\ pc' = "ckJsb"
    BY <1>2, <1>3, <1>4 DEF PassOK, FinishReplay, NeedsCheckpoint
  <2>2. Memory' /\ Sequence'
    BY <1>3, <2>1 DEF Memory, Sequence, CkptPC, Inv
  <2>3. Committing' /\ Walking'
    BY <2>1 DEF Committing, Walking
  <2>4. Home(Len(LiveTags))'
    BY <1>4, LiveSame DEF Home, disk
  <2>5. Flushing'
    BY <2>1, <2>4 DEF Flushing
  <2>6. Reading'
    BY <1>3, <1>4, <2>1, FlushedReads, WalkFacts DEF Inv, disk
  <2> QED BY <1>1, <2>2, <2>3, <2>5, <2>6 DEF Inv
<1>5. CASE walk.pass = "BUILD" /\ Built(Len(LiveTags))
  <2>1. ~writable /\ active' = (map # << >>) /\ pc' = "idle"
    BY <1>2, <1>5 DEF PassOK, FinishReplay
  <2>2. Memory' /\ Sequence'
    BY <1>3, <2>1 DEF Memory, Sequence, CkptPC, Inv
  <2>3. Committing' /\ Walking' /\ Flushing'
    BY <2>1 DEF Committing, Walking, Flushing
  <2>4. ASSUME NEW b \in FsBlock
        PROVE  Mask(ReadView(b)') = CommittedStore'[b]
    <3>1. CommittedStore' = CommittedStore
      BY StoreKept DEF Inv, Shape, TypeOK, disk
    <3>2. Hits(b)' = Hits(b) /\ FirstHit(b)' = FirstHit(b)
      BY <1>3 DEF Hits, FirstHit
    <3>3. map = << >> => Hits(b) = {}
      BY DEF Hits
    <3>4. ReadView(b)' = IF Hits(b) # {}
                         THEN Restore(log[map[FirstHit(b)].jblk].data, map[FirstHit(b)].esc)
                         ELSE home[b]
      BY <1>3, <2>1, <3>2, <3>3 DEF ReadView, disk
    <3>5. Mask(ReadView(b)') = CommittedStore[b]
      BY <1>5, <3>4, BuiltReads, WalkFacts
    <3> QED BY <3>1, <3>5
  <2>5. Reading'
    BY <2>4 DEF Reading
  <2> QED BY <1>1, <2>2, <2>3, <2>5 DEF Inv
<1> QED BY <1>4, <1>5

(* What a pass must have found when it comes to an end.                    *)
Complete(w) ==
  /\ w.pass = walk.pass
  /\ w.pass = "SCAN" => (w.end = seq + 1 \/ (w.end = seq + 2 /\ StaleCommit))
  /\ w.pass = "FLUSH" => Home(Len(LiveTags))
  /\ w.pass = "BUILD" => Built(Len(LiveTags))
  /\ w.end = walk.end \/ w.pass = "SCAN"

(* The end of a pass: the next one starts, or the replay is over.          *)
LEMMA EndPassInv ==
  ASSUME Inv, pc \in {"walk", "tags"}, NEW w \in WalkState, Complete(w), EndPass(w),
         revoked' = NoRevokes, UNCHANGED disk
  PROVE  Inv'
<1> DEFINE Again(pass, end) ==
      /\ walk' = StartPass(pass, start, seq, end)
      /\ pc' = "walk"
      /\ UNCHANGED <<writable, start, seq, rec, active, map, txn, idx, reply>>
<1>1. Shape'
  <2>1. NoRevokes \in [FsBlock -> SeqNo \cup {NoSeq}]
    BY WalkTypes
  <2> QED BY <2>1, EndPassShape DEF Inv
<1>2. PassOK(walk) /\ revoked = NoRevokes
  BY DEF Inv, Walking
<1>3. /\ seq \in 0 .. MaxSeq /\ MaxSeq \in Nat /\ start = First
  BY WalkFacts
<1>4. StaleCommit' = StaleCommit
  <2>1. seq' = seq
    BY DEF EndPass, FinishReplay
  <2> QED BY <2>1, LiveSame DEF StaleCommit, disk
<1>5. ASSUME NEW pass \in {"REVOKE", "FLUSH", "BUILD"}, NEW end, Again(pass, end),
             pass = "FLUSH" => writable, pass = "BUILD" => ~writable,
             end = seq \/ (end = seq + 1 /\ StaleCommit), map = << >>
      PROVE  Inv'
  <2>1. walk' = [pass |-> pass, blk |-> start, seq |-> seq, end |-> end,
                 desc |-> First, k |-> 0, n |-> 0]
    BY <1>5 DEF StartPass
  <2>2. pc' = "walk" /\ UNCHANGED <<writable, start, seq, active, map, txn>>
    BY <1>5
  <2>3. AtFirst'
    BY <1>3, <1>5, <2>1, <2>2 DEF AtFirst
  <2>4. PassOK(walk)'
    BY <1>4, <1>5, <2>1, <2>2 DEF PassOK
  <2>5. Walking'
    BY <2>2, <2>3, <2>4 DEF Walking
  <2> QED BY <1>1, <1>2, <2>2, <2>5, WithinPass
<1>6. CASE w.pass = "SCAN"
  <2>1. w.end \in 0 .. MaxSeq + 2 /\ seq \in 0 .. MaxSeq + 2 /\ w.end > seq
    BY <1>3, <1>6 DEF Complete
  <2>2. LastSeq(w) = w.end - 1
    BY <1>3, <2>1, SeqArith DEF LastSeq
  <2>3. LastSeq(w) = seq \/ (LastSeq(w) = seq + 1 /\ StaleCommit)
    BY <1>3, <1>6, <2>2 DEF Complete
  <2>4. LastSeq(w) \in 0 .. MaxSeq + 2
    BY <1>3, <2>3
  <2>5. SeqDiff(LastSeq(w), seq) >= 0
    BY <1>3, <2>1, <2>3, <2>4, SeqArith
  <2>6. Again("REVOKE", LastSeq(w))
    BY <1>6, <2>4, <2>5, <1>3, SeqArith DEF EndPass
  <2>7. map = << >>
    BY <1>2, <1>6 DEF Complete, PassOK
  <2> HIDE DEF Again
  <2> QED BY <1>5, <2>3, <2>6, <2>7
<1>7. CASE w.pass = "REVOKE"
  <2>1. Again(IF writable THEN "FLUSH" ELSE "BUILD", w.end)
    BY <1>7 DEF EndPass
  <2>2. map = << >> /\ (w.end = seq \/ (w.end = seq + 1 /\ StaleCommit))
    BY <1>2, <1>7 DEF Complete, PassOK
  <2>3. writable \in BOOLEAN
    BY DEF Inv, Shape, TypeOK
  <2>4. CASE writable
    <3>1. Again("FLUSH", w.end)
      BY <2>1, <2>4
    <3> HIDE DEF Again
    <3> QED BY <1>5, <2>2, <2>4, <3>1
  <2>5. CASE ~writable
    <3>1. Again("BUILD", w.end)
      BY <2>1, <2>5
    <3> HIDE DEF Again
    <3> QED BY <1>5, <2>2, <2>5, <3>1
  <2> QED BY <2>4, <2>5
<1>8. CASE w.pass \in {"FLUSH", "BUILD"}
  <2>1. FinishReplay
    BY <1>8 DEF EndPass
  <2> QED BY <1>8, <2>1, FinishInv DEF Complete
<1> QED BY <1>6, <1>7, <1>8 DEF WalkState, Pass

(* Where a walk can be when it steps over a block of the live transaction, *)
(* or of what can follow it.                                               *)
Stepping(w) ==
  /\ PassOK(w) /\ w.pass = walk.pass
  /\ w.end = walk.end \/ w.pass = "SCAN"
  /\ w.pass = "FLUSH" => Home(Len(LiveTags))
  /\ w.pass = "BUILD" => Built(Len(LiveTags))
  /\ \/ /\ w.blk = First + Len(LiveTags) /\ w.seq = seq /\ w.n = 0
        /\ w.pass = "SCAN" => w.end = 0
     \/ /\ w.blk = LiveEnd /\ w.seq = seq + 1 /\ w.n = 1
        /\ w.pass = "SCAN" => w.end = w.seq
     \/ /\ w.blk = LiveEnd + 1 /\ w.seq = seq + 2 /\ w.n = 2 /\ StaleCommit
        /\ w.pass = "SCAN" => w.end = w.seq

(* Stepping over such a block, wherever that leads, preserves the          *)
(* invariant.                                                              *)
LEMMA StepOverInv ==
  ASSUME Inv, pc \in {"walk", "tags"}, NEW w \in WalkState, Stepping(w),
         StepOver(w, NoRevokes), UNCHANGED disk
  PROVE  Inv'
<1> DEFINE p == NextPos(w.blk)
           v == [w EXCEPT !.blk = p, !.n = Visited(w)]
<1>1. Shape'
  BY WalkTypes, StepOverShape DEF Inv
<1>2. /\ seq \in 0 .. MaxSeq /\ MaxSeq \in Nat /\ start = First /\ First \in Nat
      /\ Len(LiveTags) \in Nat /\ LiveEnd = First + Len(LiveTags) + 1
      /\ LiveEnd \in LogPos /\ MaxLen \in Nat /\ First # 0 /\ revoked = NoRevokes
  BY WalkFacts, LiveFacts, FormatAssumption DEF Inv, LiveEnd
<1>3. v \in WalkState /\ v.pass = w.pass /\ v.end = w.end /\ v.seq = w.seq /\ v.blk = p
      /\ v.n = w.n + 1 /\ p \in LogPos
  <2>1. p \in LogPos /\ Visited(w) \in Nat
    BY NextPosType DEF WalkState, Visited
  <2> QED BY <2>1 DEF WalkState, Visited
<1>4. w.n \in 0 .. 2 /\ v.n <= MaxLen + 4 /\ ~(v.n > MaxLen + 4)
  BY <1>2, <1>3 DEF Stepping
<1>5. p = IF w.blk + 1 >= MaxLen THEN First ELSE w.blk + 1
  BY DEF NextPos, Wrap
<1>6. CASE p = start
  <2>1. EndPass(v) /\ revoked' = NoRevokes
    BY <1>4, <1>6 DEF StepOver
  <2>2. w.blk # First + Len(LiveTags)
    BY <1>2, <1>5, <1>6 DEF LogPos
  <2>3. Complete(v)
    BY <1>2, <1>3, <2>2 DEF Stepping, Complete
  <2> HIDE DEF v
  <2> QED BY <1>3, <2>1, <2>3, EndPassInv
<1>7. CASE p # start
  <2>1. pc' = "walk" /\ walk' = v /\ revoked' = NoRevokes
        /\ UNCHANGED <<writable, start, seq, rec, active, map, txn, idx, reply>>
    BY <1>4, <1>7 DEF StepOver
  <2>2. p = w.blk + 1
    BY <1>2, <1>5, <1>7
  <2>3. /\ StaleCommit' = StaleCommit /\ LiveEnd' = LiveEnd /\ LiveTags' = LiveTags
        /\ Home(Len(LiveTags)) => Home(Len(LiveTags))'
        /\ Built(Len(LiveTags)) => Built(Len(LiveTags))'
    BY <2>1, LiveSame DEF StaleCommit, disk, Home, Built, LastCopy
  <2> HIDE DEF v
  <2>4. PassOK(walk)'
    BY <1>3, <2>1, <2>3 DEF PassOK, Stepping
  <2>5. CASE /\ w.blk = First + Len(LiveTags) /\ w.seq = seq /\ w.n = 0
             /\ w.pass = "SCAN" => w.end = 0
    <3>1. AtCommit'
      BY <1>2, <1>3, <2>1, <2>2, <2>3, <2>5 DEF AtCommit, Stepping
    <3> QED BY <2>1, <2>4, <3>1, <1>1, <1>2, WithinPass DEF Walking
  <2>6. CASE /\ w.blk = LiveEnd /\ w.seq = seq + 1 /\ w.n = 1
             /\ w.pass = "SCAN" => w.end = w.seq
    <3>1. Beyond'
      BY <1>2, <1>3, <2>1, <2>2, <2>3, <2>6 DEF Beyond, Through, Stepping
    <3> QED BY <2>1, <2>4, <3>1, <1>1, <1>2, WithinPass DEF Walking
  <2>7. CASE /\ w.blk = LiveEnd + 1 /\ w.seq = seq + 2 /\ w.n = 2 /\ StaleCommit
             /\ w.pass = "SCAN" => w.end = w.seq
    <3>1. Beyond'
      BY <1>2, <1>3, <1>7, <2>1, <2>2, <2>3, <2>7 DEF Beyond, Through, Stepping
    <3> QED BY <2>1, <2>4, <3>1, <1>1, <1>2, WithinPass DEF Walking
  <2> QED BY <2>5, <2>6, <2>7 DEF Stepping
<1> QED BY <1>6, <1>7

(* What the walk reads at each of its places.                              *)
LEMMA HeaderFacts ==
  ASSUME Inv, pc = "walk"
  PROVE  /\ AtFirst  => Header = DescriptorBlock(seq, LiveTags)
         /\ AtCommit => Header = CommitBlock(seq)
         /\ Beyond   => /\ walk.blk \in LogPos /\ walk.blk # First
                        /\ Header.kind # "descriptor" \/ Header.seq # walk.seq
                        /\ Header.kind # "revoke" \/ Header.seq # walk.seq
                        /\ Header.kind = "commit" /\ Header.seq = walk.seq =>
                             walk.seq = seq + 1 /\ walk.n = 2 /\ walk.blk = LiveEnd + 1
         /\ ~HasMagic(Header) => Header.kind = "data"
<1>1. /\ jStart # 0 /\ seq = jSeq /\ seq \in Nat /\ LiveEnd \in Nat /\ First \in Nat
      /\ walk \in WalkState /\ LiveEnd = First + Len(LiveTags) + 1 /\ Len(LiveTags) \in Nat
  BY WalkFacts, JournalAssumption DEF LiveEnd
<1>2. AtFirst => Header = DescriptorBlock(seq, LiveTags)
  BY <1>1, LiveFacts DEF AtFirst, Header, Inv
<1>3. AtCommit => Header = CommitBlock(seq)
  BY <1>1, LiveFacts DEF AtCommit, Header, Inv
<1>4. ASSUME Beyond
      PROVE  /\ walk.blk \in LogPos /\ walk.blk # First
             /\ Header.kind # "descriptor" \/ Header.seq # walk.seq
             /\ Header.kind # "revoke" \/ Header.seq # walk.seq
             /\ Header.kind = "commit" /\ Header.seq = walk.seq =>
                  walk.seq = seq + 1 /\ walk.n = 2 /\ walk.blk = LiveEnd + 1
  <2>1. walk.blk \in LogPos
    BY <1>1 DEF WalkState
  <2>2. walk.blk # First
    BY <1>1, <1>4 DEF Beyond
  <2>3. log[walk.blk].seq \in Int
    BY <2>1 DEF Inv, Shape, TypeOK, LogBlock, SeqNo
  <2>4. log[walk.blk].kind \in {"descriptor", "revoke"} => log[walk.blk].seq < seq
    BY <1>1, <2>1, <2>2 DEF Inv, Stale
  <2>5. log[walk.blk].kind = "commit" => log[walk.blk].seq <= seq + 1
    BY <1>1, <2>1 DEF Inv, Stale
  <2> QED BY <1>1, <1>4, <2>1, <2>2, <2>3, <2>4, <2>5 DEF Beyond, Header
<1>5. ~HasMagic(Header) => Header.kind = "data"
  BY DEF HasMagic
<1> QED BY <1>2, <1>3, <1>4, <1>5

(* The headers of the live transaction are what the walk expects there.    *)
LEMMA OwnHeaders ==
  ASSUME Inv, pc = "walk", AtFirst \/ AtCommit
  PROVE  /\ ~PastLast /\ HasMagic(Header) /\ Expected /\ Verifies(Header)
         /\ walk.seq = seq
<1>1. /\ Header.kind # "data" /\ Header.seq = seq /\ Header.ok /\ walk.seq = seq
  BY HeaderFacts DEF DescriptorBlock, CommitBlock, AtFirst, AtCommit
<1>2. ~PastLast
  <2> SUFFICES ASSUME walk.pass # "SCAN" PROVE ~(SeqDiff(walk.seq, walk.end) > 0)
    BY DEF PastLast
  <2>1. seq \in 0 .. MaxSeq /\ MaxSeq \in Nat
    BY WalkFacts
  <2>2. walk.end \in 0 .. MaxSeq + 2 /\ walk.end >= seq /\ seq \in 0 .. MaxSeq + 2
    BY <2>1 DEF Inv, Walking, PassOK
  <2> QED BY <1>1, <2>2, SeqArith
<1> QED BY <1>1, <1>2 DEF HasMagic, Expected, Verifies

(* An iteration of walk_log's loop preserves the invariant.                *)
LEMMA WalkInv ==
  ASSUME Inv, Walk
  PROVE  Inv'
<1>1. pc = "walk" /\ UNCHANGED disk
  BY DEF Walk, WalkStop, WalkMismatch, WalkCommit, WalkRevoke, WalkDescriptor
<1>2. /\ jStart # 0 /\ seq = jSeq /\ seq \in 0 .. MaxSeq /\ MaxSeq \in Nat /\ walk \in WalkState
      /\ revoked = NoRevokes /\ start = First /\ First \in Nat /\ LiveEnd \in Nat
  BY <1>1, WalkFacts
<1>3. /\ PassOK(walk) /\ (AtFirst \/ AtCommit \/ Beyond)
      /\ Shape'
  BY <1>1, WalkShape DEF Inv, Walking
<1>4. AtFirst \/ AtCommit =>
        /\ ~PastLast /\ HasMagic(Header) /\ Expected /\ Verifies(Header)
        /\ walk.seq = seq
  BY <1>1, OwnHeaders
<1>5. CASE WalkStop
  <2>1. EndPass(walk) /\ revoked' = NoRevokes
    BY <1>2, <1>5 DEF WalkStop
  <2>2. ~(AtFirst \/ AtCommit)
    BY <1>4, <1>5 DEF WalkStop
  <2>3. Complete(walk)
    BY <1>2, <1>3, <2>2 DEF Complete, Beyond, Through
  <2> QED BY <1>1, <1>2, <2>1, <2>3, EndPassInv
<1>6. CASE WalkMismatch
  BY <1>6, RefuseInv DEF WalkMismatch, disk, Inv, Shape, TypeOK
<1>7. CASE WalkCommit
  <2> DEFINE s == SeqInc(walk.seq)
             w == [walk EXCEPT !.seq = s, !.end = IF walk.pass = "SCAN" THEN s ELSE @]
  <2>1. StepOver(w, NoRevokes) /\ Header.kind = "commit" /\ Header.seq = walk.seq /\ Verifies(Header)
    BY <1>2, <1>7 DEF WalkCommit, Expected
  <2>2. ~AtFirst
    BY <1>1, <2>1, HeaderFacts DEF DescriptorBlock
  <2>3. walk.seq \in 0 .. MaxSeq + 1
    BY <1>1, <1>2, <1>3, <2>1, <2>2, HeaderFacts DEF AtCommit
  <2>4. s = walk.seq + 1 /\ s \in SeqNo
    <3>1. s = walk.seq + 1
      BY <1>2, <2>3, SeqArith
    <3> QED BY <1>2, <2>3, <3>1, SeqType DEF WalkState
  <2>5. /\ w \in WalkState /\ w.pass = walk.pass /\ w.blk = walk.blk /\ w.seq = walk.seq + 1
        /\ w.n = walk.n
        /\ w.end = IF walk.pass = "SCAN" THEN walk.seq + 1 ELSE walk.end
    BY <1>2, <2>4 DEF WalkState
  <2> HIDE DEF w
  <2>6. PassOK(w)
    BY <1>3, <2>5 DEF PassOK
  <2>7. CASE AtCommit
    <3>1. Stepping(w)
      BY <1>2, <2>5, <2>6, <2>7 DEF Stepping, AtCommit
    <3> QED BY <1>1, <2>1, <2>5, <3>1, StepOverInv
  <2>8. CASE Beyond
    <3>1. walk.seq = seq + 1 /\ walk.n = 2 /\ walk.blk = LiveEnd + 1
      BY <1>1, <2>1, <2>8, HeaderFacts
    <3>2. StaleCommit
      <4>1. walk.blk \in LogPos /\ MaxLen \in Int
        BY <1>2, FormatAssumption DEF WalkState
      <4> QED BY <1>2, <2>1, <3>1, <4>1 DEF StaleCommit, Header, LogPos
    <3>3. Stepping(w)
      BY <1>2, <2>5, <2>6, <2>8, <3>1, <3>2 DEF Stepping, Beyond, Through
    <3> QED BY <1>1, <2>1, <2>5, <3>3, StepOverInv
  <2> QED BY <1>3, <2>2, <2>7, <2>8
<1>8. CASE WalkRevoke
  <2>1. Header.kind = "revoke" /\ Header.seq = walk.seq
    BY <1>8 DEF WalkRevoke, Expected
  <2>2. FALSE
    BY <1>1, <1>3, <2>1, HeaderFacts DEF DescriptorBlock, CommitBlock
  <2> QED BY <2>2
<1>9. CASE WalkDescriptor
  <2>1. Header.kind = "descriptor" /\ Header.seq = walk.seq
    BY <1>9 DEF WalkDescriptor, Expected
  <2>2. AtFirst
    BY <1>1, <1>3, <2>1, HeaderFacts DEF CommitBlock
  <2>3. pc' = "tags" /\ walk' = [walk EXCEPT !.desc = walk.blk, !.k = 0]
        /\ UNCHANGED <<writable, start, seq, active, map, revoked, txn>>
    BY <1>9 DEF WalkDescriptor
  <2>4. /\ walk'.pass = walk.pass /\ walk'.blk = First /\ walk'.seq = seq /\ walk'.n = 0
        /\ walk'.end = walk.end /\ walk'.desc = First /\ walk'.k = 0
    BY <1>2, <2>2, <2>3 DEF AtFirst, WalkState
  <2>5. LiveTags' = LiveTags /\ StaleCommit' = StaleCommit
    BY <1>1, <2>3, LiveSame DEF disk, StaleCommit
  <2>6. Len(LiveTags) \in Nat /\ map' = << >>
    BY <1>1, <2>2, <2>3, WalkFacts DEF AtFirst
  <2>7. AtTags'
    BY <1>2, <2>2, <2>4, <2>5, <2>6, <2>3 DEF AtTags, AtFirst, Home, Built
  <2>8. PassOK(walk)'
    BY <1>3, <2>3, <2>4, <2>5 DEF PassOK
  <2>9. Walking'
    BY <1>2, <2>3, <2>7, <2>8 DEF Walking
  <2> QED BY <1>1, <1>3, <2>3, <2>9, WithinPass
<1> QED BY <1>5, <1>6, <1>7, <1>8, <1>9 DEF Walk

(***************************************************************************)
(* The tags of a descriptor.                                               *)
(***************************************************************************)
(* What iterate_descriptor_tags is at.                                     *)
LEMMA TagFacts ==
  ASSUME Inv, AtTag
  PROVE  /\ pc = "tags" /\ AtTags /\ PassOK(walk)
         /\ Tags = LiveTags /\ walk.k \in Nat /\ walk.k + 1 \in 1 .. Len(LiveTags)
         /\ CurTag = LiveTags[walk.k + 1] /\ TagPos = First + (walk.k + 1)
         /\ CurTag.blk \in FsBlock /\ CurTag.esc \in BOOLEAN
         /\ TagVerifies(CurTag, walk.seq, TagData)
         /\ TagData \in Content
         /\ Mask(Restore(TagData, CurTag.esc)) = LiveWrites[walk.k + 1].val
         /\ Writes(LiveWrites, CurTag.blk)
         /\ Applies <=> walk.pass \in {"FLUSH", "BUILD"}
<1>1. pc = "tags" /\ AtTags /\ PassOK(walk)
  BY DEF AtTag, Inv, Walking
<1>2. /\ jStart # 0 /\ seq = jSeq /\ revoked = NoRevokes /\ walk \in WalkState
      /\ Len(LiveTags) \in Nat /\ LiveEnd = First + Len(LiveTags) + 1 /\ First \in Nat
      /\ LiveEnd \in LogPos /\ MaxLen \in Nat
  BY <1>1, WalkFacts, LiveFacts, FormatAssumption DEF LiveEnd, Inv
<1>3. Tags = LiveTags /\ walk.k \in Nat /\ walk.k + 1 \in 1 .. Len(LiveTags)
  <2>1. Tags = LiveTags
    BY <1>1, <1>2, LiveFacts DEF Tags, AtTags, Inv
  <2> QED BY <1>2, <2>1 DEF AtTag, WalkState
<1>4. CurTag = LiveTags[walk.k + 1] /\ TagPos = First + (walk.k + 1)
  BY <1>1, <1>2, <1>3 DEF CurTag, TagPos, NextPos, Wrap, AtTags, LogPos
<1>5. /\ CurTag.blk \in FsBlock /\ CurTag.esc \in BOOLEAN
      /\ CurTag.sum = <<seq, TagData>>
      /\ LiveWrites[walk.k + 1].blk = CurTag.blk
      /\ LiveWrites[walk.k + 1].val = Mask(Restore(TagData, CurTag.esc))
      /\ walk.k + 1 \in DOMAIN LiveWrites /\ TagPos \in LogPos
  <2>1. TagData = log[First + (walk.k + 1)].data
    BY <1>4 DEF TagData
  <2> QED BY <1>2, <1>3, <1>4, <2>1, LiveFacts DEF Inv
<1>6. TagVerifies(CurTag, walk.seq, TagData)
  BY <1>1, <1>5 DEF TagVerifies, AtTags
<1>7. TagData \in Content
  BY <1>5 DEF TagData, Inv, Shape, TypeOK, LogBlock
<1>8. Applies <=> walk.pass \in {"FLUSH", "BUILD"}
  <2>1. ~IsRevoked(CurTag.blk, walk.seq)
    BY <1>2, <1>5 DEF IsRevoked, NoRevokes
  <2> QED BY <2>1 DEF Applies
<1>9. Writes(LiveWrites, CurTag.blk)
  BY <1>5 DEF Writes
<1> QED BY <1>1, <1>3, <1>4, <1>5, <1>6, <1>7, <1>8, <1>9

(* A step to the next tag, once what a replay has done by then is known.   *)
LEMMA TagStepInv ==
  ASSUME Inv, Shape', AtTag, TagStep, NEW n \in Nat, n = walk.k + 1,
         walk.pass = "FLUSH" => Home(n)',
         walk.pass = "BUILD" => Built(n)',
         walk.pass # "BUILD" => map' = map
  PROVE  Inv'
<1>1. /\ AtTags /\ PassOK(walk) /\ walk.k \in Nat /\ walk.k + 1 \in 1 .. Len(LiveTags)
      /\ TagPos = First + (walk.k + 1) /\ First \in Nat /\ pc = "tags"
      /\ Len(LiveTags) \in Nat
  BY TagFacts, WalkFacts
<1>2. walk' = [walk EXCEPT !.blk = TagPos, !.k = walk.k + 1]
      /\ UNCHANGED <<log, jStart, jSeq, pc, writable, start, seq, active, revoked, txn>>
  BY DEF TagStep
<1>3. /\ walk'.pass = walk.pass /\ walk'.blk = First + (walk.k + 1) /\ walk'.seq = walk.seq
      /\ walk'.n = walk.n /\ walk'.end = walk.end /\ walk'.desc = walk.desc
      /\ walk'.k = walk.k + 1
  BY <1>1, <1>2, WalkFacts DEF WalkState
<1>4. LiveTags' = LiveTags /\ StaleCommit' = StaleCommit
  BY <1>2, LiveSame DEF StaleCommit
<1>5. AtTags'
  <2>1. walk'.k = n
    BY <1>3
  <2>2. walk'.pass = "FLUSH" => Home(walk.k)'
    BY <1>3, <2>1 DEF Home
  <2>3. walk'.pass = "BUILD" => Built(walk.k)'
    BY <1>3, <2>1 DEF Built, LastCopy
  <2> QED BY <1>1, <1>2, <1>3, <1>4, <2>2, <2>3 DEF AtTags
<1>6. PassOK(walk)'
  BY <1>1, <1>2, <1>3, <1>4 DEF PassOK
<1>7. Walking'
  BY <1>1, <1>2, <1>5, <1>6, WalkFacts DEF Walking
<1>8. Stale' /\ Live'
  BY <1>2, LogKept DEF Inv
<1>9. Memory' /\ Sequence'
  BY <1>1, <1>2, WalkFacts DEF Memory, Sequence, CkptPC, Inv
<1>10. Committing' /\ Flushing' /\ Reading'
  BY <1>1, <1>2 DEF Committing, Flushing, Reading, CkptPC
<1> QED BY <1>7, <1>8, <1>9, <1>10 DEF Inv

(* The first n + 1 live writes are home once the first n are and the next  *)
(* one has been written.                                                   *)
LEMMA HomeNext ==
  ASSUME Inv, jStart # 0, NEW n \in Nat, n + 1 \in 1 .. Len(LiveTags), Home(n),
         UNCHANGED <<log, jStart>>,
         NEW c, Mask(c) = LiveWrites[n + 1].val,
         home' = [home EXCEPT ![LiveTags[n + 1].blk] = c]
  PROVE  Home(n + 1)'
<1>1. LiveTags' = LiveTags /\ LiveWrites' = LiveWrites
  BY LiveSame
<1>2. \A k \in 1 .. Len(LiveTags) : LiveTags[k].blk \in DOMAIN home
  BY LiveFacts DEF Inv, Shape, TypeOK
<1>3. ASSUME NEW k \in 1 .. n + 1,
             \A m \in k + 1 .. n + 1 : LiveTags[m].blk # LiveTags[k].blk
      PROVE  Mask(home'[LiveTags[k].blk]) = LiveWrites[k].val
  <2>1. k \in 1 .. Len(LiveTags) /\ Len(LiveTags) \in Nat
    BY LiveFacts DEF Inv
  <2>2. CASE k = n + 1
    BY <1>2, <2>1, <2>2
  <2>3. CASE k # n + 1
    <3>1. k \in 1 .. n /\ LiveTags[n + 1].blk # LiveTags[k].blk
      BY <1>3, <2>3
    <3>2. \A m \in k + 1 .. n : LiveTags[m].blk # LiveTags[k].blk
      BY <1>3
    <3>3. Mask(home[LiveTags[k].blk]) = LiveWrites[k].val
      BY <3>1, <3>2 DEF Home
    <3> QED BY <1>2, <2>1, <3>1, <3>3
  <2> QED BY <2>2, <2>3
<1> QED BY <1>1, <1>3 DEF Home

(* What replay_upsert leaves in the map: the new entry, and every other    *)
(* block's.                                                                *)
LEMMA UpsertShows ==
  ASSUME NEW m \in Seq(MapEntry), NEW e
  PROVE  /\ Len(Upsert(m, e)) <= Len(m) + 1
         /\ \A i \in DOMAIN Upsert(m, e) :
              \/ Upsert(m, e)[i] = e
              \/ \E j \in DOMAIN m : Upsert(m, e)[i] = m[j] /\ m[j].blk # e.blk
         /\ \E i \in DOMAIN Upsert(m, e) : Upsert(m, e)[i] = e
         /\ \A j \in DOMAIN m :
              m[j].blk # e.blk => \E i \in DOMAIN Upsert(m, e) : Upsert(m, e)[i] = m[j]
<1> DEFINE u == Upsert(m, e)
<1>1. Len(m) \in Nat /\ DOMAIN m = 1 .. Len(m)
  OBVIOUS
<1>2. CASE \E k \in DOMAIN m : m[k].blk = e.blk
  <2>1. u = [k \in DOMAIN m |-> IF m[k].blk = e.blk THEN e ELSE m[k]]
    BY <1>2 DEF Upsert
  <2>2. DOMAIN u = DOMAIN m /\ Len(u) = Len(m)
    BY <2>1
  <2>3. \A k \in DOMAIN m : u[k] = IF m[k].blk = e.blk THEN e ELSE m[k]
    BY <2>1
  <2> HIDE DEF u
  <2>4. \A i \in DOMAIN u : u[i] = e \/ (\E j \in DOMAIN m : u[i] = m[j] /\ m[j].blk # e.blk)
    BY <2>2, <2>3
  <2>5. \E i \in DOMAIN u : u[i] = e
    BY <1>2, <2>2, <2>3
  <2>6. \A j \in DOMAIN m : m[j].blk # e.blk => \E i \in DOMAIN u : u[i] = m[j]
    BY <2>2, <2>3
  <2> QED BY <1>1, <2>2, <2>4, <2>5, <2>6 DEF u
<1>3. CASE ~(\E k \in DOMAIN m : m[k].blk = e.blk)
  <2>1. u = Append(m, e)
    BY <1>3 DEF Upsert
  <2>2. /\ DOMAIN u = 1 .. Len(m) + 1 /\ Len(u) = Len(m) + 1
        /\ \A i \in 1 .. Len(m) : u[i] = m[i]
        /\ u[Len(m) + 1] = e
    BY <2>1
  <2> HIDE DEF u
  <2>3. \A i \in DOMAIN u : u[i] = e \/ (\E j \in DOMAIN m : u[i] = m[j] /\ m[j].blk # e.blk)
    <3> TAKE i \in DOMAIN u
    <3>1. i = Len(m) + 1 \/ i \in 1 .. Len(m)
      BY <1>1, <2>2
    <3> QED BY <1>1, <1>3, <2>2, <3>1
  <2>4. \E i \in DOMAIN u : u[i] = e
    BY <1>1, <2>2
  <2>5. \A j \in DOMAIN m : m[j].blk # e.blk => \E i \in DOMAIN u : u[i] = m[j]
    BY <1>1, <2>2
  <2> QED BY <1>1, <2>2, <2>3, <2>4, <2>5 DEF u
<1> QED BY <1>2, <1>3

(* The map of the first n tags, with the next one added, is the map of the *)
(* first n + 1.                                                            *)
LEMMA BuiltNext ==
  ASSUME Inv, jStart # 0, NEW n \in Nat, n + 1 \in 1 .. Len(LiveTags), Built(n),
         UNCHANGED <<log, jStart>>,
         map' = Upsert(map, [blk |-> LiveTags[n + 1].blk, jblk |-> First + (n + 1),
                             esc |-> LiveTags[n + 1].esc])
  PROVE  Built(n + 1)'
<1> DEFINE e == [blk |-> LiveTags[n + 1].blk, jblk |-> First + (n + 1),
                 esc |-> LiveTags[n + 1].esc]
<1>1. LiveTags' = LiveTags
  BY LiveSame
<1>2. map \in Seq(MapEntry) /\ map' = Upsert(map, e) /\ e.blk = LiveTags[n + 1].blk
  BY DEF Inv, Shape, TypeOK
<1>3. LastCopy(e, n + 1)
  BY DEF LastCopy
<1>4. ASSUME NEW x, LastCopy(x, n), x.blk # e.blk PROVE LastCopy(x, n + 1)
  <2>1. PICK k \in 1 .. n :
          /\ x = [blk |-> LiveTags[k].blk, jblk |-> First + k, esc |-> LiveTags[k].esc]
          /\ \A m \in k + 1 .. n : LiveTags[m].blk # LiveTags[k].blk
    BY <1>4 DEF LastCopy
  <2>2. LiveTags[n + 1].blk # LiveTags[k].blk
    BY <1>2, <1>4, <2>1
  <2>3. \A m \in k + 1 .. n + 1 : LiveTags[m].blk # LiveTags[k].blk
    BY <2>1, <2>2
  <2> QED BY <2>1, <2>3 DEF LastCopy
<1>5. Len(map') \in Nat
  <2>1. e \in MapEntry
    BY LiveFacts DEF MapEntry, Inv
  <2> QED BY <1>2, <2>1, UpsertType
<1> HIDE DEF e
<1>6. Len(map') <= n + 1
  <2>1. Len(map) <= n /\ Len(map') <= Len(map) + 1 /\ Len(map) \in Nat
    BY <1>2, UpsertShows DEF Built
  <2> QED BY <1>5, <2>1
<1>7. \A i \in DOMAIN map' : LastCopy(map'[i], n + 1)
  <2> TAKE i \in DOMAIN map'
  <2>1. map'[i] = e \/ \E j \in DOMAIN map : map'[i] = map[j] /\ map[j].blk # e.blk
    <3>1. \A k \in DOMAIN Upsert(map, e) :
            \/ Upsert(map, e)[k] = e
            \/ \E j \in DOMAIN map : Upsert(map, e)[k] = map[j] /\ map[j].blk # e.blk
      BY <1>2, UpsertShows
    <3> QED BY <1>2, <3>1
  <2>2. CASE map'[i] = e
    BY <1>3, <2>2
  <2>3. CASE \E j \in DOMAIN map : map'[i] = map[j] /\ map[j].blk # e.blk
    <3>1. PICK j \in DOMAIN map : map'[i] = map[j] /\ map[j].blk # e.blk
      BY <2>3
    <3>2. LastCopy(map[j], n)
      BY DEF Built
    <3> QED BY <1>4, <3>1, <3>2
  <2> QED BY <2>1, <2>2, <2>3
<1>8. \A k \in 1 .. n + 1 : \E i \in DOMAIN map' : map'[i].blk = LiveTags[k].blk
  <2> TAKE k \in 1 .. n + 1
  <2>1. CASE LiveTags[k].blk = e.blk
    <3>1. \E i \in DOMAIN map' : map'[i] = e
      BY <1>2, UpsertShows
    <3> QED BY <2>1, <3>1
  <2>2. CASE LiveTags[k].blk # e.blk
    <3>1. k \in 1 .. n
      BY <1>2, <2>2
    <3>2. PICK j \in DOMAIN map : map[j].blk = LiveTags[k].blk
      BY <3>1 DEF Built
    <3>3. map[j].blk # e.blk
      BY <2>2, <3>2
    <3>4. \E i \in DOMAIN map' : map'[i] = map[j]
      BY <1>2, <3>2, <3>3, UpsertShows
    <3> QED BY <3>2, <3>4
  <2> QED BY <2>1, <2>2
<1>9. \A i \in DOMAIN map' : LastCopy(map[i], n + 1)'
  <2> TAKE i \in DOMAIN map'
  <2>1. LastCopy(map'[i], n + 1)
    BY <1>7
  <2> QED BY <1>1, <2>1 DEF LastCopy
<1> QED BY <1>1, <1>6, <1>8, <1>9 DEF Built

(* A tag of a descriptor preserves the invariant.                          *)
LEMMA TagInv ==
  ASSUME Inv, TagNext
  PROVE  Inv'
<1>1. Shape'
  BY TagShape DEF Inv
<1>2. CASE AtTag
  <2>1. /\ pc = "tags" /\ AtTags /\ PassOK(walk) /\ walk.k \in Nat
        /\ walk.k + 1 \in 1 .. Len(LiveTags)
        /\ CurTag = LiveTags[walk.k + 1] /\ TagPos = First + (walk.k + 1)
        /\ Applies <=> walk.pass \in {"FLUSH", "BUILD"}
    BY <1>2, TagFacts
  <2>2. PICK n \in Nat : n = walk.k
    BY <2>1
  <2>3. jStart # 0
    BY <2>1, WalkFacts
  <2>4. CASE TagSkip
    <3>1. walk.pass \notin {"FLUSH", "BUILD"} /\ map' = map /\ TagStep
      BY <2>1, <2>4 DEF TagSkip
    <3> QED BY <1>1, <1>2, <2>2, <3>1, TagStepInv
  <2>5. CASE TagFlush
    <3>1. walk.pass = "FLUSH" /\ map' = map /\ TagStep
          /\ home' = [home EXCEPT ![LiveTags[n + 1].blk] = Restore(TagData, CurTag.esc)]
      BY <2>1, <2>2, <2>5 DEF TagFlush
    <3>2. Home(n)
      BY <2>1, <2>2, <3>1 DEF AtTags
    <3>3. Mask(Restore(TagData, CurTag.esc)) = LiveWrites[n + 1].val
      BY <1>2, <2>2, TagFacts
    <3>4. UNCHANGED <<log, jStart>>
      BY <3>1 DEF TagStep
    <3>5. Home(n + 1)'
      BY <2>1, <2>2, <2>3, <3>1, <3>2, <3>3, <3>4, HomeNext
    <3>6. PICK m \in Nat : m = n + 1
      OBVIOUS
    <3>7. Home(m)'
      BY <3>5, <3>6
    <3> QED BY <1>1, <1>2, <2>2, <3>1, <3>6, <3>7, TagStepInv
  <2>6. CASE TagBuild
    <3>1. walk.pass = "BUILD" /\ TagStep
          /\ map' = Upsert(map, [blk |-> LiveTags[n + 1].blk, jblk |-> First + (n + 1),
                                 esc |-> LiveTags[n + 1].esc])
      BY <2>1, <2>2, <2>6 DEF TagBuild
    <3>2. Built(n)
      BY <2>1, <2>2, <3>1 DEF AtTags
    <3>3. UNCHANGED <<log, jStart>>
      BY <3>1 DEF TagStep
    <3>4. Built(n + 1)'
      BY <2>1, <2>2, <2>3, <3>1, <3>2, <3>3, BuiltNext
    <3>5. PICK m \in Nat : m = n + 1
      OBVIOUS
    <3>6. Built(m)'
      BY <3>4, <3>5
    <3> QED BY <1>1, <1>2, <2>2, <3>1, <3>5, <3>6, TagStepInv
  <2>7. CASE TagRefused
    BY <2>7, RefuseInv DEF TagRefused, disk, Inv, Shape, TypeOK
  <2>8. ~TagsDone
    BY <1>2 DEF TagsDone
  <2> QED BY <2>4, <2>5, <2>6, <2>7, <2>8 DEF TagNext
<1>3. CASE ~AtTag
  <2>1. TagsDone
    BY <1>3 DEF TagNext, TagSkip, TagFlush, TagBuild, TagRefused
  <2>2. pc = "tags" /\ UNCHANGED disk /\ StepOver(walk, revoked)
    BY <2>1 DEF TagsDone
  <2>3. /\ AtTags /\ PassOK(walk) /\ revoked = NoRevokes /\ jStart # 0 /\ walk \in WalkState
        /\ Len(LiveTags) \in Nat
    BY <2>2, WalkFacts DEF Inv, Walking
  <2>4. Tags = LiveTags /\ walk.k \in Nat
    BY <2>3, LiveFacts DEF Tags, AtTags, Inv, WalkState
  <2>5. walk.k = Len(LiveTags)
    BY <1>3, <2>2, <2>3, <2>4 DEF AtTag, AtTags
  <2>6. Stepping(walk)
    BY <2>3, <2>5 DEF AtTags, Stepping
  <2> QED BY <2>2, <2>3, <2>6, StepOverInv
<1> QED BY <1>2, <1>3

(***************************************************************************)
(* The checkpoint.                                                         *)
(***************************************************************************)
(* What a transaction's descriptor, staged blocks and map have to do with  *)
(* each other.                                                             *)
LEMMA TxnFacts ==
  ASSUME Shape, txn # << >>
  PROVE  /\ Len(txn) \in 1 .. TransMax /\ First + Len(txn) + 2 <= MaxLen
         /\ First \in Nat /\ First # 0 /\ MaxLen \in Nat /\ DOMAIN txn = 1 .. Len(txn)
         /\ TxnTags \in Seq(Tag) /\ Len(TxnTags) = Len(txn) /\ Len(TxnMap) = Len(txn)
         /\ \A k \in 1 .. Len(txn) :
              /\ txn[k].blk \in FsBlock /\ txn[k].data \in Content
              /\ First + k \in LogPos
              /\ TxnTags[k] = TagOf(txn[k].blk, txn[k].data, seq)
              /\ TxnMap[k] = [blk |-> txn[k].blk, jblk |-> First + k,
                              esc |-> NeedsEscape(txn[k].data)]
<1>1. txn \in Seq(StagedWrite)
  BY DEF Shape, TypeOK
<1>2. Len(txn) \in 1 .. TransMax /\ First + Len(txn) + 2 <= MaxLen /\ First \in Nat
      /\ First # 0 /\ MaxLen \in Nat /\ DOMAIN txn = 1 .. Len(txn)
  BY <1>1, FormatAssumption, JournalAssumption DEF Shape, Control
<1>3. TxnTags \in Seq(Tag) /\ Len(TxnTags) = Len(txn)
  BY WrittenTypes
<1>4. Len(TxnMap) = Len(txn)
  BY <1>1 DEF TxnMap
<1>5. ASSUME NEW k \in 1 .. Len(txn)
      PROVE  /\ txn[k].blk \in FsBlock /\ txn[k].data \in Content
             /\ First + k \in LogPos
             /\ TxnTags[k] = TagOf(txn[k].blk, txn[k].data, seq)
             /\ TxnMap[k] = [blk |-> txn[k].blk, jblk |-> First + k,
                             esc |-> NeedsEscape(txn[k].data)]
  BY <1>1, <1>2, TxnType DEF TxnTags, TxnMap, LogPos
<1> QED BY <1>2, <1>3, <1>4, <1>5

(* Of a whole data block's escaped copy, the restored content is the block.*)
LEMMA RestoreEscape ==
  ASSUME NEW c \in Content
  PROVE  Mask(Restore(Escape(c), NeedsEscape(c))) = Mask(c)
  BY DEF Restore, Escape, NeedsEscape, Mask, Content

(* The flush of ext4_journal_checkpoint writes the live transaction.       *)
LEMMA FlushFacts ==
  ASSUME Inv, pc = "ckFlush"
  PROVE  /\ jStart = First /\ jStart # 0 /\ active = TRUE /\ seq = jSeq
         /\ Len(LiveTags) = Len(map) /\ idx \in 1 .. Len(map) /\ Len(map) \in Nat
         /\ map[idx].blk = LiveTags[idx].blk /\ map[idx].blk \in FsBlock
         /\ Mask(Restore(log[map[idx].jblk].data, map[idx].esc)) = LiveWrites[idx].val
         /\ Hits(map[idx].blk) # {} /\ Writes(LiveWrites, map[idx].blk)
<1>1. /\ DescriptorInLog /\ jStart = First /\ jSeq = seq /\ map = TxnMap /\ active = TRUE
      /\ txn # << >> /\ idx \in 1 .. Len(map)
  BY DEF Inv, Shape, Control, Committing, Memory, TypeOK
<1>2. /\ jStart # 0 /\ LiveTags = TxnTags /\ Len(LiveTags) = Len(map)
      /\ Len(map) = Len(txn) /\ Len(map) \in Nat
  BY <1>1, TxnFacts, LiveFacts DEF Inv, DescriptorInLog, DescriptorBlock
<1>3. /\ map[idx] = [blk |-> txn[idx].blk, jblk |-> First + idx,
                     esc |-> NeedsEscape(txn[idx].data)]
      /\ LiveTags[idx] = TagOf(txn[idx].blk, txn[idx].data, seq)
  BY <1>1, <1>2, TxnFacts DEF Inv
<1>4. /\ map[idx].blk = LiveTags[idx].blk /\ map[idx].jblk = First + idx
      /\ map[idx].esc = LiveTags[idx].esc
  BY <1>3 DEF TagOf
<1>5. /\ map[idx].blk \in FsBlock /\ LiveWrites[idx].blk = map[idx].blk
      /\ LiveWrites[idx].val = Mask(Restore(log[map[idx].jblk].data, map[idx].esc))
      /\ idx \in DOMAIN LiveWrites
  BY <1>1, <1>2, <1>4, LiveFacts DEF Inv
<1>6. idx \in Hits(map[idx].blk)
  BY <1>1 DEF Hits, Inv, Shape, TypeOK
<1>7. Writes(LiveWrites, map[idx].blk)
  BY <1>5 DEF Writes
<1> QED BY <1>1, <1>2, <1>4, <1>5, <1>6, <1>7

(* When the checkpoint cleans the log, the blocks in place are what is     *)
(* committed.                                                              *)
LEMMA CleaningKeepsStore ==
  ASSUME Inv, pc = "ckJsb"
  PROVE  CommittedStore = HomeStore
<1>1. CASE jStart = 0
  BY <1>1, CleanStore
<1>2. CASE jStart # 0
  BY <1>2, FlushedStore DEF Inv, Flushing
<1> QED BY <1>1, <1>2

(* Setting or clearing RECOVER changes nothing a store shows.              *)
LEMMA RecoverMasked ==
  ASSUME home \in [FsBlock -> Content], NEW bit \in BOOLEAN
  PROVE  \A b \in FsBlock : Mask(SetRecover(bit)[b]) = Mask(home[b])
  BY FormatAssumption DEF SetRecover, Mask, Content

(* A write of ext4_journal_checkpoint preserves the invariant.             *)
LEMMA CheckpointInv ==
  ASSUME Inv, Checkpoint
  PROVE  Inv'
<1>1. Shape'
  BY CheckpointShape DEF Inv
<1>2. CASE CkptFlush
  <2>1. /\ UNCHANGED <<log, jStart, jSeq, jbd, txn>> /\ pc = "ckFlush" /\ idx' = idx + 1
        /\ pc' = IF idx = Len(map) THEN "ckJsb" ELSE "ckFlush"
        /\ home' = [home EXCEPT ![map[idx].blk] = Restore(log[map[idx].jblk].data, map[idx].esc)]
    BY <1>2 DEF CkptFlush
  <2>2. UNCHANGED <<active, map, writable, start, seq>>
    BY <2>1 DEF jbd
  <2>3. PICK n \in Nat : n + 1 = idx
    <3>1. idx - 1 \in Nat /\ (idx - 1) + 1 = idx
      BY <2>1, FlushFacts
    <3> QED BY <3>1
  <2>4. Home(n)
    <3>1. Home(idx - 1)
      BY <2>1 DEF Inv, Flushing
    <3>2. idx - 1 = n
      BY <2>3
    <3> QED BY <3>1, <3>2
  <2>5. Home(n + 1)'
    BY <2>1, <2>3, <2>4, FlushFacts, HomeNext
  <2>6. LiveTags' = LiveTags /\ LiveWrites' = LiveWrites
    BY <2>1, LiveSame
  <2>7. Flushing'
    <3>1. idx' - 1 = n + 1
      BY <2>1, <2>3
    <3>2. pc' = "ckJsb" => Len(LiveTags) = n + 1
      BY <2>1, <2>3, FlushFacts
    <3>3. pc' = "ckFlush" => Home(idx - 1)'
      BY <2>5, <3>1 DEF Home
    <3>4. pc' = "ckJsb" => Home(Len(LiveTags))'
      BY <2>5, <2>6, <3>2 DEF Home
    <3> QED BY <3>3, <3>4 DEF Flushing
  <2>8. Stale' /\ Live'
    BY <2>1, LogKept DEF Inv
  <2>9. Memory' /\ Sequence'
    BY <2>1, <2>2 DEF Inv, Memory, Sequence, CkptPC
  <2>10. Committing' /\ Walking'
    BY <2>1, <2>2 DEF Inv, Committing, Walking, DescriptorInLog, DataInLog, TxnTags, TxnMap
  <2>11. home \in [FsBlock -> Content] /\ home' \in [FsBlock -> Content]
    BY <1>1 DEF Inv, Shape, TypeOK
  <2>12. CommittedStore' = CommittedStore
    BY <2>1, <2>11, FlushFacts, StoreKept
  <2>13. Reading'
    BY <2>1, <2>2, <2>11, <2>12, FlushFacts, KeptReads DEF Inv, CkptPC
  <2> QED BY <1>1, <2>7, <2>8, <2>9, <2>10, <2>13 DEF Inv
<1>3. CASE CkptJsb
  <2>1. /\ pc = "ckJsb" /\ jStart' = 0 /\ jSeq' = seq /\ pc' = "ckSb"
        /\ UNCHANGED <<home, log, txn, active, map, writable, start, seq>>
    BY <1>3 DEF CkptJsb, jbd
  <2>2. seq \in Int /\ jSeq \in Int /\ seq >= jSeq /\ seq \in SeqNo /\ seq <= MaxSeq
    BY <2>1 DEF Inv, Shape, TypeOK, SeqNo, Sequence
  <2>3. Stale' /\ Live'
    BY <2>1, <2>2, LogKept DEF Inv
  <2>4. Memory' /\ Sequence'
    BY <2>1, <2>2 DEF Inv, Memory, Sequence, CkptPC
  <2>5. Committing' /\ Walking' /\ Flushing'
    BY <2>1 DEF Committing, Walking, Flushing
  <2>6. CommittedStore' = CommittedStore
    BY <2>1, CleaningKeepsStore, CleanStorePrimed DEF HomeStore
  <2>7. Reading'
    BY <2>1, <2>6, KeptReads DEF Inv, CkptPC
  <2> QED BY <1>1, <2>3, <2>4, <2>5, <2>7 DEF Inv
<1>4. CASE CkptSb
  <2>1. /\ pc = "ckSb" /\ pc' = "idle" /\ start' = 0 /\ active' = FALSE /\ txn' = << >>
        /\ UNCHANGED <<log, jStart, jSeq, writable>>
        /\ seq' = IF txn = << >> THEN seq ELSE SeqInc(seq)
    BY <1>4 DEF CkptSb
  <2>2. jStart = 0 /\ jSeq = seq
    BY <2>1 DEF Inv, Shape, Control, Sequence
  <2>3. seq \in 0 .. MaxSeq + 2 /\ MaxSeq \in Nat /\ (txn # << >> => seq < MaxSeq)
    BY JournalAssumption DEF Inv, Shape, TypeOK, SeqNo, Sequence
  <2>4. seq' = IF txn = << >> THEN seq ELSE seq + 1
    BY <2>1, <2>3, SeqArith
  <2>5. Stale' /\ Live'
    BY <2>1, LogKept DEF Inv
  <2>6. Memory' /\ Sequence'
    BY <2>1, <2>2, <2>3, <2>4 DEF Inv, Memory, Sequence, CkptPC
  <2>7. Committing' /\ Walking' /\ Flushing'
    BY <2>1 DEF Committing, Walking, Flushing
  <2>8. Reading'
    BY <2>1, <2>2, CleanReads
  <2> QED BY <1>1, <2>5, <2>6, <2>7, <2>8 DEF Inv
<1> QED BY <1>2, <1>3, <1>4 DEF Checkpoint

(***************************************************************************)
(* The commit.                                                             *)
(***************************************************************************)
(* What a commit writes to the log, or leaves there of a write cut short,  *)
(* is nothing an older epoch could have left.                              *)
LEMMA LogWritten ==
  ASSUME Inv, pc \in CommitPC,
         \/ log' = DescWritten
         \/ pc = "cData" /\ log' = DataWritten
         \/ log' = CommitWritten
         \/ \E p \in LogPos : log' = [log EXCEPT ![p] = DataBlock(Torn)],
         jSeq' = jSeq
  PROVE  Stale'
<1>1. /\ log \in [LogPos -> LogBlock] /\ jSeq \in Int /\ seq \in {jSeq, jSeq + 1}
      /\ First \in LogPos /\ txn # << >>
  BY FormatAssumption
     DEF Inv, Shape, TypeOK, Control, Sequence, SeqNo, CommitPC, LogPos
<1>2. \A p \in LogPos : log[p].seq \in Int
  BY <1>1 DEF LogBlock, SeqNo
<1>3. CASE log' = DescWritten
  <2>1. log'[First].kind = "descriptor" /\ \A p \in LogPos \ {First} : log'[p] = log[p]
    BY <1>1, <1>3 DEF DescWritten, DescriptorBlock
  <2> QED BY <1>1, <1>2, <2>1 DEF Inv, Stale
<1>4. ASSUME NEW p \in LogPos, NEW c, log' = [log EXCEPT ![p] = DataBlock(c)]
      PROVE  Stale'
  <2>1. log'[p].kind = "data" /\ \A q \in LogPos \ {p} : log'[q] = log[q]
    BY <1>1, <1>4 DEF DataBlock
  <2> QED BY <1>1, <1>2, <2>1 DEF Inv, Stale
<1>5. CASE pc = "cData" /\ log' = DataWritten
  <2>1. First + idx \in LogPos
    BY <1>1, <1>5, TxnFacts DEF Inv, Shape, Control
  <2> QED BY <1>4, <1>5, <2>1 DEF DataWritten
<1>6. CASE log' = CommitWritten
  <2>1. First + 1 + Len(txn) \in LogPos
    BY <1>1, TxnFacts DEF LogPos, Inv
  <2>2. /\ log'[First + 1 + Len(txn)].kind = "commit" /\ log'[First + 1 + Len(txn)].seq = seq
        /\ First + 1 + Len(txn) # First
        /\ \A q \in LogPos \ {First + 1 + Len(txn)} : log'[q] = log[q]
    BY <1>1, <1>6, <2>1, TxnFacts DEF CommitWritten, CommitBlock, Inv
  <2> HIDE DEF LogPos
  <2>3. seq <= jSeq + 1
    BY <1>1
  <2>4. \A q \in LogPos : log'[q].kind = "commit" => log'[q].seq <= jSeq + 1
    BY <2>2, <2>3 DEF Inv, Stale
  <2>5. \A q \in LogPos \ {First} :
           log'[q].kind \in {"descriptor", "revoke"} => log'[q].seq < jSeq
    BY <2>2 DEF Inv, Stale
  <2>6. log'[First].kind = "revoke" => log'[First].seq < jSeq
    BY <1>1, <2>2 DEF Inv, Stale
  <2> QED BY <2>4, <2>5, <2>6 DEF Stale
<1> QED BY <1>3, <1>4, <1>5, <1>6

(* A step of a commit before its commit point, once the log it leaves is   *)
(* known.                                                                  *)
LEMMA CommittingInv ==
  ASSUME Inv, Shape', pc \in CommitPC, pc' \in CommitPC,
         UNCHANGED <<jStart, jSeq, jbd, txn>>, Stale', Committing'
  PROVE  Inv'
<1>1. jStart = 0 /\ UNCHANGED <<writable, start, seq, active>>
  BY DEF Inv, Shape, Control, jbd
<1>2. Live'
  BY <1>1 DEF Live
<1>3. Memory' /\ Sequence'
  BY <1>1 DEF Inv, Memory, Sequence, CommitPC, CkptPC
<1>4. Walking' /\ Flushing' /\ Reading'
  BY DEF Walking, Flushing, Reading, CommitPC, CkptPC
<1> QED BY <1>2, <1>3, <1>4 DEF Inv

(* What a tag and a data block hold.                                       *)
LEMMA BlockFields ==
  ASSUME NEW b, NEW c, NEW s
  PROVE  /\ TagOf(b, c, s).blk = b /\ TagOf(b, c, s).esc = NeedsEscape(c)
         /\ TagOf(b, c, s).sum = <<s, Escape(c)>>
         /\ DataBlock(c).kind = "data" /\ DataBlock(c).data = c
         /\ \A j : [blk |-> b, jblk |-> j, esc |-> NeedsEscape(c)].esc = NeedsEscape(c)
  BY DEF TagOf, DataBlock

(* The write of the journal superblock makes the staged transaction the    *)
(* live one, as it was staged.                                             *)
LEMMA TxnBecomesLive ==
  ASSUME Inv, CommitJsb
  PROVE  /\ LiveTags' = TxnTags /\ LiveWrites' = TxnWrites
         /\ CommittedStore' = Overlay(HomeStore, TxnWrites)
         /\ DOMAIN TxnWrites = 1 .. Len(txn)
         /\ \A k \in 1 .. Len(txn) :
              /\ log[First + k].kind = "data"
              /\ TxnTags[k].sum = <<seq, log[First + k].data>>
              /\ TxnWrites[k].blk = txn[k].blk
              /\ TxnWrites[k].val = Mask(Restore(log[First + k].data, NeedsEscape(txn[k].data)))
<1>1. /\ pc = "cJsb" /\ jStart' = First /\ UNCHANGED <<home, log, txn>>
  BY DEF CommitJsb
<1>2. txn # << >> /\ First # 0
  BY <1>1, FormatAssumption DEF Inv, Shape, Control, CommitPC
<1>3. DescriptorInLog /\ DataInLog(Len(txn))
  BY <1>1 DEF Inv, Committing
<1>4. LiveTags' = TxnTags
  BY <1>1, <1>2, <1>3 DEF LiveTags, DescriptorInLog, DescriptorBlock
<1>5. DOMAIN txn = 1 .. Len(txn) /\ DOMAIN TxnTags = 1 .. Len(txn)
  BY <1>2, TxnFacts DEF Inv
<1>6. ASSUME NEW k \in 1 .. Len(txn)
      PROVE  /\ log[First + k].kind = "data" /\ log[First + k].data = Escape(txn[k].data)
             /\ TxnTags[k].sum = <<seq, Escape(txn[k].data)>>
             /\ TxnTags[k].blk = txn[k].blk /\ TxnTags[k].esc = NeedsEscape(txn[k].data)
             /\ Mask(Restore(log[First + k].data, NeedsEscape(txn[k].data))) = Mask(txn[k].data)
  <2>1. log[First + k] = DataBlock(Escape(txn[k].data))
    BY <1>3 DEF DataInLog
  <2>2. TxnTags[k] = TagOf(txn[k].blk, txn[k].data, seq) /\ txn[k].data \in Content
    BY <1>2, TxnFacts DEF Inv
  <2>3. log[First + k].kind = "data" /\ log[First + k].data = Escape(txn[k].data)
    BY <2>1, BlockFields
  <2>4. /\ TxnTags[k].sum = <<seq, Escape(txn[k].data)>>
        /\ TxnTags[k].blk = txn[k].blk /\ TxnTags[k].esc = NeedsEscape(txn[k].data)
    BY <2>2, BlockFields
  <2> QED BY <2>2, <2>3, <2>4, RestoreEscape
<1>7. LiveWrites' = TxnWrites
  <2>1. LiveWrites' = [k \in DOMAIN TxnTags |->
                         [blk |-> TxnTags[k].blk,
                          val |-> Mask(Restore(log[First + k].data, TxnTags[k].esc))]]
    BY <1>1, <1>4 DEF LiveWrites, LiveCopy
  <2>2. TxnWrites = [k \in 1 .. Len(txn) |-> [blk |-> txn[k].blk, val |-> Mask(txn[k].data)]]
    BY <1>5 DEF TxnWrites
  <2> QED BY <1>5, <1>6, <2>1, <2>2
<1>8. CommittedStore' = Overlay(HomeStore, TxnWrites)
  <2>1. HomeStore' = HomeStore
    BY <1>1 DEF HomeStore
  <2> QED BY <1>7, <2>1 DEF CommittedStore
<1>9. DOMAIN TxnWrites = 1 .. Len(txn)
  BY <1>5 DEF TxnWrites
<1>10. \A k \in 1 .. Len(txn) : TxnWrites[k].blk = txn[k].blk /\ TxnWrites[k].val = Mask(txn[k].data)
  BY <1>5 DEF TxnWrites
<1> QED BY <1>4, <1>6, <1>7, <1>8, <1>9, <1>10

(* A step of ext4_journal_commit preserves the invariant.                  *)
LEMMA CommitInv ==
  ASSUME Inv, Commit
  PROVE  Inv'
<1>1. Shape' /\ pc \in CommitPC
  BY CommitShape DEF Inv, Commit, CommitSetRecover, CommitDescriptor, CommitData,
     CommitBlockWrite, CommitJsb, CommitPC
<1>2. txn # << >> /\ jStart = 0 /\ start = 0 /\ log \in [LogPos -> LogBlock]
  BY <1>1 DEF Inv, Shape, Control, TypeOK
<1>3. CASE CommitSetRecover
  <2>1. pc' = "cDesc" /\ log' = log /\ UNCHANGED <<jStart, jSeq, jbd, txn>>
    BY <1>3 DEF CommitSetRecover
  <2>2. Stale' /\ Committing'
    BY <2>1, LogKept DEF Inv, Committing
  <2> QED BY <1>1, <2>1, <2>2, CommittingInv DEF CommitPC
<1>4. CASE CommitDescriptor
  <2>1. pc' = "cData" /\ log' = DescWritten /\ UNCHANGED <<jStart, jSeq, jbd, txn, idx>> /\ idx = 1
    BY <1>4 DEF CommitDescriptor, Inv, Shape, Control
  <2>2. TxnTags' = TxnTags /\ seq' = seq
    BY <2>1 DEF TxnTags, jbd
  <2>3. DescriptorInLog'
    BY <1>2, <2>1, <2>2, TxnFacts DEF DescriptorInLog, DescWritten, LogPos, Inv
  <2>4. DataInLog(idx - 1)'
    BY <2>1 DEF DataInLog
  <2>5. Committing'
    BY <2>1, <2>3, <2>4 DEF Committing
  <2>6. Stale'
    BY <1>1, <2>1, LogWritten
  <2> QED BY <1>1, <2>1, <2>5, <2>6, CommittingInv DEF CommitPC
<1>5. CASE CommitData
  <2>1. /\ pc = "cData" /\ log' = DataWritten /\ UNCHANGED <<jStart, jSeq, jbd, txn>>
        /\ idx' = idx + 1 /\ pc' = IF idx = Len(txn) THEN "cCommit" ELSE "cData"
        /\ idx \in 1 .. Len(txn)
    BY <1>5 DEF CommitData, Inv, Shape, Control
  <2>2. TxnTags' = TxnTags /\ seq' = seq
    BY <2>1 DEF TxnTags, jbd
  <2>3. DescriptorInLog /\ DataInLog(idx - 1)
    BY <2>1 DEF Inv, Committing
  <2>4. First + idx \in LogPos /\ First \in Nat /\ Len(txn) \in Nat
    <3>1. First + idx \in LogPos
      BY <1>2, <2>1, TxnFacts DEF Inv
    <3>2. First \in Nat /\ Len(txn) \in Nat
      BY <1>2, TxnFacts DEF Inv
    <3> QED BY <3>1, <3>2
  <2>5. DescriptorInLog'
    BY <1>2, <2>1, <2>2, <2>3, <2>4 DEF DescriptorInLog, DataWritten
  <2>6. ASSUME NEW k \in 1 .. idx
        PROVE  log'[First + k] = DataBlock(Escape(txn[k].data))
    <3>1. CASE k = idx
      BY <1>2, <2>1, <2>4, <3>1 DEF DataWritten
    <3>2. CASE k # idx
      BY <1>2, <2>1, <2>3, <2>4, <3>2 DEF DataWritten, DataInLog
    <3> QED BY <3>1, <3>2
  <2>7. Committing'
    <3>1. idx' - 1 = idx
      BY <2>1
    <3>2. pc' = "cData" => DataInLog(idx - 1)'
      BY <2>1, <2>6, <3>1 DEF DataInLog
    <3>3. pc' = "cCommit" => DataInLog(Len(txn))'
      BY <2>1, <2>6 DEF DataInLog
    <3>4. pc' \in {"cData", "cCommit"}
      BY <2>1
    <3> QED BY <2>5, <3>2, <3>3, <3>4 DEF Committing
  <2>8. Stale'
    BY <1>1, <2>1, LogWritten DEF jbd
  <2> QED BY <1>1, <2>1, <2>7, <2>8, CommittingInv DEF CommitPC
<1>6. CASE CommitBlockWrite
  <2>1. /\ pc = "cCommit" /\ pc' = "cJsb" /\ log' = CommitWritten
        /\ UNCHANGED <<jStart, jSeq, jbd, txn, idx>>
    BY <1>6 DEF CommitBlockWrite
  <2>2. TxnTags' = TxnTags /\ seq' = seq
    BY <2>1 DEF TxnTags, jbd
  <2>3. DescriptorInLog /\ DataInLog(Len(txn))
    BY <2>1 DEF Inv, Committing
  <2>4. First \in Nat /\ Len(txn) \in Nat /\ First + 1 + Len(txn) \in LogPos
    BY <1>2, TxnFacts DEF Inv, LogPos
  <2>5. DescriptorInLog'
    BY <1>2, <2>1, <2>2, <2>3, <2>4, TxnFacts DEF DescriptorInLog, CommitWritten, Inv
  <2>6. DataInLog(Len(txn))'
    BY <1>2, <2>1, <2>3, <2>4 DEF DataInLog, CommitWritten
  <2>7. log'[First + Len(txn) + 1] = CommitBlock(seq)
    BY <1>2, <2>1, <2>4 DEF CommitWritten
  <2>8. Committing'
    BY <2>1, <2>2, <2>5, <2>6, <2>7 DEF Committing
  <2>9. Stale'
    BY <1>1, <2>1, LogWritten
  <2> QED BY <1>1, <2>1, <2>8, <2>9, CommittingInv DEF CommitPC
<1>7. CASE CommitJsb
  <2>1. /\ pc = "cJsb" /\ pc' = "ckFlush" /\ jStart' = First /\ jSeq' = seq /\ start' = First
        /\ active' = TRUE /\ map' = TxnMap /\ idx' = 1
        /\ UNCHANGED <<home, log, writable, seq, txn>>
    BY <1>7 DEF CommitJsb
  <2>2. /\ DescriptorInLog /\ DataInLog(Len(txn))
        /\ log[First + Len(txn) + 1] = CommitBlock(seq)
    BY <2>1 DEF Inv, Committing
  <2>3. /\ seq \in {jSeq, jSeq + 1} /\ seq < MaxSeq /\ jSeq \in Int /\ seq \in SeqNo
        /\ First # 0 /\ writable
    BY <1>2, <2>1, FormatAssumption
       DEF Inv, Sequence, Memory, Shape, TypeOK, SeqNo, CommitPC
  <2>4. Stale'
    <3>1. \A p \in LogPos : log[p].seq \in Int
      BY <1>2 DEF LogBlock, SeqNo
    <3>2. \A p \in LogPos : /\ log[p].seq < jSeq => log[p].seq < seq
                            /\ log[p].seq <= jSeq + 1 => log[p].seq <= seq + 1
      BY <2>3, <3>1
    <3>3. First \in LogPos
      BY FormatAssumption DEF LogPos
    <3> QED BY <2>1, <3>2, <3>3 DEF Inv, Stale
  <2>5. Live'
    <3>1. log'[First].tags = TxnTags
      BY <2>1, <2>2 DEF DescriptorInLog, DescriptorBlock
    <3>2. Len(TxnTags) = Len(txn) /\ Len(txn) \in 1 .. TransMax /\ First + Len(txn) + 2 <= MaxLen
      BY <1>2, TxnFacts DEF Inv
    <3>3. \A k \in 1 .. Len(TxnTags) :
            log[First + k].kind = "data" /\ TxnTags[k].sum = <<seq, log[First + k].data>>
      BY <1>7, <3>2, TxnBecomesLive
    <3> QED BY <2>1, <2>2, <3>1, <3>2, <3>3 DEF Live, Holds, DescriptorInLog
  <2>6. Memory' /\ Sequence'
    BY <1>2, <2>1, <2>3 DEF Inv, Memory, Sequence, CkptPC
  <2>7. Committing'
    BY <2>1, <2>2 DEF Committing, DescriptorInLog, DataInLog, TxnTags, TxnMap
  <2>8. Walking' /\ Flushing'
    BY <2>1 DEF Walking, Flushing, Home
  <2>9. ASSUME NEW b \in FsBlock, HeldOnce(b)'
        PROVE  Mask(ReadView(b)') = CommittedStore'[b]
    <3>1. /\ CommittedStore' = Overlay(HomeStore, TxnWrites) /\ DOMAIN HomeStore = FsBlock
          /\ DOMAIN TxnWrites = 1 .. Len(txn) /\ Len(txn) \in Nat
      BY <1>2, <1>7, TxnBecomesLive, TxnFacts DEF HomeStore, Inv
    <3>2. ASSUME NEW k \in 1 .. Len(txn)
          PROVE  /\ TxnWrites[k].blk = txn[k].blk /\ TxnMap[k].blk = txn[k].blk
                 /\ TxnMap[k].jblk = First + k
                 /\ TxnMap[k].esc = NeedsEscape(txn[k].data)
      <4>1. TxnMap[k] = [blk |-> txn[k].blk, jblk |-> First + k,
                         esc |-> NeedsEscape(txn[k].data)]
        BY <1>2, TxnFacts DEF Inv
      <4>2. TxnWrites[k].blk = txn[k].blk
        BY <1>7, TxnBecomesLive
      <4>3. TxnMap[k].blk = txn[k].blk /\ TxnMap[k].jblk = First + k
        BY <4>1
      <4>4. TxnMap[k].esc = NeedsEscape(txn[k].data)
        BY <4>1, BlockFields
      <4> QED BY <4>2, <4>3, <4>4
    <3>3. DOMAIN TxnMap = 1 .. Len(txn)
      BY <1>2, TxnFacts DEF TxnMap, Inv
    <3> DEFINE H == {k \in 1 .. Len(txn) : txn[k].blk = b}
    <3>4. Hits(b)' = H
      BY <2>1, <3>2, <3>3 DEF Hits
    <3>5. CASE H = {}
      <4>1. ~Writes(TxnWrites, b)
        BY <3>1, <3>2, <3>5 DEF Writes
      <4>2. Overlay(HomeStore, TxnWrites)[b] = HomeStore[b]
        BY <3>1, <4>1, OverlayShows
      <4>3. ReadView(b)' = home[b]
        BY <2>1, <3>4, <3>5 DEF ReadView
      <4> QED BY <3>1, <4>2, <4>3 DEF HomeStore
    <3>6. CASE H # {}
      <4> DEFINE h == FirstHit(b)'
      <4>1. h \in H /\ \A i \in H : i = h
        <5>1. PICK i \in H : TRUE
          BY <3>6
        <5>2. \A m \in H : m = i
          BY <2>9, <3>4 DEF HeldOnce
        <5>3. \A m \in H : i <= m
          BY <5>2
        <5>4. h = CHOOSE k \in H : \A m \in H : k <= m
          BY <3>4 DEF FirstHit
        <5> HIDE DEF h, H
        <5> QED BY <5>1, <5>2, <5>3, <5>4
      <4> HIDE DEF h
      <4>2. LastWrite(TxnWrites, b, h)
        BY <3>1, <3>2, <4>1 DEF LastWrite
      <4>3. Overlay(HomeStore, TxnWrites)[b] = TxnWrites[h].val
        BY <3>1, <4>1, <4>2, OverlayShows
      <4>4. ReadView(b)' = Restore(log[First + h].data, NeedsEscape(txn[h].data))
        BY <2>1, <3>2, <3>4, <3>6, <4>1 DEF ReadView, h
      <4>5. TxnWrites[h].val = Mask(Restore(log[First + h].data, NeedsEscape(txn[h].data)))
        BY <1>7, <4>1, TxnBecomesLive
      <4> QED BY <3>1, <4>3, <4>4, <4>5
    <3> QED BY <3>5, <3>6
  <2>10. Reading'
    BY <2>1, <2>3, <2>9 DEF Reading, CkptPC
  <2> QED BY <1>1, <2>4, <2>5, <2>6, <2>7, <2>8, <2>10 DEF Inv
<1> QED BY <1>3, <1>4, <1>5, <1>6, <1>7 DEF Commit

(***************************************************************************)
(* Submitting, and steps that change nothing the invariant speaks of.      *)
(***************************************************************************)
(* A transaction that ext4_journal_commit accepts preserves the invariant. *)
LEMMA SubmitInv ==
  ASSUME Inv, NEW t \in Txns, Submit(t)
  PROVE  Inv'
<1>1. /\ pc' = "cSb" /\ writable = TRUE /\ start = 0 /\ seq < MaxSeq /\ pc = "idle"
      /\ UNCHANGED <<home, log, jStart, jSeq, writable, start, seq, active>>
  BY DEF Submit, Accepts, Mounted, disk, jbd, Inv, Shape, TypeOK
<1>2. Shape' /\ Stale' /\ Live'
  BY <1>1, SubmitShape, LogKept DEF Inv
<1>3. Memory' /\ Sequence'
  BY <1>1 DEF Inv, Memory, Sequence, CkptPC
<1>4. Committing' /\ Walking' /\ Flushing' /\ Reading'
  BY <1>1 DEF Committing, Walking, Flushing, Reading, CkptPC
<1> QED BY <1>2, <1>3, <1>4 DEF Inv

(* The answer given is no part of the invariant beyond its shape.          *)
LEMMA SameInv ==
  ASSUME Inv, Shape', UNCHANGED <<disk, pc, jbd, txn, idx>>
  PROVE  Inv'
<1> USE DEF disk, jbd
<1>1. Stale' /\ Live'
  BY LogKept DEF Inv
<1>2. Memory' /\ Sequence'
  BY DEF Inv, Memory, Sequence
<1>3. LiveTags' = LiveTags /\ LiveWrites' = LiveWrites /\ LiveEnd' = LiveEnd
  BY LiveSame
<1>4. Committing'
  BY DEF Inv, Committing, DescriptorInLog, DataInLog, TxnTags, TxnMap
<1>5. /\ StaleCommit' = StaleCommit
      /\ \A n : Home(n)' = Home(n) /\ Built(n)' = Built(n)
  BY <1>3 DEF StaleCommit, Home, Built, LastCopy
<1>6. Walking' /\ Flushing'
  BY <1>3, <1>5 DEF Inv, Walking, PassOK, AtFirst, AtTags, AtCommit, Beyond, Through, Flushing
<1>7. Reading'
  <2>1. CommittedStore' = CommittedStore
    BY StoreKept DEF Inv, Shape, TypeOK
  <2>2. CASE pc \in {"idle"} \cup CkptPC
    BY <2>1, <2>2, KeptReads DEF Inv
  <2>3. CASE pc \notin {"idle"} \cup CkptPC
    BY <2>3 DEF Reading
  <2> QED BY <2>2, <2>3
<1> QED BY <1>1, <1>2, <1>4, <1>6, <1>7 DEF Inv

(***************************************************************************)
(* Failures.                                                               *)
(***************************************************************************)
(* A write cut short spares what is committed: in place it hits a block    *)
(* that the live transaction holds, in the log it hits no live one.        *)
LEMMA CutShortKeeps ==
  ASSUME Inv, CutShort, UNCHANGED <<jStart, jSeq>>
  PROVE  /\ Stale' /\ Live' /\ CommittedStore' = CommittedStore
         /\ \A b \in FsBlock : Mask(home'[b]) = Mask(home[b]) \/ b \in HomeTarget
         /\ pc \notin CommitPC => log' = log
<1>1. home \in [FsBlock -> Content] /\ home' \in [FsBlock -> Content]
  BY CutShortTypes DEF Inv, Shape, TypeOK
<1>2. CASE UNCHANGED <<home, log>>
  BY <1>1, <1>2, LogKept, StoreKept DEF Inv
<1>3. CASE HomeTorn /\ UNCHANGED log
  <2>1. PICK b \in HomeTarget, bit \in BOOLEAN :
          home' = [home EXCEPT ![b] = [Torn EXCEPT !.recover = bit /\ b = SB]]
    BY <1>3 DEF HomeTorn
  <2>2. \A c \in FsBlock : home'[c] = home[c] \/ c = b
    BY <1>1, <2>1
  <2>3. Writes(LiveWrites, b)
    <3>1. CASE pc = "ckFlush"
      BY <2>1, <3>1, FlushFacts DEF HomeTarget, AtTag
    <3>2. CASE pc # "ckFlush"
      BY <2>1, <3>2, TagFacts DEF HomeTarget
    <3> QED BY <3>1, <3>2
  <2>4. CommittedStore' = CommittedStore
    BY <1>1, <1>3, <2>2, <2>3, StoreKept
  <2> QED BY <1>3, <2>1, <2>2, <2>4, LogKept DEF Inv
<1>4. CASE LogTorn /\ UNCHANGED home
  <2>1. PICK p \in LogTarget : log' = [log EXCEPT ![p] = DataBlock(Torn)]
    BY <1>4 DEF LogTorn
  <2>2. pc \in {"cDesc", "cData", "cCommit"}
    BY <2>1 DEF LogTarget
  <2>3. jStart = 0 /\ txn # << >> /\ pc \in CommitPC
    BY <2>2 DEF Inv, Shape, Control, CommitPC
  <2>4. p \in LogPos
    BY <2>1, <2>2, <2>3, TxnFacts DEF LogTarget, Inv, Shape, Control, LogPos
  <2>5. Stale'
    BY <2>1, <2>3, <2>4, LogWritten
  <2>6. Live'
    BY <2>3 DEF Live
  <2>7. CommittedStore' = CommittedStore
    BY <1>4, <2>3, CleanStore, CleanStorePrimed DEF HomeStore
  <2> QED BY <1>4, <2>3, <2>5, <2>6, <2>7
<1> QED BY <1>2, <1>3, <1>4 DEF CutShort

(* A power cut preserves the invariant.                                    *)
LEMMA CrashInv ==
  ASSUME Inv, Crash
  PROVE  Inv'
<1>1. Shape' /\ Stale' /\ Live'
  BY FailureShape, CutShortKeeps DEF Inv, Failure, Crash
<1> QED BY <1>1, ResetInv DEF Inv, Crash, Sequence

(* A write that failed during a commit or a checkpoint brings the driver   *)
(* back with what it had in memory.                                        *)
LEMMA BackInv ==
  ASSUME Inv, Shape', Stale', Live', Reading', pc \in CommitPC \cup CkptPC, pc' = "idle",
         txn' = << >>, UNCHANGED jbd, jSeq' \in {jSeq, seq}
  PROVE  Inv'
<1>1. Memory'
  BY DEF Inv, Memory, jbd, CkptPC
<1>2. Sequence'
  BY JournalAssumption DEF Inv, Sequence, jbd, CommitPC, CkptPC, Shape, TypeOK, SeqNo
<1>3. Committing' /\ Walking' /\ Flushing'
  BY DEF Committing, Walking, Flushing
<1> QED BY <1>1, <1>2, <1>3 DEF Inv

(* What a failed write of ext4_journal_commit leaves of the log.           *)
LEMMA CommitWriteFails ==
  ASSUME Inv, WriteFails, pc \in CommitPC
  PROVE  /\ jStart = 0 /\ jStart' = 0 /\ jSeq' = jSeq /\ active = FALSE
         /\ Stale' /\ Live' /\ CommittedStore' = CommittedStore
<1>1. jStart = 0 /\ start = 0 /\ active = FALSE /\ home \in [FsBlock -> Content]
  BY DEF Inv, Shape, Control, Memory, TypeOK
<1>2. jStart' = 0 /\ jSeq' = jSeq
  BY <1>1 DEF WriteFails, disk, CommitPC
<1>3. Live'
  BY <1>2 DEF Live
<1>4. CASE CutShort
  BY <1>1, <1>2, <1>4, CutShortKeeps
<1>5. CASE home' \in {home, SetRecover(pc = "cSb")} /\ UNCHANGED <<log, jStart, jSeq>>
  <2>1. home' \in [FsBlock -> Content] /\ \A b \in FsBlock : Mask(home'[b]) = Mask(home[b])
    BY <1>1, <1>5, RecoverMasked, SetRecoverType
  <2>2. CommittedStore' = CommittedStore
    BY <1>1, <1>5, <2>1, StoreKept
  <2> QED BY <1>1, <1>2, <1>5, <2>2, LogKept DEF Inv
<1>6. CASE /\ \/ log' = DescWritten
              \/ pc = "cData" /\ log' = DataWritten
              \/ log' = CommitWritten
           /\ UNCHANGED <<home, jStart, jSeq>>
  <2>1. Stale'
    BY <1>6, LogWritten
  <2>2. CommittedStore' = CommittedStore
    BY <1>1, <1>2, <1>6, CleanStore, CleanStorePrimed DEF HomeStore
  <2> QED BY <1>1, <1>2, <1>3, <2>1, <2>2
<1>7. CASE UNCHANGED disk
  <2>1. CommittedStore' = CommittedStore
    BY <1>1, <1>7, StoreKept DEF disk
  <2> QED BY <1>1, <1>2, <1>7, <2>1, LogKept DEF Inv, disk
<1> QED BY <1>4, <1>5, <1>6, <1>7 DEF WriteFails, CommitPC

(* What a failed write of ext4_journal_checkpoint leaves, in place and of  *)
(* the log.                                                                *)
LEMMA CheckpointWriteFails ==
  ASSUME Inv, WriteFails, pc \in CkptPC
  PROVE  /\ log' = log /\ jSeq' \in {jSeq, seq} /\ Stale' /\ Live'
         /\ CommittedStore' = CommittedStore
         /\ \A b \in FsBlock : Mask(home'[b]) = Mask(home[b]) \/ (active /\ Hits(b) # {})
<1>1. home \in [FsBlock -> Content]
  BY DEF Inv, Shape, TypeOK
<1>2. CASE pc = "ckFlush"
  <2>1. CutShort /\ UNCHANGED <<jStart, jSeq>> /\ HomeTarget = {map[idx].blk}
    BY <1>2 DEF WriteFails, HomeTarget, AtTag
  <2> QED BY <1>2, <2>1, CutShortKeeps, FlushFacts DEF CommitPC
<1>3. CASE pc = "ckJsb"
  <2>1. HomeTarget = {} /\ LogTarget = {}
    BY <1>3 DEF HomeTarget, LogTarget, AtTag
  <2>2. UNCHANGED <<home, log>> /\ (UNCHANGED <<jStart, jSeq>> \/ (jStart' = 0 /\ jSeq' = seq))
    BY <1>3, <2>1 DEF WriteFails
  <2>4. Stale' /\ Live'
    <3>1. CASE UNCHANGED <<jStart, jSeq>>
      BY <2>2, <3>1, LogKept DEF Inv
    <3>2. CASE jStart' = 0 /\ jSeq' = seq
      <4>1. seq \in SeqNo /\ seq >= jSeq
        BY <1>3 DEF Inv, Sequence, Shape, TypeOK, SeqNo
      <4> QED BY <2>2, <3>2, <4>1, LogKept DEF Inv
    <3> QED BY <2>2, <3>1, <3>2
  <2>5. CASE UNCHANGED <<jStart, jSeq>>
    BY <1>1, <2>2, <2>4, <2>5, StoreKept
  <2>6. CASE jStart' = 0 /\ jSeq' = seq
    <3>1. CommittedStore' = CommittedStore
      BY <1>3, <2>2, <2>6, CleaningKeepsStore, CleanStorePrimed DEF HomeStore
    <3> QED BY <2>2, <2>4, <2>6, <3>1
  <2> QED BY <2>2, <2>5, <2>6
<1>4. CASE pc = "ckSb"
  <2>1. HomeTarget = {} /\ LogTarget = {}
    BY <1>4 DEF HomeTarget, LogTarget, AtTag
  <2>2. home' \in {home, SetRecover(FALSE)} /\ UNCHANGED <<log, jStart, jSeq>>
    BY <1>4, <2>1 DEF WriteFails
  <2>3. home' \in [FsBlock -> Content] /\ \A b \in FsBlock : Mask(home'[b]) = Mask(home[b])
    BY <1>1, <2>2, RecoverMasked, SetRecoverType
  <2> QED BY <1>1, <2>2, <2>3, StoreKept, LogKept DEF Inv
<1> QED BY <1>2, <1>3, <1>4 DEF CkptPC

(* A failed write preserves the invariant, whatever of it reached the disk.*)
LEMMA WriteErrorInv ==
  ASSUME Inv, WriteError
  PROVE  Inv'
<1>1. /\ Shape' /\ home' \in [FsBlock -> Content]
      /\ pc \in CommitPC \cup CkptPC \cup {"tags"}
      /\ pc = "tags" => UNCHANGED <<log, jStart, jSeq>>
  BY FailureShape, WriteFailsTypes DEF Inv, WriteError, Failure
<1>2. CASE pc = "tags"
  BY <1>1, <1>2, RefuseInv DEF WriteError
<1>3. CASE pc \in CommitPC
  <2>1. /\ jStart' = 0 /\ jSeq' = jSeq /\ Stale' /\ Live' /\ active' = FALSE
        /\ pc' = "idle" /\ txn' = << >> /\ UNCHANGED jbd
    BY <1>3, CommitWriteFails DEF WriteError, CommitPC, jbd
  <2> QED BY <1>1, <1>3, <2>1, CleanReads, BackInv
<1>4. CASE pc \in CkptPC
  <2>1. pc' = "idle" /\ txn' = << >> /\ UNCHANGED jbd
    BY <1>4 DEF WriteError, CkptPC
  <2>2. Reading'
    BY <1>4, <2>1, CheckpointWriteFails, KeptReads DEF Inv, WriteError, jbd
  <2> QED BY <1>1, <1>4, <2>1, <2>2, CheckpointWriteFails, BackInv DEF WriteError
<1> QED BY <1>1, <1>2, <1>3, <1>4

(***************************************************************************)
(* The invariant.                                                          *)
(***************************************************************************)
LEMMA InvStep == Inv /\ [Next]_vars => Inv'
<1> SUFFICES ASSUME Inv, [Next]_vars PROVE Inv'
  OBVIOUS
<1>1. Shape'
  BY ShapeStep DEF Inv
<1>2. CASE UNCHANGED vars
  BY <1>1, <1>2, SameInv DEF vars
<1>3. ASSUME NEW w \in BOOLEAN, Open(w) PROVE Inv'
  BY <1>3, OpenInv
<1>4. ASSUME NEW t \in Txns, Submit(t) PROVE Inv'
  BY <1>4, SubmitInv
<1>5. ASSUME NEW t \in Txns, RefuseCommit(t) PROVE Inv'
  BY <1>1, <1>5, SameInv DEF RefuseCommit
<1>6. CASE Driver
  BY <1>6, WalkInv, TagInv, CheckpointInv, CommitInv DEF Driver
<1>7. CASE ReadError
  BY <1>7, RefuseInv DEF ReadError, disk, Inv, Shape, TypeOK
<1>8. CASE Failure
  BY <1>7, <1>8, WriteErrorInv, CrashInv, OpenBareInv DEF Failure
<1> QED BY <1>2, <1>3, <1>4, <1>5, <1>6, <1>8 DEF Next, Work

(* The inductive invariant holds of every behaviour: for every set of      *)
(* transactions, every clean disk and every size of the log, and with      *)
(* mounts of any kind, with the journal and without, in any order.  What   *)
(* it says of reads it says of mounts that have their journal.             *)
THEOREM InvInvariant == Spec => []Inv
  BY InvInit, InvStep, PTL DEF Spec

(***************************************************************************)
(* Reads.                                                                  *)
(***************************************************************************)
(* A device that was mounted read-only, with its journal, shows every      *)
(* block as the last committed transaction left it, also where that        *)
(* transaction held a block twice.  A mount whose ext4_journal_init failed *)
(* is none of these (OpenBare).                                            *)
THEOREM ReadOnlyReads == Spec => []ReadOnlySeesCommitted
<1>1. Inv => ReadOnlySeesCommitted
  BY DEF Inv, Reading, ReadOnlySeesCommitted, ReadsSeeCommitted
<1> QED BY <1>1, InvInvariant, PTL

(* No transaction holds a block twice.  Most callers of                    *)
(* ext4_journal_commit keep to this; mkdir, rmdir and unlink do not when   *)
(* two inodes they change share a block of the inode table                 *)
(* (extent.c:1456, 1904, 2168).                                            *)
NoRepeats == \A t \in Txns : \A i, j \in DOMAIN t : t[i].blk = t[j].blk => i = j

(* Then neither does the transaction in flight, nor the replay map, which  *)
(* the walk fills by replay_upsert and a commit from its transaction.      *)
Once ==
  /\ \A i, j \in DOMAIN txn : txn[i].blk = txn[j].blk => i = j
  /\ \A i, j \in DOMAIN map : map[i].blk = map[j].blk => i = j

(* Adding to the replay map keeps each block in it once.                   *)
LEMMA UpsertOnce ==
  ASSUME NEW m \in Seq(MapEntry), NEW e \in MapEntry,
         \A i, j \in DOMAIN m : m[i].blk = m[j].blk => i = j
  PROVE  \A i, j \in DOMAIN Upsert(m, e) : Upsert(m, e)[i].blk = Upsert(m, e)[j].blk => i = j
<1>1. CASE \E k \in DOMAIN m : m[k].blk = e.blk
  BY <1>1 DEF Upsert
<1>2. CASE ~ \E k \in DOMAIN m : m[k].blk = e.blk
  <2>1. Upsert(m, e) = Append(m, e)
    BY <1>2 DEF Upsert
  <2>2. /\ Len(m) \in Nat /\ DOMAIN m = 1 .. Len(m)
        /\ DOMAIN Append(m, e) = 1 .. Len(m) + 1 /\ Append(m, e)[Len(m) + 1] = e
        /\ \A i \in 1 .. Len(m) : Append(m, e)[i] = m[i]
    OBVIOUS
  <2> HIDE DEF Upsert
  <2> QED BY <1>2, <2>1, <2>2
<1> QED BY <1>1, <1>2

(* Every step keeps each block once in the transaction and in the map.     *)
LEMMA OnceStep == NoRepeats /\ Inv /\ Once /\ [Next]_vars => Once'
<1> SUFFICES ASSUME NoRepeats, Inv, Once, [Next]_vars PROVE Once'
  OBVIOUS
<1>1. ASSUME txn' = << >> \/ txn' = txn, map' = << >> \/ map' = map PROVE Once'
  BY <1>1 DEF Once
<1>2. CASE UNCHANGED vars
  BY <1>1, <1>2 DEF vars, jbd
<1>3. ASSUME NEW w \in BOOLEAN, Open(w) PROVE Once'
  BY <1>1, <1>3 DEF Open
<1>4. ASSUME NEW t \in Txns, Submit(t) PROVE Once'
  <2>1. DOMAIN Stage(t) = DOMAIN t /\ \A k \in DOMAIN t : Stage(t)[k].blk = t[k].blk
    BY DEF Stage
  <2>2. txn' = Stage(t) /\ map' = map
    BY <1>4 DEF Submit, jbd
  <2> QED BY <2>1, <2>2 DEF NoRepeats, Once
<1>5. ASSUME NEW t \in Txns, RefuseCommit(t) PROVE Once'
  BY <1>1, <1>5 DEF RefuseCommit, jbd
<1>6. ASSUME RefuseMount PROVE Once'
  BY <1>1, <1>6 DEF RefuseMount, Reset
<1>7. ASSUME NEW w, EndPass(w) PROVE Once'
  BY <1>1, <1>7 DEF EndPass, FinishReplay
<1>8. ASSUME NEW w, NEW r, StepOver(w, r) PROVE Once'
  BY <1>1, <1>6, <1>7, <1>8 DEF StepOver
<1>9. CASE Walk
  BY <1>1, <1>6, <1>7, <1>8, <1>9
     DEF Walk, WalkStop, WalkMismatch, WalkCommit, WalkRevoke, WalkDescriptor
<1>10. CASE TagBuild
  <2>1. map' = Upsert(map, [blk |-> CurTag.blk, jblk |-> TagPos, esc |-> CurTag.esc])
        /\ txn' = txn /\ AtTag
    BY <1>10 DEF TagBuild, TagStep
  <2>2. CurTag.blk \in FsBlock /\ CurTag.esc \in BOOLEAN /\ TagPos \in LogPos
    BY <2>1, TagFacts, WalkFacts, NextPosType DEF WalkState, TagPos
  <2>3. map \in Seq(MapEntry)
    BY DEF Inv, Shape, TypeOK
  <2>4. [blk |-> CurTag.blk, jblk |-> TagPos, esc |-> CurTag.esc] \in MapEntry
    BY <2>2 DEF MapEntry
  <2> QED BY <2>1, <2>3, <2>4, UpsertOnce DEF Once
<1>11. CASE TagSkip \/ TagFlush \/ TagRefused \/ TagsDone
  BY <1>1, <1>6, <1>8, <1>11 DEF TagSkip, TagFlush, TagRefused, TagsDone, TagStep
<1>12. CASE Checkpoint
  BY <1>1, <1>12 DEF Checkpoint, CkptFlush, CkptJsb, CkptSb, jbd
<1>13. CASE CommitJsb
  <2>1. txn' = txn /\ map' = TxnMap /\ DOMAIN TxnMap = DOMAIN txn
        /\ \A k \in DOMAIN txn : TxnMap[k].blk = txn[k].blk
    BY <1>13 DEF CommitJsb, TxnMap
  <2> QED BY <2>1 DEF Once
<1>14. CASE CommitSetRecover \/ CommitDescriptor \/ CommitData \/ CommitBlockWrite
  BY <1>1, <1>14
     DEF CommitSetRecover, CommitDescriptor, CommitData, CommitBlockWrite, jbd
<1>15. CASE Failure
  BY <1>1, <1>6, <1>15 DEF Failure, WriteError, ReadError, Crash, OpenBare, Reset, jbd
<1> QED BY <1>2, <1>3, <1>4, <1>5, <1>9, <1>10, <1>11, <1>12, <1>13, <1>14, <1>15
        DEF Next, Work, Driver, TagNext, Commit

(* In a mount that has its journal, callers that stage a block at most     *)
(* once per transaction read, between operations, the committed copy of    *)
(* every block: from its place, or through the replay map, after the mount *)
(* as after a checkpoint that failed half way; whatever mounts without the *)
(* journal came before.                                                    *)
THEOREM ReadsAreCommitted == NoRepeats => (Spec => []ReadsSeeCommitted)
<1> SUFFICES ASSUME NoRepeats PROVE Spec => []ReadsSeeCommitted
  OBVIOUS
<1>1. Init => Once
  BY DEF Init, PowerUp, Once
<1>2. Inv /\ Once => ReadsSeeCommitted
  BY DEF Inv, Reading, ReadsSeeCommitted, Once, HeldOnce, Hits
<1>3. Inv /\ Once /\ [Next]_vars => Once'
  BY OnceStep
<1> QED BY <1>1, <1>2, <1>3, InvInvariant, PTL DEF Spec

(***************************************************************************)
(* The atomic store.                                                       *)
(***************************************************************************)
(* There are writes pending exactly when a transaction is in flight, and   *)
(* they are a list of writes.                                              *)
PendingFits ==
  /\ txn = << >> => TxnWrites = << >>
  /\ txn # << >> => TxnWrites # << >> /\ Abs!WriteList(TxnWrites)

(* The shape of the state implies it.                                      *)
LEMMA PendingWrites == Shape => PendingFits
<1> SUFFICES ASSUME Shape PROVE PendingFits
  OBVIOUS
<1>1. txn \in Seq(StagedWrite)
  BY DEF Shape, TypeOK
<1>2. CASE txn = << >>
  BY <1>2 DEF TxnWrites, PendingFits
<1>3. CASE txn # << >>
  <2>1. Len(txn) \in 1 .. TransMax /\ DOMAIN txn = 1 .. Len(txn)
    BY <1>1, <1>3, JournalAssumption DEF Shape, Control
  <2>2. \A c \in Content : Mask(c) \in Val
    BY DEF Content, Mask, Val
  <2>3. TxnWrites \in [1 .. Len(txn) -> Abs!Write]
    BY <2>1, <2>2, <1>1, TxnType DEF TxnWrites, Abs!Write
  <2>4. DOMAIN TxnWrites = 1 .. Len(txn)
    BY <2>1 DEF TxnWrites
  <2>5. TxnWrites # << >>
    BY <2>1, <2>4
  <2> QED BY <1>3, <2>1, <2>3, <2>5 DEF Abs!WriteList, PendingFits
<1> QED BY <1>2, <1>3

(* The initial states of the journal are initial states of the store.      *)
LEMMA AbsInit == Init => Abs!Init
<1> SUFFICES ASSUME Init PROVE Abs!Init
  OBVIOUS
<1>1. Shape
  BY ShapeInit
<1>2. jStart = 0 /\ txn = << >> /\ reply = "none"
  BY DEF Init, Clean, PowerUp
<1>3. CommittedStore \in [FsBlock -> Val]
  BY <1>1, <1>2, CleanStore, HomeStoreType DEF Shape, TypeOK
<1> QED BY <1>1, <1>2, <1>3, PendingWrites DEF Abs!Init, PendingFits

(* The commit point: the write of jsb.s_start applies the transaction, all *)
(* of it.                                                                  *)
LEMMA CommitPoint ==
  ASSUME Inv, CommitJsb
  PROVE  Abs!Apply
<1>1. pc = "cJsb" /\ pc' = "ckFlush" /\ UNCHANGED <<txn, reply>>
  BY DEF CommitJsb
<1>2. jStart = 0 /\ txn # << >>
  BY <1>1 DEF Inv, Shape, Control, CommitPC
<1>3. CommittedStore' = Overlay(CommittedStore, TxnWrites)
  BY <1>2, CleanStore, TxnBecomesLive
<1>4. TxnWrites # << >> /\ TxnWrites' = TxnWrites
  BY <1>1, <1>2, PendingWrites DEF TxnWrites, Inv, PendingFits
<1>5. ~(txn # << >> /\ pc \in CkptPC) /\ (txn # << >> /\ pc \in CkptPC)'
  BY <1>1, <1>2 DEF CkptPC
<1>6. (txn # << >> /\ pc \in CkptPC)' = TRUE
  BY <1>5
<1>7. Abs!Overlay(CommittedStore, TxnWrites) = Overlay(CommittedStore, TxnWrites)
  BY DEF Overlay, Writes, LastWrite, Abs!Overlay, Abs!Writes, Abs!LastWrite
<1> QED BY <1>1, <1>3, <1>4, <1>5, <1>6, <1>7 DEF Abs!Apply

(* Nothing else changes what is committed: not the walk that replays it,   *)
(* not the checkpoint, and no failure.                                     *)
LEMMA StoreUnchanged ==
  ASSUME Inv, Next, ~CommitJsb
  PROVE  CommittedStore' = CommittedStore
<1>1. home \in [FsBlock -> Content]
  BY DEF Inv, Shape, TypeOK
<1>2. ASSUME UNCHANGED disk PROVE CommittedStore' = CommittedStore
  BY <1>1, <1>2, StoreKept DEF disk
<1>3. ASSUME NEW bit \in BOOLEAN, home' = SetRecover(bit), UNCHANGED <<log, jStart>>
      PROVE  CommittedStore' = CommittedStore
  BY <1>1, <1>3, RecoverMasked, SetRecoverType, StoreKept
<1>4. CASE \E w \in BOOLEAN : Open(w)
  BY <1>2, <1>4 DEF Open
<1>5. CASE \E t \in Txns : Submit(t) \/ RefuseCommit(t)
  BY <1>2, <1>5 DEF Submit, RefuseCommit
<1>6. CASE Walk
  BY <1>2, <1>6 DEF Walk, WalkStop, WalkMismatch, WalkCommit, WalkRevoke, WalkDescriptor
<1>7. CASE TagFlush
  <2>1. /\ AtTag /\ UNCHANGED <<log, jStart>>
        /\ home' = [home EXCEPT ![CurTag.blk] = Restore(TagData, CurTag.esc)]
    BY <1>7 DEF TagFlush, TagStep
  <2>2. home' \in [FsBlock -> Content]
    BY <1>7, TagShape DEF Inv, TagNext, Shape, TypeOK
  <2>3. \A b \in FsBlock : home'[b] = home[b] \/ b = CurTag.blk
    BY <1>1, <2>1
  <2> QED BY <1>1, <2>1, <2>2, <2>3, TagFacts, StoreKept
<1>8. CASE TagSkip \/ TagBuild \/ TagRefused \/ TagsDone
  BY <1>2, <1>8 DEF TagSkip, TagBuild, TagRefused, TagsDone, TagStep, disk
<1>9. CASE CkptFlush
  <2>1. /\ pc = "ckFlush" /\ UNCHANGED <<log, jStart>>
        /\ home' = [home EXCEPT ![map[idx].blk] = Restore(log[map[idx].jblk].data, map[idx].esc)]
    BY <1>9 DEF CkptFlush
  <2>2. home' \in [FsBlock -> Content]
    BY <1>9, CheckpointShape DEF Inv, Checkpoint, Shape, TypeOK
  <2>3. \A b \in FsBlock : home'[b] = home[b] \/ b = map[idx].blk
    BY <1>1, <2>1
  <2> QED BY <1>1, <2>1, <2>2, <2>3, FlushFacts, StoreKept
<1>10. CASE CkptJsb
  <2>1. pc = "ckJsb" /\ jStart' = 0 /\ home' = home
    BY <1>10 DEF CkptJsb
  <2> QED BY <2>1, CleaningKeepsStore, CleanStorePrimed DEF HomeStore
<1>11. CASE CkptSb
  BY <1>3, <1>11 DEF CkptSb
<1>12. CASE CommitSetRecover
  BY <1>3, <1>12 DEF CommitSetRecover
<1>13. CASE CommitDescriptor \/ CommitData \/ CommitBlockWrite
  <2>1. pc \in CommitPC /\ UNCHANGED <<home, jStart>>
    BY <1>13 DEF CommitDescriptor, CommitData, CommitBlockWrite, CommitPC
  <2>2. jStart = 0 /\ jStart' = 0
    BY <2>1 DEF Inv, Shape, Control
  <2> QED BY <2>1, <2>2, CleanStore, CleanStorePrimed DEF HomeStore
<1>14. CASE WriteError
  <2>1. pc \in CommitPC \cup CkptPC \cup {"tags"} /\ WriteFails
    BY <1>14, WriteFailsTypes DEF Inv, WriteError
  <2>2. CASE pc = "tags"
    <3>1. CutShort /\ UNCHANGED <<jStart, jSeq>>
      BY <2>1, <2>2 DEF WriteFails
    <3> QED BY <3>1, CutShortKeeps
  <2> QED BY <2>1, <2>2, CommitWriteFails, CheckpointWriteFails
<1>15. CASE ReadError \/ Crash
  BY <1>2, <1>15, CutShortKeeps DEF ReadError, Crash
<1>16. CASE \E w \in BOOLEAN : OpenBare(w)
  BY <1>2, <1>16 DEF OpenBare
<1> QED BY <1>4, <1>5, <1>6, <1>7, <1>8, <1>9, <1>10, <1>11, <1>12, <1>13, <1>14, <1>15, <1>16
        DEF Next, Work, Failure, Driver, TagNext, Checkpoint, Commit

(* Every step is a step of the atomic store or none.                       *)
LEMMA AbsStep == Inv /\ Inv' /\ PendingFits /\ PendingFits' /\ [Next]_vars
                  => [Abs!Next]_Abs!avars
<1> SUFFICES ASSUME Inv, Inv', PendingFits, PendingFits', [Next]_vars PROVE [Abs!Next]_Abs!avars
  OBVIOUS
<1> DEFINE applied == txn # << >> /\ pc \in CkptPC
<1>1. /\ txn = << >> => TxnWrites = << >>
      /\ txn # << >> => TxnWrites # << >>
      /\ txn' = << >> => TxnWrites' = << >>
      /\ txn' # << >> => Abs!WriteList(TxnWrites)'
      /\ txn' = txn => TxnWrites' = TxnWrites
  BY DEF PendingFits, TxnWrites
<1>2. CASE UNCHANGED vars
  <2>1. CommittedStore' = CommittedStore
    BY <1>2, StoreKept DEF vars, disk, Inv, Shape, TypeOK
  <2> QED BY <1>1, <1>2, <2>1 DEF Abs!avars, vars
<1>3. ASSUME Next, ~CommitJsb, UNCHANGED <<txn, reply>>, applied' = applied
      PROVE  UNCHANGED Abs!avars
  BY <1>1, <1>3, StoreUnchanged DEF Abs!avars
<1>4. ASSUME Next, ~CommitJsb, Reset PROVE Abs!Next
  BY <1>1, <1>4, StoreUnchanged DEF Reset, Abs!Next, Abs!Crash
<1>5. ASSUME NEW w \in BOOLEAN, Open(w) PROVE Abs!Next
  <2>1. Next /\ ~CommitJsb /\ txn' = << >> /\ reply' = "none"
    BY <1>5 DEF Open, CommitJsb, Next, Work
  <2> QED BY <1>1, <2>1, StoreUnchanged DEF Abs!Next, Abs!Crash
<1>6. ASSUME NEW t \in Txns, Submit(t) PROVE Abs!Next
  <2>1. /\ Next /\ ~CommitJsb /\ pc = "idle" /\ txn = << >>
        /\ pc' = "cSb" /\ reply' = "none"
    BY <1>6 DEF Submit, Accepts, Mounted, CommitJsb, Next, Work, Inv, Shape, Control
  <2>2. txn' # << >>
    BY <1>6, <2>1 DEF Inv, Shape, Control, CommitPC
  <2> QED BY <1>1, <2>1, <2>2, StoreUnchanged DEF Abs!Next, Abs!Submit, CkptPC, Abs!WriteList
<1>7. ASSUME NEW t \in Txns, RefuseCommit(t) PROVE Abs!Next
  <2>1. /\ Next /\ ~CommitJsb /\ txn = << >> /\ txn' = txn
        /\ reply' = "err"
    BY <1>7 DEF RefuseCommit, Mounted, CommitJsb, Next, Work, Inv, Shape, Control
  <2> QED BY <1>1, <2>1, StoreUnchanged DEF Abs!Next, Abs!Refuse
<1>8. ASSUME Walk \/ TagNext PROVE Reset \/ UNCHANGED <<txn, reply>>
  BY <1>8 DEF Walk, WalkStop, WalkMismatch, WalkCommit, WalkRevoke, WalkDescriptor,
     TagNext, TagSkip, TagFlush, TagBuild, TagRefused, TagsDone, TagStep,
     StepOver, EndPass, FinishReplay, RefuseMount
<1>9. CASE Walk \/ TagNext
  <2>1. pc \in {"walk", "tags"}
    BY <1>9 DEF Walk, WalkStop, WalkMismatch, WalkCommit, WalkRevoke, WalkDescriptor,
       TagNext, TagSkip, TagFlush, TagBuild, TagRefused, TagsDone, AtTag
  <2>2. Next /\ ~CommitJsb /\ txn = << >>
    BY <1>9, <2>1 DEF CommitJsb, Next, Work, Driver, Inv, Shape, Control
  <2>3. CASE UNCHANGED <<txn, reply>>
    BY <1>3, <2>2, <2>3
  <2> QED BY <1>4, <1>8, <1>9, <2>2, <2>3
<1>10. CASE CkptFlush \/ CkptJsb
  <2>1. Next /\ ~CommitJsb /\ UNCHANGED <<txn, reply>> /\ pc \in CkptPC /\ pc' \in CkptPC
    BY <1>10 DEF CkptFlush, CkptJsb, CommitJsb, Next, Work, Driver, Checkpoint, CkptPC
  <2> QED BY <1>3, <2>1
<1>11. CASE CkptSb
  <2>1. Next /\ ~CommitJsb /\ txn' = << >> /\ pc = "ckSb"
    BY <1>11 DEF CkptSb, CommitJsb, Next, Work, Driver, Checkpoint
  <2>2. CASE txn = << >>
    BY <1>3, <1>11, <2>1, <2>2 DEF CkptSb
  <2>3. CASE txn # << >>
    BY <1>1, <1>11, <2>1, <2>3, StoreUnchanged DEF CkptSb, Abs!Next, Abs!AnswerOk, CkptPC
  <2> QED BY <2>2, <2>3
<1>12. CASE CommitJsb
  BY <1>12, CommitPoint DEF Abs!Next
<1>13. CASE CommitSetRecover \/ CommitDescriptor \/ CommitData \/ CommitBlockWrite
  <2>1. /\ Next /\ ~CommitJsb /\ UNCHANGED <<txn, reply>>
        /\ pc \notin CkptPC /\ pc' \notin CkptPC
    BY <1>13 DEF CommitSetRecover, CommitDescriptor, CommitData, CommitBlockWrite,
       CommitJsb, Next, Work, Driver, Commit, CkptPC
  <2> QED BY <1>3, <2>1
<1>14. CASE WriteError
  <2>1. Next /\ ~CommitJsb
    <3>1. pc' # "ckFlush"
      BY <1>14 DEF WriteError, RefuseMount
    <3> QED BY <1>14, <3>1 DEF CommitJsb, Next, Failure
  <2>2. CASE pc = "tags"
    BY <1>4, <1>14, <2>1, <2>2 DEF WriteError, RefuseMount
  <2>3. CASE pc # "tags" /\ txn = << >>
    BY <1>3, <1>14, <2>1, <2>3 DEF WriteError
  <2>4. CASE pc # "tags" /\ txn # << >>
    BY <1>1, <1>14, <2>1, <2>4, StoreUnchanged DEF WriteError, Abs!Next, Abs!AnswerErr
  <2> QED BY <2>2, <2>3, <2>4
<1>15. CASE ReadError \/ Crash
  <2>1. Next /\ ~CommitJsb /\ Reset
    BY <1>15 DEF ReadError, Crash, RefuseMount, CommitJsb, Next, Failure
  <2> QED BY <1>4, <2>1
<1>16. ASSUME NEW w \in BOOLEAN, OpenBare(w) PROVE Abs!Next
  <2>1. Next /\ ~CommitJsb /\ txn' = << >> /\ reply' = "none"
    BY <1>16 DEF OpenBare, CommitJsb, Next, Failure
  <2> QED BY <1>1, <2>1, StoreUnchanged DEF Abs!Next, Abs!Crash
<1> QED BY <1>2, <1>5, <1>6, <1>7, <1>9, <1>10, <1>11, <1>12, <1>13, <1>14, <1>15, <1>16
        DEF Next, Work, Failure, Driver, Checkpoint, Commit

(* The driver implements the atomic store: with every step, every failed   *)
(* write and every power cut, what a mount would recover changes only by   *)
(* whole transactions, and a commit that returned 0 is in it.              *)
THEOREM JournalIsAtomic == Spec => AtomicAndDurable
<1>1. Init => Abs!Init
  BY AbsInit
<1>2. Inv /\ Inv' /\ PendingFits /\ PendingFits' /\ [Next]_vars => [Abs!Next]_Abs!avars
  BY AbsStep
<1>3. Inv => PendingFits
  BY PendingWrites DEF Inv
<1> QED BY <1>1, <1>2, <1>3, InvInvariant, PTL DEF Spec, Abs!Spec, AtomicAndDurable

(***************************************************************************)
(* Mounting what the driver wrote.                                         *)
(***************************************************************************)
(* A walk that has stepped over few blocks is not cut off.                 *)
LEMMA StepOverGoesOn ==
  ASSUME NEW w \in WalkState, w.n <= 3, NEW r, StepOver(w, r)
  PROVE  pc' # "refused"
<1> DEFINE v == [w EXCEPT !.blk = NextPos(w.blk), !.n = Visited(w)]
<1>1. v.n <= MaxLen + 4 /\ ~(v.n > MaxLen + 4)
  BY FormatAssumption DEF WalkState, Visited
<1>2. ASSUME EndPass(v) PROVE pc' # "refused"
  BY <1>2 DEF EndPass, FinishReplay
<1> QED BY <1>1, <1>2 DEF StepOver

(* walk_log finds no reason to refuse: every header it stops at is one it  *)
(* expects, or ends the pass.                                              *)
LEMMA WalkGoesOn ==
  ASSUME Inv, Walk
  PROVE  pc' # "refused"
<1>1. pc = "walk"
  BY DEF Walk, WalkStop, WalkMismatch, WalkCommit, WalkRevoke, WalkDescriptor
<1>2. /\ walk \in WalkState /\ seq \in 0 .. MaxSeq /\ MaxSeq \in Nat
      /\ First \in Nat /\ LiveEnd \in Nat
  BY <1>1, WalkFacts
<1>3. PassOK(walk) /\ (AtFirst \/ AtCommit \/ Beyond)
  BY <1>1 DEF Inv, Walking
<1>4. walk.n <= 3
  BY <1>3 DEF AtFirst, AtCommit, Beyond
<1>5. CASE WalkStop
  BY <1>5 DEF WalkStop, EndPass, FinishReplay
<1>6. CASE WalkMismatch
  <2>1. ~PastLast /\ HasMagic(Header) /\ ~Expected /\ walk.pass # "SCAN"
    BY <1>6 DEF WalkMismatch
  <2>2. Beyond
    BY <1>1, <1>3, <2>1, OwnHeaders
  <2>3. /\ walk.seq \in 0 .. MaxSeq + 2 /\ walk.end \in 0 .. MaxSeq + 2
        /\ walk.end <= seq + 1 /\ walk.seq > seq
    BY <1>2, <1>3, <2>1, <2>2 DEF PassOK, Beyond
  <2>4. walk.seq <= walk.end
    BY <2>1, <2>3, SeqArith DEF PastLast
  <2>5. walk.end = seq + 1 /\ walk.seq = seq + 1
    BY <1>2, <2>3, <2>4
  <2>6. StaleCommit /\ walk.blk = LiveEnd + 1
    BY <1>2, <1>3, <2>1, <2>2, <2>5 DEF PassOK, Beyond
  <2> QED BY <2>1, <2>5, <2>6 DEF StaleCommit, Expected, Header
<1>7. CASE WalkCommit
  <2> DEFINE s == SeqInc(walk.seq)
             w == [walk EXCEPT !.seq = s, !.end = IF walk.pass = "SCAN" THEN s ELSE @]
  <2>1. StepOver(w, revoked)
    BY <1>7 DEF WalkCommit
  <2>2. w \in WalkState /\ w.n = walk.n
    BY <1>2, SeqType DEF WalkState
  <2> HIDE DEF w
  <2> QED BY <1>4, <2>1, <2>2, StepOverGoesOn
<1>8. CASE WalkRevoke
  <2>1. Header.kind = "revoke" /\ Header.seq = walk.seq
    BY <1>8 DEF WalkRevoke, Expected
  <2> QED BY <1>1, <1>3, <2>1, HeaderFacts DEF DescriptorBlock, CommitBlock
<1>9. CASE WalkDescriptor
  BY <1>9 DEF WalkDescriptor
<1> QED BY <1>5, <1>6, <1>7, <1>8, <1>9 DEF Walk

(* iterate_descriptor_tags finds none either: every tag's data is what its *)
(* checksum covers, and the map holds a whole transaction.                 *)
LEMMA TagsGoOn ==
  ASSUME Inv, TagNext
  PROVE  pc' # "refused"
<1>1. CASE TagSkip \/ TagFlush \/ TagBuild
  BY <1>1 DEF TagSkip, TagFlush, TagBuild, TagStep, AtTag
<1>2. CASE TagRefused
  <2>1. AtTag /\ Applies
    BY <1>2 DEF TagRefused
  <2>2. /\ TagVerifies(CurTag, walk.seq, TagData) /\ PassOK(walk) /\ AtTags
        /\ walk.k \in Nat /\ walk.k + 1 \in 1 .. Len(LiveTags)
    BY <2>1, TagFacts
  <2> DEFINE m == Upsert(map, [blk |-> CurTag.blk, jblk |-> TagPos, esc |-> CurTag.esc])
  <2>3. walk.pass = "BUILD" /\ Len(m) > ReplayMax
    BY <1>2, <2>2 DEF TagRefused
  <2>4. Len(map) <= walk.k
    BY <2>2, <2>3 DEF AtTags, Built
  <2>5. map \in Seq(MapEntry)
    BY DEF Inv, Shape, TypeOK
  <2>6. Len(m) <= Len(map) + 1 /\ Len(map) \in Nat
    BY <2>5, UpsertShows
  <2>7. Len(m) \in Nat
    <3>1. /\ CurTag.blk \in FsBlock /\ CurTag.esc \in BOOLEAN /\ TagPos \in LogPos
      BY <2>1, TagFacts, WalkFacts, NextPosType DEF WalkState, TagPos
    <3>2. [blk |-> CurTag.blk, jblk |-> TagPos, esc |-> CurTag.esc] \in MapEntry
      BY <3>1 DEF MapEntry
    <3>3. m \in Seq(MapEntry)
      BY <2>5, <3>2, UpsertType
    <3> HIDE DEF m
    <3> QED BY <3>3
  <2>8. Len(LiveTags) <= TransMax /\ Len(LiveTags) \in Nat
    BY <2>1, TagFacts, WalkFacts, LiveFacts, JournalAssumption DEF Inv
  <2> HIDE DEF m
  <2> QED BY <2>2, <2>3, <2>4, <2>6, <2>7, <2>8, JournalAssumption
<1>3. CASE TagsDone
  <2>1. pc = "tags" /\ StepOver(walk, revoked)
    BY <1>3 DEF TagsDone
  <2>2. walk \in WalkState /\ walk.n = 0
    BY <2>1, WalkFacts DEF Inv, Walking, AtTags
  <2> QED BY <2>1, <2>2, StepOverGoesOn
<1> QED BY <1>1, <1>2, <1>3 DEF TagNext

(* The driver mounts what it wrote: no mismatch, no bad tag, no full map   *)
(* and no endless walk can come of its own commits.                        *)
THEOREM OwnLogNeverRefused == Spec => OwnLogMounts
<1>1. ASSUME Inv, Driver PROVE pc' # "refused"
  <2>1. CASE Checkpoint
    BY <2>1 DEF Checkpoint, CkptFlush, CkptJsb, CkptSb
  <2>2. CASE Commit
    BY <2>2 DEF Commit, CommitSetRecover, CommitDescriptor, CommitData,
       CommitBlockWrite, CommitJsb
  <2> QED BY <1>1, <2>1, <2>2, WalkGoesOn, TagsGoOn DEF Driver
<1>2. Inv /\ [Next]_vars => [Driver => pc' # "refused"]_vars
  BY <1>1
<1> QED BY <1>2, InvInvariant, PTL DEF Spec, OwnLogMounts
==============================================================================
