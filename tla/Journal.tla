------------------------------- MODULE Journal -------------------------------
(***************************************************************************)
(* The life of one ext4 volume under the driver's journal code:            *)
(* mount (ext4_fs_open: ext4_journal_init, ext4_journal_replay,            *)
(* ext4_journal_checkpoint), transactions (ext4_journal_commit, which      *)
(* checkpoints at once), reads (ext4_fs_read_block), write errors, and a   *)
(* power cut or process end between any two block writes.                  *)
(*                                                                         *)
(* One action is one block write of the code, one iteration of walk_log's  *)
(* loop, or one tag of a descriptor.                                       *)
(***************************************************************************)
EXTENDS JournalFormat

CONSTANTS
  Txns,       \* the transactions callers may submit: sequences of writes
  Disk,       \* the disks a behaviour may start from
  TransMax,   \* EXT4_JBD_TRANS_MAX_BLOCKS
  ReplayMax,  \* EXT4_JBD_REPLAY_MAP_MAX
  RevokeMax,  \* EXT4_JBD_REVOKE_MAP_MAX
  MaxSeq      \* bound of a run: no commit starts at this sequence number

Write == [blk : FsBlock, body : Body, head : FirstWord]
DiskState == [home : [FsBlock -> Content], log : [LogPos -> LogBlock],
              start : LogPos \cup {0}, seq : SeqNo]

ASSUME JournalAssumption ==
  /\ TransMax \in Nat \ {0} /\ ReplayMax \in Nat /\ RevokeMax \in Nat
  /\ TransMax <= ReplayMax
  /\ MaxSeq \in Nat /\ 2 * (MaxSeq + 2) < SeqLimit
  /\ Txns \subseteq Seq(Write) \ {<< >>}

VARIABLES
  home,      \* disk: the fs blocks in place
  log,       \* disk: the log blocks
  jStart,    \* disk: jsb.s_start, 0 when the log is clean
  jSeq,      \* disk: jsb.s_sequence
  pc,        \* where the driver is
  writable,  \* memory: was the device opened for writing?
  start,     \* memory: jbd.start
  seq,       \* memory: jbd.sequence
  rec,       \* memory: the RECOVER bit of fs->sb.feature_incompat
  active,    \* memory: jbd.replay_active
  map,       \* memory: jbd.replay[0 .. replay_count-1]
  revoked,   \* memory: jbd.revoke, as a function
  walk,      \* memory: walk_log's locals
  txn,       \* memory: the transaction in ext4_journal_commit, or << >>
  idx,       \* memory: the loop index of the data and flush loops
  reply      \* what the last ext4_journal_commit returned

disk == <<home, log, jStart, jSeq>>
jbd  == <<writable, start, seq, rec, active, map, revoked, walk>>
vars == <<disk, pc, jbd, txn, idx, reply>>

Pass == {"SCAN", "REVOKE", "FLUSH", "BUILD"}
CommitPC == {"cSb", "cDesc", "cData", "cCommit", "cJsb"}
CkptPC == {"ckFlush", "ckJsb", "ckSb"}
PC == {"down", "refused", "bare", "idle", "walk", "tags"} \cup CommitPC \cup CkptPC
Mounted == pc \in {"idle", "bare"}   \* "bare": with jbd.present = 0

MapEntry == [blk : FsBlock, jblk : LogPos, esc : BOOLEAN]
WalkState == [pass : Pass, blk : LogPos, seq : SeqNo, end : SeqNo,
              desc : LogPos, k : Nat, n : Nat]
StagedWrite == [blk : FsBlock, data : Content]

(***************************************************************************)
(* Reads and the replay map.                                               *)
(***************************************************************************)
Hits(b) == {k \in DOMAIN map : map[k].blk = b}
FirstHit(b) == CHOOSE k \in Hits(b) : \A m \in Hits(b) : k <= m

ReadInPlace(b) == home[b]                                  \* a seeded fault
ReadView(b) ==
  IF active /\ Hits(b) # {}
  THEN LET e == map[FirstHit(b)] IN Restore(log[e.jblk].data, e.esc)
  ELSE home[b]

AppendOnly(m, e) == Append(m, e)                           \* a seeded fault
Upsert(m, e) ==
  IF \E k \in DOMAIN m : m[k].blk = e.blk
  THEN [k \in DOMAIN m |-> IF m[k].blk = e.blk THEN e ELSE m[k]]
  ELSE Append(m, e)

NoRevokes == [b \in FsBlock |-> NoSeq]
RevokeUpsert(r, blks, s) ==
  [b \in FsBlock |->
     IF b \in blks /\ (r[b] = NoSeq \/ SeqDiff(s, r[b]) > 0) THEN s ELSE r[b]]
RevokedEver(b, s) == revoked[b] # NoSeq                    \* a seeded fault
IsRevoked(b, s) == revoked[b] # NoSeq /\ SeqDiff(revoked[b], s) >= 0

SetOnly(bit) == [home EXCEPT ![SB].recover = TRUE]         \* a seeded fault
SetRecover(bit) == [home EXCEPT ![SB].recover = bit]

(***************************************************************************)
(* Power-up state.                                                         *)
(***************************************************************************)
IdleWalk == [pass |-> "SCAN", blk |-> First, seq |-> 0, end |-> 0,
             desc |-> First, k |-> 0, n |-> 0]

Reset ==
  /\ writable' = FALSE /\ start' = 0 /\ seq' = 0 /\ rec' = FALSE
  /\ active' = FALSE /\ map' = << >> /\ revoked' = NoRevokes
  /\ walk' = IdleWalk /\ txn' = << >> /\ idx' = 0 /\ reply' = "none"

PowerUp(d) ==
  /\ home = d.home /\ log = d.log /\ jStart = d.start /\ jSeq = d.seq
  /\ pc = "down"
  /\ writable = FALSE /\ start = 0 /\ seq = 0 /\ rec = FALSE
  /\ active = FALSE /\ map = << >> /\ revoked = NoRevokes
  /\ walk = IdleWalk /\ txn = << >> /\ idx = 0 /\ reply = "none"

(***************************************************************************)
(* A cleanly unmounted journal: nothing to replay, and whatever the log    *)
(* still holds is older than the next sequence number.                     *)
(***************************************************************************)
Clean(d) ==
  /\ d \in DiskState
  /\ d.start = 0
  /\ d.seq \in 0 .. MaxSeq
  /\ \A p \in LogPos :
       /\ d.log[p].kind # "data" => d.log[p].seq < d.seq
       /\ d.log[p].data.head # "magic"

Init      == \E d \in Disk : Clean(d) /\ PowerUp(d)
InitDirty == \E d \in Disk : PowerUp(d)

(***************************************************************************)
(* Mount.  Open: ext4_journal_init has returned 0 and found the journal.   *)
(***************************************************************************)
StartPass(pass, st, s, end) ==
  [pass |-> pass, blk |-> st, seq |-> s, end |-> end,
   desc |-> First, k |-> 0, n |-> 0]

(* When ext4_journal_checkpoint has work to do. *)
RecoverOnly(act, bit, st) == act \/ bit                    \* a seeded fault
NeedsCheckpoint(act, bit, st) == act \/ bit \/ st # 0

Open(w) ==
  /\ pc \in {"down", "refused"}
  /\ writable' = w
  /\ start' = jStart /\ seq' = jSeq /\ rec' = home[SB].recover
  /\ active' = FALSE /\ map' = << >> /\ revoked' = NoRevokes
  /\ \/ /\ jStart # 0
        /\ pc' = "walk"
        /\ walk' = StartPass("SCAN", jStart, jSeq, 0)
     \/ /\ jStart = 0
        /\ pc' = IF w /\ NeedsCheckpoint(FALSE, home[SB].recover, 0) THEN "ckJsb" ELSE "idle"
        /\ walk' = IdleWalk
  /\ txn' = << >> /\ idx' = 0 /\ reply' = "none"
  /\ UNCHANGED disk

(* ext4_journal_init returns an error, for a failed read or for a journal  *)
(* it does not support, or the volume has none: ext4_fs_open mounts it all *)
(* the same, without replay, and reads go home.  A refused block size or   *)
(* feature leaves jbd.start and jbd.sequence set.                          *)
OpenBare(w) ==
  /\ pc \in {"down", "refused"}
  /\ writable' = w
  /\ \/ start' = 0 /\ seq' = 0
     \/ start' = jStart /\ seq' = jSeq
  /\ rec' = home[SB].recover
  /\ active' = FALSE /\ map' = << >> /\ revoked' = NoRevokes
  /\ pc' = "bare" /\ walk' = IdleWalk
  /\ txn' = << >> /\ idx' = 0 /\ reply' = "none"
  /\ UNCHANGED disk

(* ext4_fs_open returns an error and the caller drops the handle. *)
RefuseMount ==
  /\ pc' = "refused"
  /\ Reset

(* The walk is over: a read-only mount keeps the map, a writable one goes  *)
(* on to the checkpoint.                                                   *)
FinishReplay ==
  /\ active' = (walk.pass = "BUILD" /\ map # << >>)
  /\ pc' = IF writable /\ NeedsCheckpoint(active', rec, start)
           THEN "ckJsb" ELSE "idle"
  /\ walk' = IdleWalk
  /\ UNCHANGED <<writable, start, seq, rec, map, revoked, txn, idx, reply>>

(* log_end: the pass ends at w and the next one starts. *)
LastSeqOneTooFar(w) == w.end                               \* a seeded fault
LastSeq(w) == IF SeqDiff(w.end, seq) > 0 THEN SeqDec(w.end) ELSE w.end

EndPass(w) ==
  LET last == LastSeq(w)
      Again(pass, end) ==
        /\ walk' = StartPass(pass, start, seq, end)
        /\ pc' = "walk"
        /\ UNCHANGED <<writable, start, seq, rec, active, map, txn, idx, reply>>
  IN
  \/ /\ w.pass = "SCAN" /\ SeqDiff(last, seq) >= 0
     /\ Again("REVOKE", last)
  \/ /\ w.pass = "REVOKE"
     /\ Again(IF writable THEN "FLUSH" ELSE "BUILD", w.end)
  \/ /\ \/ w.pass \in {"FLUSH", "BUILD"}
        \/ w.pass = "SCAN" /\ SeqDiff(last, seq) < 0
     /\ FinishReplay

(* The bottom of walk_log's loop: step over the block just handled. *)
NotCounted(w) == w.n                                       \* a seeded fault
Visited(w) == w.n + 1

StepOver(w, r) ==
  LET p == NextPos(w.blk)
      v == [w EXCEPT !.blk = p, !.n = Visited(w)]
  IN
  \/ v.n > MaxLen + 4 /\ RefuseMount
  \/ v.n <= MaxLen + 4 /\ p = start /\ EndPass(v) /\ revoked' = r
  \/ /\ v.n <= MaxLen + 4 /\ p # start
     /\ pc' = "walk" /\ walk' = v /\ revoked' = r
     /\ UNCHANGED <<writable, start, seq, rec, active, map, txn, idx, reply>>

Header == log[walk.blk]
PastLast == walk.pass # "SCAN" /\ SeqDiff(walk.seq, walk.end) > 0
Expected == Header.kind # "data" /\ Header.seq = walk.seq

WalkStop ==
  /\ pc = "walk"
  /\ \/ PastLast
     \/ ~PastLast /\ ~HasMagic(Header)
     \/ ~PastLast /\ HasMagic(Header) /\ ~Expected /\ walk.pass = "SCAN"
     \/ ~PastLast /\ Expected /\ ~Verifies(Header)
  /\ EndPass(walk)
  /\ UNCHANGED <<disk, revoked>>

WalkMismatch ==
  /\ pc = "walk" /\ ~PastLast
  /\ HasMagic(Header) /\ ~Expected /\ walk.pass # "SCAN"
  /\ RefuseMount
  /\ UNCHANGED disk

WalkCommit ==
  /\ pc = "walk" /\ ~PastLast
  /\ Expected /\ Header.kind = "commit" /\ Verifies(Header)
  /\ LET s == SeqInc(walk.seq) IN
     StepOver([walk EXCEPT !.seq = s,
                           !.end = IF walk.pass = "SCAN" THEN s ELSE @],
              revoked)
  /\ UNCHANGED disk

WalkRevoke ==
  /\ pc = "walk" /\ ~PastLast
  /\ Expected /\ Header.kind = "revoke" /\ Verifies(Header)
  /\ LET r == IF walk.pass = "REVOKE"
              THEN RevokeUpsert(revoked, Header.revokes, walk.seq)
              ELSE revoked
         full == Cardinality({b \in FsBlock : r[b] # NoSeq}) > RevokeMax
     IN  IF full THEN RefuseMount ELSE StepOver(walk, r)
  /\ UNCHANGED disk

WalkDescriptor ==
  /\ pc = "walk" /\ ~PastLast
  /\ Expected /\ Header.kind = "descriptor" /\ Verifies(Header)
  /\ pc' = "tags"
  /\ walk' = [walk EXCEPT !.desc = walk.blk, !.k = 0]
  /\ UNCHANGED <<disk, writable, start, seq, rec, active, map, revoked,
                 txn, idx, reply>>

(***************************************************************************)
(* iterate_descriptor_tags: one step per tag.  A tag's data is the next    *)
(* log block; the third pass writes it home or maps it, unless revoked.    *)
(***************************************************************************)
Tags == log[walk.desc].tags
CurTag == Tags[walk.k + 1]
TagPos == NextPos(walk.blk)
TagData == log[TagPos].data
Applies == walk.pass \in {"FLUSH", "BUILD"} /\ ~IsRevoked(CurTag.blk, walk.seq)

AtTag == pc = "tags" /\ walk.k < Len(Tags)

TagStep ==
  /\ walk' = [walk EXCEPT !.blk = TagPos, !.k = walk.k + 1]
  /\ UNCHANGED <<log, jStart, jSeq, pc, writable, start, seq, rec, active,
                 revoked, txn, idx, reply>>

TagSkip ==
  /\ AtTag /\ ~Applies
  /\ UNCHANGED <<home, map>>
  /\ TagStep

TagFlush ==
  /\ AtTag /\ Applies /\ walk.pass = "FLUSH"
  /\ TagVerifies(CurTag, walk.seq, TagData)
  /\ home' = [home EXCEPT ![CurTag.blk] = Restore(TagData, CurTag.esc)]
  /\ UNCHANGED map
  /\ TagStep

TagBuild ==
  /\ AtTag /\ Applies /\ walk.pass = "BUILD"
  /\ TagVerifies(CurTag, walk.seq, TagData)
  /\ map' = Upsert(map, [blk |-> CurTag.blk, jblk |-> TagPos, esc |-> CurTag.esc])
  /\ Len(map') <= ReplayMax
  /\ UNCHANGED home
  /\ TagStep

(* The data is not what the tag's checksum covers, or the map is full. *)
TagRefused ==
  /\ AtTag /\ Applies
  /\ \/ ~TagVerifies(CurTag, walk.seq, TagData)
     \/ /\ walk.pass = "BUILD"
        /\ Len(Upsert(map, [blk |-> CurTag.blk, jblk |-> TagPos,
                            esc |-> CurTag.esc])) > ReplayMax
  /\ RefuseMount
  /\ UNCHANGED disk

TagsDone ==
  /\ pc = "tags" /\ ~AtTag
  /\ StepOver(walk, revoked)
  /\ UNCHANGED disk

(***************************************************************************)
(* ext4_journal_checkpoint, from the mount (txn = << >>) or a commit.      *)
(***************************************************************************)
CkptFlush ==
  /\ pc = "ckFlush" /\ idx \in DOMAIN map
  /\ LET e == map[idx] IN
     home' = [home EXCEPT ![e.blk] = Restore(log[e.jblk].data, e.esc)]
  /\ idx' = idx + 1
  /\ pc' = IF idx = Len(map) THEN "ckJsb" ELSE "ckFlush"
  /\ UNCHANGED <<log, jStart, jSeq, jbd, txn, reply>>

CkptJsb ==
  /\ pc = "ckJsb"
  /\ jStart' = 0 /\ jSeq' = seq
  /\ pc' = "ckSb"
  /\ UNCHANGED <<home, log, jbd, txn, idx, reply>>

CkptSb ==
  /\ pc = "ckSb"
  /\ home' = SetRecover(FALSE)
  /\ start' = 0 /\ rec' = FALSE /\ active' = FALSE
  /\ map' = << >> /\ revoked' = NoRevokes
  /\ pc' = "idle"
  /\ \/ txn = << >> /\ UNCHANGED <<seq, reply>>
     \/ txn # << >> /\ seq' = SeqInc(seq) /\ reply' = "ok"
  /\ txn' = << >> /\ idx' = 0
  /\ UNCHANGED <<log, jStart, jSeq, writable, walk>>

(***************************************************************************)
(* ext4_journal_commit.                                                    *)
(***************************************************************************)
AcceptsBare(t) ==                                          \* a seeded fault
  /\ writable /\ start = 0
  /\ Len(t) \in 1 .. TransMax /\ First + 1 + Len(t) + 1 <= MaxLen
AcceptsDirty(t) ==                                         \* a seeded fault
  /\ pc # "bare" /\ writable
  /\ Len(t) \in 1 .. TransMax /\ First + 1 + Len(t) + 1 <= MaxLen

Accepts(t) ==
  /\ pc # "bare"                                            \* jbd.present
  /\ writable
  /\ start = 0
  /\ Len(t) \in 1 .. TransMax
  /\ First + 1 + Len(t) + 1 <= MaxLen

(* Callers patch a copy of what they read, so a superblock goes into the   *)
(* transaction with the RECOVER bit it had on disk then.                   *)
Stage(t) ==
  [k \in DOMAIN t |->
     [blk |-> t[k].blk,
      data |-> [body |-> t[k].body, head |-> t[k].head,
                recover |-> t[k].blk = SB /\ ReadView(SB).recover]]]

Submit(t) ==
  /\ Mounted /\ Accepts(t) /\ seq < MaxSeq
  /\ txn' = Stage(t)
  /\ pc' = "cSb" /\ idx' = 1 /\ reply' = "none"
  /\ UNCHANGED <<disk, jbd>>

RefuseCommit(t) ==
  /\ Mounted /\ ~Accepts(t)
  /\ reply' = "err"
  /\ UNCHANGED <<disk, pc, jbd, txn, idx>>

CommitSetRecover ==                                       \* step 1
  /\ pc = "cSb"
  /\ home' = SetRecover(TRUE)
  /\ pc' = "cDesc"
  /\ UNCHANGED <<log, jStart, jSeq, jbd, txn, idx, reply>>

TxnTags == [k \in DOMAIN txn |-> TagOf(txn[k].blk, txn[k].data, seq)]
DescWritten == [log EXCEPT ![First] = DescriptorBlock(seq, TxnTags)]
DataWritten == [log EXCEPT ![First + idx] = DataBlock(Escape(txn[idx].data))]
CommitWrittenNextSeq ==                                    \* a seeded fault
  [log EXCEPT ![First + 1 + Len(txn)] = CommitBlock(SeqInc(seq))]
CommitWritten == [log EXCEPT ![First + 1 + Len(txn)] = CommitBlock(seq)]

CommitDescriptor ==                                       \* step 2
  /\ pc = "cDesc"
  /\ log' = DescWritten
  /\ pc' = "cData"
  /\ UNCHANGED <<home, jStart, jSeq, jbd, txn, idx, reply>>

CommitData ==                                             \* step 3
  /\ pc = "cData"
  /\ log' = DataWritten
  /\ idx' = idx + 1
  /\ pc' = IF idx = Len(txn) THEN "cCommit" ELSE "cData"
  /\ UNCHANGED <<home, jStart, jSeq, jbd, txn, reply>>

CommitBlockWrite ==                                       \* step 4
  /\ pc = "cCommit"
  /\ log' = CommitWritten
  /\ pc' = "cJsb"
  /\ UNCHANGED <<home, jStart, jSeq, jbd, txn, idx, reply>>

(* Steps 5 and 6: the journal superblock, then the replay map. *)
TxnMap == [k \in DOMAIN txn |->
             [blk |-> txn[k].blk, jblk |-> First + k,
              esc |-> NeedsEscape(txn[k].data)]]

CommitJsbForgetsStart ==                                   \* a seeded fault
  /\ pc = "cJsb"
  /\ jStart' = First /\ jSeq' = seq
  /\ active' = TRUE /\ map' = TxnMap
  /\ pc' = "ckFlush" /\ idx' = 1
  /\ UNCHANGED <<home, log, start, writable, seq, rec, revoked, walk, txn, reply>>

CommitJsb ==
  /\ pc = "cJsb"
  /\ jStart' = First /\ jSeq' = seq
  /\ start' = First /\ active' = TRUE /\ map' = TxnMap
  /\ pc' = "ckFlush" /\ idx' = 1
  /\ UNCHANGED <<home, log, writable, seq, rec, revoked, walk, txn, reply>>

(***************************************************************************)
(* Failures.  A write of a whole block can be cut short: the block is then *)
(* neither old nor new.  The two single-sector updates, of the journal     *)
(* superblock and of the RECOVER bit, happen or do not happen.             *)
(***************************************************************************)
Torn == [body |-> TornBody, head |-> "plain", recover |-> FALSE]

HomeTarget ==
  CASE pc = "ckFlush" -> {map[idx].blk}
    [] AtTag /\ Applies /\ walk.pass = "FLUSH" -> {CurTag.blk}
    [] OTHER -> {}
LogTarget ==
  CASE pc = "cDesc"   -> {First}
    [] pc = "cData"   -> {First + idx}
    [] pc = "cCommit" -> {First + 1 + Len(txn)}
    [] OTHER -> {}

HomeTorn ==
  \E b \in HomeTarget, bit \in BOOLEAN :
    home' = [home EXCEPT ![b] = [Torn EXCEPT !.recover = bit /\ b = SB]]
LogTorn == \E p \in LogTarget : log' = [log EXCEPT ![p] = DataBlock(Torn)]

CutShort == \/ UNCHANGED <<home, log>>
            \/ HomeTorn /\ UNCHANGED log
            \/ LogTorn /\ UNCHANGED home

(* The write is reported as failed, whatever of it reached the disk; but a *)
(* failed update of the journal superblock by a commit did not happen.     *)
WriteFails ==
  \/ /\ HomeTarget # {} \/ LogTarget # {}
     /\ CutShort
     /\ UNCHANGED <<jStart, jSeq>>
  \/ /\ pc \in {"cSb", "ckSb"}
     /\ home' \in {home, SetRecover(pc = "cSb")}
     /\ UNCHANGED <<log, jStart, jSeq>>
  \/ /\ \/ pc = "cDesc" /\ log' = DescWritten
        \/ pc = "cData" /\ log' = DataWritten
        \/ pc = "cCommit" /\ log' = CommitWritten
     /\ UNCHANGED <<home, jStart, jSeq>>
  \/ /\ pc = "ckJsb"
     /\ \/ UNCHANGED <<jStart, jSeq>>
        \/ jStart' = 0 /\ jSeq' = seq
     /\ UNCHANGED <<home, log>>
  \/ pc = "cJsb" /\ UNCHANGED disk

(* A commit or its checkpoint returns the error; a mount ignores the       *)
(* checkpoint's, and refuses after the walk's.                             *)
WriteError ==
  /\ WriteFails
  /\ \/ pc = "tags" /\ RefuseMount
     \/ /\ pc # "tags"
        /\ pc' = "idle"
        /\ reply' = IF txn = << >> THEN reply ELSE "err"
        /\ txn' = << >> /\ idx' = 0
        /\ UNCHANGED jbd

(* The volume's superblock cannot be read or is refused (-1, -2, -3), or a *)
(* log block cannot be read (-6).  A failed read of the journal's inode or *)
(* superblock does not refuse the mount: that is OpenBare.                 *)
ReadError ==
  /\ pc \in {"down", "refused", "walk", "tags"}
  /\ RefuseMount
  /\ UNCHANGED disk

(* Power is lost, the process ends or the driver is uninstalled. *)
Crash ==
  /\ pc # "down"
  /\ CutShort
  /\ pc' = "down"
  /\ Reset
  /\ UNCHANGED <<jStart, jSeq>>

(***************************************************************************)
(* The specification.                                                      *)
(***************************************************************************)
Walk == WalkStop \/ WalkMismatch \/ WalkCommit \/ WalkRevoke \/ WalkDescriptor
TagNext == TagSkip \/ TagFlush \/ TagBuild \/ TagRefused \/ TagsDone
Checkpoint == CkptFlush \/ CkptJsb \/ CkptSb
Commit == CommitSetRecover \/ CommitDescriptor \/ CommitData
          \/ CommitBlockWrite \/ CommitJsb
Driver == Walk \/ TagNext \/ Checkpoint \/ Commit

Work ==
  \/ \E w \in BOOLEAN : Open(w)
  \/ \E t \in Txns : Submit(t) \/ RefuseCommit(t)
  \/ Driver

Failure == WriteError \/ ReadError \/ Crash \/ \E w \in BOOLEAN : OpenBare(w)

Next == Work \/ Failure

Spec == Init /\ [][Next]_vars
==============================================================================
