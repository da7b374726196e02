---------------------------- MODULE ForeignLogInv ----------------------------
(***************************************************************************)
(* The inductive invariant behind ReadsSeeRecovered and                    *)
(* RefusesOnlyBeyondLimits: what the disk, the walk and the map are at     *)
(* every step of reading the log that another system left, when nobody     *)
(* commits.                                                                *)
(***************************************************************************)
EXTENDS ForeignLog

(* What a log is like that somebody wrote.  Its headers and their data do  *)
(* not run into its start; sequence numbers do not span half of the number *)
(* space; if no transaction was committed, the number is one that the SCAN *)
(* pass does not take for an earlier one than the 0 it then reports        *)
(* (journal.c:438).                                                        *)
PlainBlocks(d) ==
  \A p \in LogPos :
    /\ d.log[p].kind # "descriptor" => d.log[p].tags = << >>
    /\ d.log[p].kind # "revoke" => d.log[p].revokes = {}
InOrder(d) ==
  \A h, e \in Reached(d) : h.off <= e.off => SeqDiff(e.seq, h.seq) >= 0
WellWritten(d) ==
  /\ d \in DiskState
  /\ d.start # 0 =>
       /\ PlainBlocks(d)
       /\ \A h \in Reached(d) : h.off <= LogSize
       /\ InOrder(d)
       /\ Committed(d) = {} => SeqDiff(0, d.seq) < 0

ASSUME WrittenAssumption ==
  /\ \A d \in Written : WellWritten(d)
  /\ \A d \in Disk, e \in Written : d.log = e.log => d = e

(* The tags of every transaction that counts have the checksums of its     *)
(* data.                                                                   *)
SumsMatch(d) ==
  \A h \in Committed(d) : \A k \in DOMAIN At(d, h.off).tags :
    TagVerifies(At(d, h.off).tags[k], h.seq, At(d, h.off + k).data)

ASSUME SumsAssumption == \A d \in Written : SumsMatch(d)

(***************************************************************************)
(* What was read of the log up to offset w.                                *)
(***************************************************************************)
Commits(d) == {c \in Headers(d) : At(d, c.off).kind = "commit"}

\* of the copies of b below w, c is the last
LastBelow(d, b, c, w) ==
  /\ c \in Copies(d, b) /\ c.off < w
  /\ \A e \in Copies(d, b) : e.off < w => e.off <= c.off

FlushedTo(d, w) ==
  \A b \in FsBlock : \A c \in Copies(d, b) :
    LastBelow(d, b, c, w) => Mask(home[b]) = CopyVal(d, c)
BuiltTo(d, w) ==
  /\ \A i \in DOMAIN map :
       \E c \in Copies(d, map[i].blk) :
         /\ LastBelow(d, map[i].blk, c, w)
         /\ map[i].jblk = Pos(d, c.off) /\ map[i].esc = c.esc
  /\ \A b \in FsBlock : \A c \in Copies(d, b) :
       c.off < w => \E i \in DOMAIN map : map[i].blk = b

\* the number in the revoke table is that of the last record that counts
Revokers(d, b, w) == {h \in Committed(d) : h.off < w /\ b \in At(d, h.off).revokes}
RevokedTo(d, r, w) ==
  \A b \in FsBlock :
    IF Revokers(d, b, w) = {} THEN r[b] = NoSeq
    ELSE \E h \in Revokers(d, b, w) :
           r[b] = h.seq /\ \A e \in Revokers(d, b, w) : e.off <= h.off

\* what the SCAN pass has seen, and what it hands to the others
Scanned(d, v, h) ==
  v.pass = "SCAN" => v.end = IF \E c \in Commits(d) : c.off < h.off THEN h.seq ELSE 0
Final(d, s) ==
  \E c \in Commits(d) : s = c.seq /\ \A e \in Commits(d) : e.off <= c.off

\* v: the walk's locals, r: the revoke table
PassAt(d, v, r, w) ==
  /\ v.pass = "SCAN" => r = NoRevokes
  /\ v.pass # "SCAN" => Final(d, v.end)
  /\ v.pass = "REVOKE" => RevokedTo(d, r, w)
  /\ v.pass \in {"FLUSH", "BUILD"} => RevokedTo(d, r, LogSize)
  /\ v.pass = "FLUSH" => writable /\ FlushedTo(d, w)
  /\ v.pass = "BUILD" => ~writable /\ BuiltTo(d, w)
  /\ v.pass # "BUILD" => map = << >>

AtHeader(d) ==
  \E h \in Reached(d) :
    /\ h.off < LogSize /\ walk.blk = Pos(d, h.off) /\ walk.seq = h.seq /\ walk.n <= h.off
    /\ Scanned(d, walk, h) /\ PassAt(d, walk, revoked, h.off)
AmongTags(d) ==
  \E h \in Headers(d) :
    /\ At(d, h.off).kind = "descriptor"
    /\ walk.desc = Pos(d, h.off) /\ walk.seq = h.seq /\ walk.n <= h.off
    /\ walk.k <= Len(At(d, h.off).tags) /\ walk.blk = Pos(d, h.off + walk.k)
    /\ walk.pass # "SCAN" => h \in Committed(d)
    /\ Scanned(d, walk, h) /\ PassAt(d, walk, revoked, h.off + walk.k + 1)

(***************************************************************************)
(* The disk, and what memory makes of it.                                  *)
(***************************************************************************)
HomeMeans(d) == \A b \in FsBlock : Mask(home[b]) = Meaning(d)[b]
ReadsMean(d) == \A b \in FsBlock : Mask(ReadView(b)) = Meaning(d)[b]

OnDisk(d) ==
  /\ home \in [FsBlock -> Content] /\ log = d.log /\ jSeq = d.seq
  /\ jStart \in {d.start, 0}
  /\ \A b \in FsBlock : Mask(home[b]) \in InPlace(d)[b]
  /\ jStart = 0 => HomeMeans(d)

Recovering(d) ==
  /\ OnDisk(d)
  /\ txn = << >> /\ pc \in {"down", "refused", "bare", "idle", "walk", "tags", "ckJsb", "ckSb"}
  /\ map \in Seq(MapEntry) /\ revoked \in [FsBlock -> SeqNo \cup {NoSeq}] /\ walk \in WalkState
  /\ pc \notin {"down", "refused", "bare"} => seq = d.seq
  /\ pc \in {"idle", "ckJsb", "ckSb"} => ReadsMean(d)
  /\ pc \in {"bare", "ckJsb", "ckSb"} => ~active
  /\ pc = "ckSb" => jStart = 0
  /\ pc \in {"walk", "tags"} => jStart # 0 /\ start = jStart /\ ~active
  /\ pc = "walk" => AtHeader(d)
  /\ pc = "tags" => AmongTags(d)

\* the map of a read-only mount has one entry for a block
OnePerBlock == \A i, j \in DOMAIN map : map[i].blk = map[j].blk => i = j

NoCommits == pc \in PC \ (CommitPC \cup {"ckFlush"})
ForeignInv ==
  /\ NoCommits
  /\ \A d \in Written : d.log = log => Recovering(d) /\ OnePerBlock
==============================================================================
