------------------------------ MODULE ForeignLog ------------------------------
(***************************************************************************)
(* Volumes whose journal another system left dirty: a log of several       *)
(* transactions, with revoke records, that may wrap and that may end in a  *)
(* transaction which was never committed.  What the driver makes of it is  *)
(* compared with what the log means.                                       *)
(***************************************************************************)
EXTENDS JournalCorrect

CONSTANT Damaged   \* the disks of Disk whose log nobody wrote as it stands
ASSUME DamagedAssumption == Damaged \subseteq Disk

ForeignSpec == InitDirty /\ [][Next]_vars
FairForeignSpec == ForeignSpec /\ WF_vars(Driver)

(***************************************************************************)
(* What a disk means.  The headers of its log are the blocks reached from  *)
(* the start by stepping over each descriptor's data, as long as each one  *)
(* carries the expected sequence number, which a commit block advances.    *)
(***************************************************************************)
LogSize == MaxLen - First
Pos(d, i) == First + ((d.start - First + i) % LogSize)
At(d, i) == d.log[Pos(d, i)]

IsHeader(d, h) ==
  /\ h.off < LogSize
  /\ At(d, h.off).kind # "data" /\ At(d, h.off).seq = h.seq
  /\ Verifies(At(d, h.off))

After(d, h) ==
  [off |-> h.off + 1 + Len(At(d, h.off).tags),
   seq |-> IF At(d, h.off).kind = "commit" THEN SeqInc(h.seq) ELSE h.seq]

Reached(d) ==
  LET reached[n \in 0 .. LogSize] ==
        IF n = 0 THEN {[off |-> 0, seq |-> d.seq]}
        ELSE UNION {IF IsHeader(d, h) THEN {h, After(d, h)} ELSE {h} : h \in reached[n - 1]}
  IN  reached[LogSize]

Headers(d) == IF d.start = 0 THEN {} ELSE {h \in Reached(d) : IsHeader(d, h)}

(* A header counts if its transaction has a commit block. *)
Committed(d) ==
  LET hs == Headers(d)
      commits == {c \in hs : At(d, c.off).kind = "commit"}
  IN  {h \in hs : \E c \in commits : h.off <= c.off}

(* A revoke record cancels the copies of its own and earlier transactions. *)
RevokedBy(d, b, s) ==
  \E h \in Committed(d) : b \in At(d, h.off).revokes /\ SeqDiff(h.seq, s) >= 0

Copies(d, b) ==
  UNION {{[off |-> h.off + k, esc |-> At(d, h.off).tags[k].esc] :
            k \in {i \in DOMAIN At(d, h.off).tags : At(d, h.off).tags[i].blk = b}} :
         h \in {x \in Committed(d) : ~RevokedBy(d, b, x.seq)}}

(* The last copy of each block that counts; its place if there is none. *)
Meaning(d) ==
  [b \in FsBlock |->
     LET cs == Copies(d, b)
         last == CHOOSE c \in cs : \A e \in cs : e.off <= c.off
     IN  IF cs = {} THEN Mask(d.home[b])
         ELSE Mask(Restore(At(d, last.off).data, last.esc))]

Current == [home |-> home, log |-> log, start |-> jStart, seq |-> jSeq]

CopyVal(d, c) == Mask(Restore(At(d, c.off).data, c.esc))

(* What replays that were cut short can leave in the place of a block. *)
InPlace(d) ==
  [b \in FsBlock |->
     {Mask(d.home[b])} \cup
     (IF Copies(d, b) = {} THEN {} ELSE {Mask(Torn)} \cup {CopyVal(d, c) : c \in Copies(d, b)})]

(* Without commits the log never changes and says which disk it was.       *)
Written == Disk \ Damaged
MeaningOf == [d \in Written |-> Meaning(d)]
InPlaceOf == [d \in Written |-> InPlace(d)]

(***************************************************************************)
(* Properties.                                                             *)
(***************************************************************************)
(* Recovery shows exactly what a log meant when the volume was first       *)
(* seen: in any mount that has its journal, for writing or read-only,      *)
(* whatever crashes and failed writes cut earlier replays short and tore   *)
(* of their blocks, and whatever mounts without the journal came between.  *)
ReadsSeeRecovered ==
  pc = "idle" =>
    \A d \in Written :
      d.log = log => [b \in FsBlock |-> Mask(ReadView(b))] = MeaningOf[d]

(* A mount whose ext4_journal_init failed reads every block in its place.  *)
(* Over a log that still waits for a replay that is, block by block, what  *)
(* was there before it, or what an earlier replay that was cut short left: *)
(* a copy that was committed and not revoked, or a torn write of one;      *)
(* never what the log does not promise.  Over a log that was cleaned it is *)
(* what the log meant, as in any other mount.                              *)
BareReadsExplained ==
  pc = "bare" =>
    \A d \in Written :
      d.log = log =>
        \A b \in FsBlock :
          Mask(ReadView(b)) \in IF jStart = 0 THEN {MeaningOf[d][b]} ELSE InPlaceOf[d][b]

(* A mount gives up on a log that is not damaged for no other reason than  *)
(* the device, the capacity of the map of a read-only mount, or that of the *)
(* revoke table.                                                           *)
RevokedBlocks(d) == {b \in FsBlock : RevokedBy(d, b, d.seq)}
MappedBlocks(d) == {b \in FsBlock : Copies(d, b) # {}}
BeyondLimits(d) ==
  \/ Cardinality(RevokedBlocks(d)) > RevokeMax
  \/ ~writable /\ Cardinality(MappedBlocks(d)) > ReplayMax
RefusesOnlyBeyondLimits ==
  [][Driver /\ pc' = "refused" => \A d \in Written : d.log = log => BeyondLimits(d)]_vars

(* A commit makes the next recovery see its own writes and nothing else,   *)
(* whatever the log was used for before.                                   *)
CommitAddsOnlyItself ==
  [][CommitJsb => Meaning(Current)' = Overlay(Meaning(Current), TxnWrites)]_vars

(* walk_log ends on any log, however corrupt, and the mount returns.       *)
MountReturns == pc \in {"walk", "tags"} ~> pc \notin {"walk", "tags"}
==============================================================================
