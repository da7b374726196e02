------------------------------ MODULE JournalInv ------------------------------
(***************************************************************************)
(* The inductive invariant behind the properties of JournalCorrect: what   *)
(* is true at every step of a mount, a commit, a checkpoint and a failure. *)
(***************************************************************************)
EXTENDS JournalCorrect

(* Where the driver is, and what it may rely on there.                     *)
Control ==
  /\ pc \in {"walk", "tags"} => start # 0 /\ start = jStart /\ seq = jSeq
  /\ pc \in {"down", "refused", "bare", "idle", "walk", "tags"} => txn = << >>
  /\ pc \in CommitPC \cup {"ckFlush"} => txn # << >>
  /\ pc \in CommitPC => jStart = 0 /\ start = 0
  /\ pc = "cSb" => idx = 1
  /\ pc = "cDesc" => idx = 1
  /\ pc = "cData" => idx \in 1 .. Len(txn)
  /\ pc = "ckFlush" => idx \in 1 .. Len(map)
  /\ pc = "ckSb" => jStart = 0
  /\ pc \notin {"down", "refused", "bare"} /\ start = 0 => jStart = 0
  /\ txn # << >> => Len(txn) <= TransMax /\ First + Len(txn) + 2 <= MaxLen
  /\ reply = "ok" => /\ pc = "idle" /\ jStart = 0 /\ ~active
                     /\ ~home[SB].recover

(* What memory says of itself: the map is in use only on top of a log that *)
(* was there, and only a writable device is written.                       *)
Memory ==
  /\ (start = 0 \/ pc \in {"walk", "tags"}) => ~active
  /\ (txn # << >> \/ pc \in CkptPC) => writable
  /\ pc = "ckFlush" => active

(* Sequence numbers never wrap within the bound; the journal superblock is *)
(* at most one behind memory.                                              *)
Sequence ==
  /\ jSeq <= MaxSeq
  /\ seq <= MaxSeq
  /\ txn # << >> => seq < MaxSeq
  /\ pc \notin {"down", "refused", "bare"} => seq \in {jSeq, jSeq + 1}
  /\ pc = "ckSb" => jSeq = seq

(* Headers left over from earlier epochs cannot continue the live          *)
(* transaction: a stale commit block may, by one, and carries nothing.     *)
Stale ==
  /\ \A p \in LogPos \ {First} :
       log[p].kind \in {"descriptor", "revoke"} => log[p].seq < jSeq
  /\ \A p \in LogPos : log[p].kind = "commit" => log[p].seq <= jSeq + 1
  /\ log[First].kind = "revoke" => log[First].seq < jSeq

(* The log holds, from First on, a transaction of these tags and data.     *)
Holds(s, tags) ==
  /\ Len(tags) \in 1 .. TransMax /\ First + Len(tags) + 2 <= MaxLen
  /\ log[First] = DescriptorBlock(s, tags)
  /\ \A k \in 1 .. Len(tags) :
       /\ log[First + k].kind = "data"
       /\ tags[k].sum = <<s, log[First + k].data>>
  /\ log[First + Len(tags) + 1] = CommitBlock(s)

Live == jStart # 0 => jStart = First /\ Holds(jSeq, log[First].tags)

(* How far a commit has come.                                              *)
DataInLog(n) ==
  \A k \in 1 .. n : log[First + k] = DataBlock(Escape(txn[k].data))
DescriptorInLog == log[First] = DescriptorBlock(seq, TxnTags)

Committing ==
  /\ pc = "cData"   => DescriptorInLog /\ DataInLog(idx - 1)
  /\ pc = "cCommit" => DescriptorInLog /\ DataInLog(Len(txn))
  /\ pc = "cJsb"    => /\ DescriptorInLog /\ DataInLog(Len(txn))
                       /\ log[First + Len(txn) + 1] = CommitBlock(seq)
  /\ pc = "ckFlush" => /\ DescriptorInLog /\ DataInLog(Len(txn))
                       /\ jStart = First /\ jSeq = seq /\ map = TxnMap

(* The first n live writes are home: of each block, the last of them.      *)
Home(n) ==
  \A k \in 1 .. n :
    (\A m \in k + 1 .. n : LiveTags[m].blk # LiveTags[k].blk)
      => Mask(home[LiveTags[k].blk]) = LiveWrites[k].val

(* The replay map after the first n tags: it holds their blocks, each with *)
(* the last copy.                                                          *)
LastCopy(e, n) ==
  \E k \in 1 .. n :
    /\ e = [blk |-> LiveTags[k].blk, jblk |-> First + k, esc |-> LiveTags[k].esc]
    /\ \A m \in k + 1 .. n : LiveTags[m].blk # LiveTags[k].blk
Built(n) ==
  /\ Len(map) <= n
  /\ \A i \in DOMAIN map : LastCopy(map[i], n)
  /\ \A k \in 1 .. n : \E i \in DOMAIN map : map[i].blk = LiveTags[k].blk

(* A commit block of an earlier epoch can carry on where the live          *)
(* transaction ends; nothing can carry on behind it.                       *)
LiveEnd == First + Len(LiveTags) + 1
StaleCommit ==
  /\ LiveEnd + 1 < MaxLen
  /\ log[LiveEnd + 1].kind = "commit" /\ log[LiveEnd + 1].seq = seq + 1
  /\ Verifies(log[LiveEnd + 1])

(* What a pass has found and done when it is through with the live         *)
(* transaction, and where a pass can be.                                   *)
Through(w) ==
  /\ w.pass = "SCAN"  => w.end = w.seq
  /\ w.pass = "FLUSH" => Home(Len(LiveTags))
  /\ w.pass = "BUILD" => Built(Len(LiveTags))

AtFirst ==
  /\ walk.blk = First /\ walk.seq = seq /\ walk.n = 0
  /\ walk.pass = "SCAN" => walk.end = 0
  /\ map = << >>
AtTags ==
  /\ walk.desc = First /\ walk.k <= Len(LiveTags)
  /\ walk.blk = First + walk.k /\ walk.seq = seq /\ walk.n = 0
  /\ walk.pass = "SCAN" => walk.end = 0
  /\ walk.pass = "FLUSH" => Home(walk.k)
  /\ walk.pass = "BUILD" => Built(walk.k)
AtCommit ==
  /\ walk.blk = LiveEnd /\ walk.seq = seq /\ walk.n = 1
  /\ walk.pass = "SCAN" => walk.end = 0
  /\ walk.pass = "FLUSH" => Home(Len(LiveTags))
  /\ walk.pass = "BUILD" => Built(Len(LiveTags))
Beyond ==
  /\ \/ walk.seq = seq + 1 /\ walk.n = 2 /\ walk.blk = LiveEnd + 1
     \/ walk.seq = seq + 2 /\ walk.n = 3 /\ walk.blk # First /\ StaleCommit
  /\ Through(walk)

PassOK(w) ==
  /\ w.pass = "FLUSH" => writable
  /\ w.pass = "BUILD" => ~writable
  /\ w.pass # "SCAN" => (w.end = seq \/ (w.end = seq + 1 /\ StaleCommit))
  /\ w.pass # "BUILD" => map = << >>

Walking ==
  /\ pc \in {"walk", "tags"} => revoked = NoRevokes /\ PassOK(walk)
  /\ pc = "tags" => AtTags
  /\ pc = "walk" => AtFirst \/ AtCommit \/ Beyond

(* What a checkpoint has written home by the time it cleans the log.       *)
Flushing ==
  /\ pc = "ckFlush" => Home(idx - 1)
  /\ pc = "ckJsb" /\ jStart # 0 => Home(Len(LiveTags))

(* Whenever the driver is back, or may be by an error in its next write,   *)
(* reads agree with the committed store; of a block that a transaction     *)
(* held twice, the map of a commit has the wrong copy first.               *)
HeldOnce(b) == \A i, j \in Hits(b) : i = j
Reading ==
  pc \in {"idle"} \cup CkptPC =>
    \A b \in FsBlock : (writable => HeldOnce(b)) => Mask(ReadView(b)) = CommittedStore[b]

Shape == TypeOK /\ NoForgedHeader /\ Control
Inv == /\ Shape /\ Memory /\ Sequence /\ Stale /\ Live
       /\ Committing /\ Walking /\ Flushing /\ Reading
==============================================================================
