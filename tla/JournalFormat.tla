---------------------------- MODULE JournalFormat ----------------------------
(***************************************************************************)
(* What the jbd2 log holds and what one block of it means: the block       *)
(* contents, the descriptor, data, commit and revoke blocks, the escape of *)
(* data that begins with the journal magic, sequence numbers that wrap and *)
(* log positions that wrap (src/ext4/journal.c, src/ext4/journal.h).       *)
(*                                                                         *)
(* A block's content keeps what the journal code can tell apart: its first *)
(* word (the magic, zero, anything else), the RECOVER bit when the block   *)
(* is the file-system superblock, and an opaque rest.                      *)
(***************************************************************************)
EXTENDS Integers, Sequences, FiniteSets

CONSTANTS
  FsBlock,   \* the file-system blocks transactions write
  SB,        \* the one that holds the ext4 superblock
  Body,      \* what a block can hold besides its first word
  ZeroBody,  \* the all-zero body
  TornBody,  \* the body of a block whose write was cut short
  First,     \* jsb.s_first: the first log block
  MaxLen,    \* jsb.s_maxlen: log blocks are First .. MaxLen-1
  SeqLimit,    \* sequence numbers are 0 .. SeqLimit-1 (2^32 in the code)
  Csum       \* does the journal carry CSUM_V2/V3 checksums?

ASSUME FormatAssumption ==
  /\ SB \in FsBlock
  /\ ZeroBody \in Body /\ TornBody \in Body
  /\ First \in Nat \ {0} /\ MaxLen \in Nat /\ First < MaxLen
  /\ SeqLimit \in Nat /\ SeqLimit > 3
  /\ Csum \in BOOLEAN

FirstWord == {"magic", "zero", "plain"}
Content == [body : Body, head : FirstWord, recover : BOOLEAN]
Zero == [body |-> ZeroBody, head |-> "zero", recover |-> FALSE]

LogPos == First .. MaxLen - 1
SeqNo == 0 .. SeqLimit - 1
NoSeq == -1                  \* "not in the revoke table"

(***************************************************************************)
(* A data block that begins with the magic is written to the log with its  *)
(* first word zeroed and its tag flagged; whoever reads the copy back puts *)
(* the magic back.                                                         *)
(***************************************************************************)
NeedsEscape(c) == c.head = "magic"
EscapeNothing(c) == c                                      \* a seeded fault
Escape(c)  == IF NeedsEscape(c) THEN [c EXCEPT !.head = "zero"] ELSE c
Restore(c, esc) == IF esc THEN [c EXCEPT !.head = "magic"] ELSE c

(* A tag's checksum covers the sequence number and the data block. *)
Tag == [blk : FsBlock, esc : BOOLEAN, sum : SeqNo \X Content]
TagOf(blk, c, s) ==
  [blk |-> blk, esc |-> NeedsEscape(c), sum |-> <<s, Escape(c)>>]
TagVerifies(tag, s, c) == ~Csum \/ tag.sum = <<s, c>>

(* ok: the descriptor tail, commit or revoke checksum matches the block. *)
LogBlock == [kind : {"descriptor", "data", "commit", "revoke"},
             seq : SeqNo, ok : BOOLEAN, tags : Seq(Tag),
             data : Content, revokes : SUBSET FsBlock]

DataBlock(c) ==
  [kind |-> "data", seq |-> 0, ok |-> TRUE, tags |-> << >>,
   data |-> c, revokes |-> {}]
DescriptorBlock(s, tags) ==
  [kind |-> "descriptor", seq |-> s, ok |-> TRUE, tags |-> tags,
   data |-> Zero, revokes |-> {}]
CommitBlock(s) ==
  [kind |-> "commit", seq |-> s, ok |-> TRUE, tags |-> << >>,
   data |-> Zero, revokes |-> {}]
RevokeBlock(s, blks) ==
  [kind |-> "revoke", seq |-> s, ok |-> TRUE, tags |-> << >>,
   data |-> Zero, revokes |-> blks]

(* The walker takes a block for a header when its first word is the magic. *)
HasMagic(b) == b.kind # "data" \/ b.data.head = "magic"
Verifies(b) == ~Csum \/ b.ok

(***************************************************************************)
(* Sequence numbers are compared by signed difference, so that the order   *)
(* survives the wrap.                                                      *)
(***************************************************************************)
SeqDiff(a, b) ==
  LET d == IF a >= b THEN a - b ELSE a - b + SeqLimit
  IN  IF 2 * d >= SeqLimit THEN d - SeqLimit ELSE d
SeqInc(s) == IF s + 1 = SeqLimit THEN 0 ELSE s + 1
SeqDec(s) == IF s = 0 THEN SeqLimit - 1 ELSE s - 1

Wrap(p) == IF p >= MaxLen THEN First ELSE p
NextPosUnwrapped(p) == p + 1                               \* a seeded fault
NextPos(p) == Wrap(p + 1)
==============================================================================
