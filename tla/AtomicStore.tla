----------------------------- MODULE AtomicStore -----------------------------
(***************************************************************************)
(* What the journal promises its callers: a store of blocks that changes   *)
(* only by whole transactions.  A transaction that was answered "ok" has   *)
(* been applied; one that was answered "err", or never answered because    *)
(* the machine went down, was applied in full or not at all.               *)
(***************************************************************************)
EXTENDS StoreOverlay

CONSTANTS Blk, Val, MaxWrites

VARIABLES
  store,     \* what a reader sees after recovery
  pending,   \* the writes of the transaction in flight, << >> if there is none
  applied,   \* has the transaction in flight taken effect?
  reply      \* the answer to the last transaction

avars == <<store, pending, applied, reply>>

Write == [blk : Blk, val : Val]
WriteList(ws) == \E n \in 1 .. MaxWrites : ws \in [1 .. n -> Write]

Init ==
  /\ store \in [Blk -> Val]
  /\ pending = << >>
  /\ applied = FALSE
  /\ reply = "none"

Submit ==
  /\ pending = << >>
  /\ WriteList(pending')
  /\ reply' = "none"
  /\ UNCHANGED <<store, applied>>

Refuse ==
  /\ pending = << >>
  /\ reply' = "err"
  /\ UNCHANGED <<store, pending, applied>>

Apply ==
  /\ pending # << >>
  /\ ~applied
  /\ store' = Overlay(store, pending)
  /\ applied' = TRUE
  /\ UNCHANGED <<pending, reply>>

AnswerOk ==
  /\ applied
  /\ reply' = "ok"
  /\ pending' = << >>
  /\ applied' = FALSE
  /\ UNCHANGED store

AnswerErr ==
  /\ pending # << >>
  /\ reply' = "err"
  /\ pending' = << >>
  /\ applied' = FALSE
  /\ UNCHANGED store

Crash ==
  /\ reply' = "none"
  /\ pending' = << >>
  /\ applied' = FALSE
  /\ UNCHANGED store

Next == Submit \/ Refuse \/ Apply \/ AnswerOk \/ AnswerErr \/ Crash

Spec == Init /\ [][Next]_avars
==============================================================================
