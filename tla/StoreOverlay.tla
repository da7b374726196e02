---------------------------- MODULE StoreOverlay ----------------------------
(***************************************************************************)
(* Applying a list of block writes to a store: the last write to a block   *)
(* wins.                                                                   *)
(***************************************************************************)
EXTENDS Naturals, Sequences

LastWrite(ws, b, k) ==
  /\ k \in DOMAIN ws
  /\ ws[k].blk = b
  /\ \A m \in DOMAIN ws : m > k => ws[m].blk # b

Writes(ws, b) == \E k \in DOMAIN ws : ws[k].blk = b

Overlay(store, ws) ==
  [b \in DOMAIN store |->
     IF Writes(ws, b) THEN ws[CHOOSE k \in DOMAIN ws : LastWrite(ws, b, k)].val
     ELSE store[b]]
==============================================================================
