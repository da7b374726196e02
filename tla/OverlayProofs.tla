---------------------------- MODULE OverlayProofs ----------------------------
(***************************************************************************)
(* What applying a list of writes to a store does, for lists of any        *)
(* length; before it, what every induction over numbers here rests on.     *)
(***************************************************************************)
EXTENDS StoreOverlay, WellFoundedInduction, TLAPS

(* A non-empty set of natural numbers has a least element.                 *)
LEMMA LeastExists ==
  ASSUME NEW S \in SUBSET Nat, S # {}
  PROVE  \E n \in S : \A m \in S : n <= m
<1>1. PICK x \in S : \A y \in S : ~ (<<y, x>> \in OpToRel(<, Nat))
  BY NatLessThanWellFounded, WFMin
<1>2. \A y \in S : ~(y < x)
  BY <1>1 DEF OpToRel
<1> QED BY <1>2

(* A non-empty bounded set of natural numbers has a greatest element.      *)
LEMMA GreatestExists ==
  ASSUME NEW b \in Nat, NEW S \in SUBSET (0 .. b), S # {}
  PROVE  \E n \in S : \A m \in S : m <= n
<1> DEFINE T == {k \in Nat : b - k \in S}
<1>1. T \in SUBSET Nat /\ T # {}
  <2>1. PICK x \in S : TRUE
    OBVIOUS
  <2>2. x \in 0 .. b
    OBVIOUS
  <2>3. b - x \in Nat /\ b - (b - x) = x
    BY <2>2
  <2> QED BY <2>1, <2>3
<1>2. PICK n \in T : \A m \in T : n <= m
  BY <1>1, LeastExists
<1>3. ASSUME NEW m \in S PROVE m <= b - n
  <2>1. m \in 0 .. b
    OBVIOUS
  <2>2. b - m \in T
    BY <2>1
  <2> QED BY <1>2, <2>1, <2>2
<1> QED BY <1>2, <1>3

(* A path that takes one step at a time exists for any number of steps.    *)
PathIn(g, A, up, cur, n) ==
  g \in [0 .. n -> A] /\ \A d \in 0 .. n : g[d] = IF d = 0 THEN cur ELSE up[g[d - 1]]

(* There is one from any start.                                            *)
LEMMA PathExists ==
  ASSUME NEW A, NEW up \in [A -> A], NEW cur \in A, NEW n \in Nat
  PROVE  \E g : PathIn(g, A, up, cur, n)
<1> USE DEF PathIn
<1> DEFINE Path(g, e) == \A d \in 0 .. e : g[d] = IF d = 0 THEN cur ELSE up[g[d - 1]]
           K == {e \in Nat : \E g \in [0 .. e -> A] : Path(g, e)}
<1>1. 0 \in K
  <2> DEFINE g == [x \in 0 .. 0 |-> cur]
  <2>1. g \in [0 .. 0 -> A] /\ Path(g, 0)
    OBVIOUS
  <2> QED BY <2>1
<1>2. ASSUME NEW e \in K, NEW f \in Nat, f = e + 1 PROVE f \in K
  <2>1. PICK g \in [0 .. e -> A] : Path(g, e)
    OBVIOUS
  <2> DEFINE h == [d \in 0 .. f |-> IF d # f THEN g[d] ELSE up[g[e]]]
  <2>2. \A d \in 0 .. f : d # f => d \in 0 .. e /\ (d # 0 => d - 1 \in 0 .. f /\ d - 1 # f)
    BY <1>2
  <2>3. e \in 0 .. e /\ e \in 0 .. f /\ f - 1 = e /\ f # 0 /\ e # f /\ f \in 0 .. f
    BY <1>2
  <2>4. h \in [0 .. f -> A]
    BY <2>2, <2>3
  <2>5. /\ \A d \in 0 .. f : d # f => h[d] = g[d]
        /\ h[f] = up[g[e]]
    BY <2>3
  <2> HIDE DEF h
  <2>6. Path(h, f)
    <3> SUFFICES ASSUME NEW d \in 0 .. f
                 PROVE  h[d] = IF d = 0 THEN cur ELSE up[h[d - 1]]
      OBVIOUS
    <3>1. CASE d = f
      BY <3>1, <2>3, <2>5
    <3>2. CASE d # f
      <4>1. d \in 0 .. e /\ h[d] = g[d]
        BY <3>2, <2>2, <2>5
      <4>2. d # 0 => h[d - 1] = g[d - 1]
        BY <3>2, <2>2, <2>5
      <4> QED BY <2>1, <4>1, <4>2
    <3> QED BY <3>1, <3>2
  <2> QED BY <2>4, <2>6
<1>3. SUFFICES ASSUME n \notin K PROVE FALSE
  OBVIOUS
<1> HIDE DEF K
<1> DEFINE M == {e \in Nat : e \notin K}
<1>4. PICK e \in M : \A m \in M : e <= m
  BY <1>3, LeastExists
<1>5. e # 0 /\ e - 1 \in Nat
  BY <1>1, <1>4
<1>6. e - 1 \in K
  BY <1>4, <1>5
<1>7. e \in K
  BY <1>2, <1>5, <1>6
<1> QED BY <1>4, <1>7

(* What holds of where a path begins, and of the next place whenever it    *)
(* holds of one, holds of all.                                             *)
LEMMA PathStays ==
  ASSUME NEW n \in Nat, NEW g, NEW S, g[0] \in S,
         \A d \in 1 .. n : g[d - 1] \in S => g[d] \in S
  PROVE  g[n] \in S
<1> SUFFICES ASSUME g[n] \notin S PROVE FALSE
  OBVIOUS
<1> DEFINE M == {d \in Nat : d <= n /\ g[d] \notin S}
<1>0. M \in SUBSET Nat /\ n \in M
  OBVIOUS
<1>1. PICK e \in M : \A m \in M : e <= m
  <2> HIDE DEF M
  <2> QED BY <1>0, LeastExists
<1>2. e \in 1 .. n /\ e - 1 \in Nat /\ e - 1 <= n /\ e - 1 \notin M
  BY <1>1
<1> QED BY <1>1, <1>2

(* Whoever is written is written last by exactly one of the writes.        *)
LEMMA LastWriteExists ==
  ASSUME NEW n \in Nat, NEW ws, DOMAIN ws = 1 .. n, NEW b, Writes(ws, b)
  PROVE  \E k \in 1 .. n : LastWrite(ws, b, k)
<1> DEFINE S == {k \in 1 .. n : ws[k].blk = b}
<1>1. S \in SUBSET (0 .. n) /\ S # {}
  BY DEF Writes
<1>2. PICK k \in S : \A m \in S : m <= k
  BY <1>1, GreatestExists
<1> QED BY <1>2 DEF LastWrite

(* The overlay shows a block's last write, and its old value if there is   *)
(* none.                                                                   *)
LEMMA OverlayShows ==
  ASSUME NEW n \in Nat, NEW ws, DOMAIN ws = 1 .. n, NEW st, NEW b \in DOMAIN st
  PROVE  /\ \A k \in 1 .. n : LastWrite(ws, b, k) => Overlay(st, ws)[b] = ws[k].val
         /\ ~Writes(ws, b) => Overlay(st, ws)[b] = st[b]
<1>1. ASSUME NEW k \in 1 .. n, LastWrite(ws, b, k)
      PROVE  Overlay(st, ws)[b] = ws[k].val
  <2>1. \A m \in DOMAIN ws : LastWrite(ws, b, m) => m = k
    BY <1>1 DEF LastWrite
  <2>2. (CHOOSE m \in DOMAIN ws : LastWrite(ws, b, m)) = k
    BY <1>1, <2>1
  <2>3. Writes(ws, b)
    BY <1>1 DEF LastWrite, Writes
  <2> QED BY <2>2, <2>3 DEF Overlay
<1>2. ~Writes(ws, b) => Overlay(st, ws)[b] = st[b]
  BY DEF Overlay
<1> QED BY <1>1, <1>2

(* A store in which every block already has its last write's value is not  *)
(* changed by the overlay.                                                 *)
LEMMA OverlayDone ==
  ASSUME NEW n \in Nat, NEW ws, DOMAIN ws = 1 .. n, NEW D, NEW V, NEW st \in [D -> V],
         \A k \in 1 .. n : \A b \in D : LastWrite(ws, b, k) => st[b] = ws[k].val
  PROVE  Overlay(st, ws) = st
<1>1. ASSUME NEW b \in D PROVE Overlay(st, ws)[b] = st[b]
  <2>1. CASE Writes(ws, b)
    BY <2>1, LastWriteExists, OverlayShows
  <2>2. CASE ~Writes(ws, b)
    BY <2>2, OverlayShows
  <2> QED BY <2>1, <2>2
<1>2. Overlay(st, ws) = [b \in D |-> Overlay(st, ws)[b]]
  BY DEF Overlay
<1>3. st = [b \in D |-> st[b]]
  OBVIOUS
<1> QED BY <1>1, <1>2, <1>3

(* The overlay takes from the store only what the list does not write.     *)
LEMMA OverlayCovers ==
  ASSUME NEW ws, NEW D, NEW V, NEW st \in [D -> V], NEW su \in [D -> V],
         \A b \in D : ~Writes(ws, b) => st[b] = su[b]
  PROVE  Overlay(st, ws) = Overlay(su, ws)
<1> DEFINE last(b) == ws[CHOOSE k \in DOMAIN ws : LastWrite(ws, b, k)].val
<1>1. DOMAIN st = D /\ DOMAIN su = D
  OBVIOUS
<1>2. /\ Overlay(st, ws) = [b \in D |-> IF Writes(ws, b) THEN last(b) ELSE st[b]]
      /\ Overlay(su, ws) = [b \in D |-> IF Writes(ws, b) THEN last(b) ELSE su[b]]
  BY <1>1 DEF Overlay
<1> HIDE DEF last
<1> QED BY <1>2
==============================================================================
