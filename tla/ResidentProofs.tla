---------------------------- MODULE ResidentProofs ----------------------------
(***************************************************************************)
(* The chains of interrupt handlers and the drive letters of Resident, for *)
(* any number of copies, other programs and letters, in whatever order     *)
(* they come and go.                                                       *)
(***************************************************************************)
EXTENDS Resident, WellFoundedInduction, TLAPS

(***************************************************************************)
(* Chains, for any table p of what the programs in memory replaced.        *)
(***************************************************************************)
HooksIn(p, h, v) == h \in DOMAIN p /\ v \in DOMAIN p[h]
ClosedIn(p, S, v) == \A x \in S : HooksIn(p, x, v) => p[x][v] \in S
ChainIn(p, h, v) ==
  {x \in Handler : \A S \in SUBSET Handler : h \in S /\ ClosedIn(p, S, v) => x \in S}
Table(p) == \A h \in DOMAIN p : \A v \in DOMAIN p[h] : p[h][v] \in Handler

(* The chain is closed, begins where it should and is the least such set.  *)
LEMMA ChainLeast ==
  ASSUME NEW p, Table(p), NEW h \in Handler, NEW v
  PROVE  /\ ChainIn(p, h, v) \in SUBSET Handler /\ h \in ChainIn(p, h, v)
         /\ ClosedIn(p, ChainIn(p, h, v), v)
         /\ \A S \in SUBSET Handler : h \in S /\ ClosedIn(p, S, v) => ChainIn(p, h, v) \subseteq S
<1>1. ChainIn(p, h, v) \in SUBSET Handler /\ h \in ChainIn(p, h, v)
      /\ \A S \in SUBSET Handler : h \in S /\ ClosedIn(p, S, v) => ChainIn(p, h, v) \subseteq S
  BY DEF ChainIn
<1>2. ASSUME NEW x \in ChainIn(p, h, v), HooksIn(p, x, v)
      PROVE  p[x][v] \in ChainIn(p, h, v)
  <2>1. p[x][v] \in Handler
    BY <1>2 DEF Table, HooksIn
  <2>2. ASSUME NEW S \in SUBSET Handler, h \in S, ClosedIn(p, S, v) PROVE p[x][v] \in S
    BY <1>2, <2>2 DEF ChainIn, ClosedIn
  <2> QED BY <2>1, <2>2 DEF ChainIn
<1> QED BY <1>1, <1>2 DEF ClosedIn

(* From a handler that passes calls on, the chain goes on where it says.   *)
LEMMA ChainUnfolds ==
  ASSUME NEW p, Table(p), NEW h \in Handler, NEW v, HooksIn(p, h, v)
  PROVE  ChainIn(p, h, v) = {h} \cup ChainIn(p, p[h][v], v)
<1> DEFINE C == ChainIn(p, h, v)
           D == ChainIn(p, p[h][v], v)
<1>1. p[h][v] \in Handler
  BY DEF Table, HooksIn
<1>2. /\ C \in SUBSET Handler /\ h \in C /\ ClosedIn(p, C, v)
      /\ \A S \in SUBSET Handler : h \in S /\ ClosedIn(p, S, v) => C \subseteq S
  BY ChainLeast
<1>3. /\ D \in SUBSET Handler /\ p[h][v] \in D /\ ClosedIn(p, D, v)
      /\ \A S \in SUBSET Handler : p[h][v] \in S /\ ClosedIn(p, S, v) => D \subseteq S
  BY <1>1, ChainLeast
<1> HIDE DEF C, D
<1>4. D \subseteq C
  BY <1>2, <1>3 DEF ClosedIn
<1>5. ClosedIn(p, {h} \cup D, v) /\ {h} \cup D \in SUBSET Handler
  BY <1>3 DEF ClosedIn
<1>6. C \subseteq {h} \cup D
  BY <1>2, <1>5
<1> QED BY <1>2, <1>4, <1>6 DEF C, D

(* What follows a member of a chain is part of it.                         *)
LEMMA ChainTail ==
  ASSUME NEW p, Table(p), NEW h \in Handler, NEW v, NEW x \in ChainIn(p, h, v),
         HooksIn(p, x, v)
  PROVE  p[x][v] \in Handler /\ ChainIn(p, p[x][v], v) \subseteq ChainIn(p, h, v)
<1>1. p[x][v] \in Handler /\ p[x][v] \in ChainIn(p, h, v)
  BY ChainLeast DEF ClosedIn, Table, HooksIn
<1> QED BY <1>1, ChainLeast

(* A chain does not change where no member of it changes.                  *)
LEMMA ChainSame ==
  ASSUME NEW p, Table(p), NEW q, Table(q), NEW h \in Handler, NEW v,
         \A x \in ChainIn(p, h, v) :
           /\ HooksIn(q, x, v) <=> HooksIn(p, x, v)
           /\ HooksIn(p, x, v) => q[x][v] = p[x][v]
  PROVE  ChainIn(q, h, v) = ChainIn(p, h, v)
<1> DEFINE C == ChainIn(p, h, v)
           D == ChainIn(q, h, v)
<1>1. /\ C \in SUBSET Handler /\ h \in C /\ ClosedIn(p, C, v)
      /\ \A S \in SUBSET Handler : h \in S /\ ClosedIn(p, S, v) => C \subseteq S
  BY ChainLeast
<1>2. /\ D \in SUBSET Handler /\ h \in D /\ ClosedIn(q, D, v)
      /\ \A S \in SUBSET Handler : h \in S /\ ClosedIn(q, S, v) => D \subseteq S
  BY ChainLeast
<1>3. \A x \in C : /\ HooksIn(q, x, v) <=> HooksIn(p, x, v)
                   /\ HooksIn(p, x, v) => q[x][v] = p[x][v]
  OBVIOUS
<1> HIDE DEF C, D
<1>4. D \subseteq C
  BY <1>1, <1>2, <1>3 DEF ClosedIn
<1>5. C \subseteq D
  BY <1>1, <1>2, <1>3, <1>4 DEF ClosedIn
<1> QED BY <1>4, <1>5 DEF C, D

(***************************************************************************)
(* The inductive invariant.                                                *)
(***************************************************************************)
(* What the variables hold; a copy hooks both vectors and took one letter. *)
Types ==
  /\ vec \in [Vector -> Handler]
  /\ InMemory \subseteq Copy \cup Other
  /\ Table(prev)
  /\ \A h \in InMemory : DOMAIN prev[h] \subseteq Vector
  /\ \A c \in Copy \cap InMemory : prev[c] \in [Vector -> Handler]
  /\ DOMAIN entry = Copy \cap InMemory /\ \A c \in DOMAIN entry : entry[c] \in Letter
  /\ cds \in [Letter -> {"free", "other"} \cup Copy]

(* No chain comes back to a handler it has passed.                         *)
Acyclic ==
  \A v \in Vector : \A h \in ChainIn(prev, vec[v], v) :
    HooksIn(prev, h, v) => h \notin ChainIn(prev, prev[h][v], v)

(* Until the user names a taken letter, every copy that is reached still   *)
(* has the letter it took.                                                 *)
Undisturbed ==
  ~seized => \A c \in Copy \cap Reached("2F") : cds[entry[c]] = c

RInv == Types /\ ChainsIntact /\ Acyclic /\ DrivesServed /\ Undisturbed

(* The chains of a state, and of the next one, in the terms above.         *)
LEMMA AsChains ==
  /\ \A h, v : Hooks(h, v) <=> HooksIn(prev, h, v)
  /\ \A h, v : Hooks(h, v)' <=> HooksIn(prev', h, v)
  /\ \A h, v : ComesTo(h, v, {}) = ChainIn(prev, h, v)
  /\ \A h, v : ComesTo(h, v, {})' = ChainIn(prev', h, v)
  /\ \A v : Reached(v) = ChainIn(prev, vec[v], v)
  /\ \A v : Reached(v)' = ChainIn(prev', vec'[v], v)
  BY DEF Hooks, HooksIn, ComesTo, ChainIn, Passing, ClosedIn, Reached, InMemory

(***************************************************************************)
(* Hooking and unhooking, by whomever.                                     *)
(***************************************************************************)
(* A program that comes hooks the vectors of V and stands first in their   *)
(* chains.                                                                 *)
LEMMA Pushed ==
  ASSUME RInv, NEW h \in Copy \cup Other, h \notin InMemory, NEW V \in SUBSET Vector,
         prev' = With(prev, h, [v \in V |-> vec[v]]),
         vec' = [v \in Vector |-> IF v \in V THEN h ELSE vec[v]]
  PROVE  /\ \A v \in Vector : Reached(v)' = IF v \in V THEN {h} \cup Reached(v) ELSE Reached(v)
         /\ \A x, v : Hooks(x, v)' <=> IF x = h THEN v \in V ELSE Hooks(x, v)
         /\ ChainsIntact' /\ Acyclic'
         /\ Table(prev') /\ vec' \in [Vector -> Handler] /\ InMemory' = InMemory \cup {h}
         /\ \A x \in InMemory : prev'[x] = prev[x]
<1> DEFINE q == prev'
<1>1. /\ Table(prev) /\ vec \in [Vector -> Handler] /\ h \in Handler
      /\ \A v \in Vector : \A x \in Reached(v) : x = "dos" \/ Hooks(x, v)
  BY DEF RInv, Types, ChainsIntact, Handler
<1>2. /\ DOMAIN q = DOMAIN prev \cup {h} /\ q[h] = [v \in V |-> vec[v]]
      /\ \A x \in DOMAIN prev : q[x] = prev[x]
  BY DEF With, InMemory
<1>3. Table(q) /\ vec' \in [Vector -> Handler]
  BY <1>1, <1>2 DEF Table
<1>4. \A x, v : HooksIn(q, x, v) <=> IF x = h THEN v \in V ELSE HooksIn(prev, x, v)
  BY <1>2 DEF HooksIn, InMemory
<1>5. h # "dos"
  BY ResidentAssumption
<1>6. ASSUME NEW v \in Vector PROVE h \notin Reached(v)
  BY <1>1, <1>5 DEF Hooks
<1>7. ASSUME NEW v \in Vector, NEW x \in Handler, ChainIn(prev, x, v) \subseteq Reached(v)
      PROVE  ChainIn(q, x, v) = ChainIn(prev, x, v)
  BY <1>1, <1>2, <1>3, <1>4, <1>6, <1>7, ChainSame DEF HooksIn
<1>8. ASSUME NEW v \in Vector
      PROVE  Reached(v)' = IF v \in V THEN {h} \cup Reached(v) ELSE Reached(v)
  <2>1. vec[v] \in Handler /\ ChainIn(q, vec[v], v) = Reached(v)
    BY <1>1, <1>7, AsChains
  <2>2. CASE v \in V
    <3>1. HooksIn(q, h, v) /\ q[h][v] = vec[v] /\ vec'[v] = h
      BY <1>2, <1>4, <2>2
    <3>2. ChainIn(q, h, v) = {h} \cup ChainIn(q, vec[v], v)
      BY <1>1, <1>3, <3>1, ChainUnfolds
    <3> QED BY <2>1, <2>2, <3>1, <3>2, AsChains
  <2>3. CASE v \notin V
    BY <2>1, <2>3, AsChains
  <2> QED BY <2>2, <2>3
<1>9. \A x, v : Hooks(x, v)' <=> IF x = h THEN v \in V ELSE Hooks(x, v)
  BY <1>4, AsChains
<1>10. ChainsIntact'
  BY <1>1, <1>6, <1>8, <1>9 DEF RInv, ChainsIntact
<1>11. Acyclic'
  <2> SUFFICES ASSUME NEW v \in Vector, NEW x \in Reached(v)', HooksIn(prev', x, v)
               PROVE  x \notin ChainIn(prev', prev'[x][v], v)
    BY AsChains DEF Acyclic
  <2>1. CASE x = h
    <3>1. v \in V /\ q[h][v] = vec[v]
      BY <1>2, <1>4, <2>1
    <3>2. ChainIn(q, vec[v], v) = Reached(v)
      BY <1>1, <1>7, AsChains
    <3> QED BY <1>6, <2>1, <3>1, <3>2, AsChains
  <2>2. CASE x # h
    <3>1. x \in Reached(v) /\ HooksIn(prev, x, v) /\ q[x] = prev[x]
      BY <1>2, <1>8, <1>9, <2>2, AsChains DEF HooksIn
    <3>2. prev[x][v] \in Handler /\ ChainIn(prev, prev[x][v], v) \subseteq Reached(v)
      BY <1>1, <3>1, ChainTail, AsChains
    <3>3. x \notin ChainIn(prev, prev[x][v], v)
      BY <3>1, AsChains DEF RInv, Acyclic
    <3> QED BY <1>7, <3>1, <3>2, <3>3, AsChains
  <2> QED BY <2>1, <2>2
<1> QED BY <1>2, <1>3, <1>8, <1>9, <1>10, <1>11 DEF InMemory

(* A program that is on top of all it hooked, and puts back what it found, *)
(* leaves the chains as they were without it, whether its memory goes with *)
(* it or not.                                                              *)
LEMMA Popped ==
  ASSUME RInv, NEW h \in InMemory,
         \A v \in DOMAIN prev[h] : vec[v] = h,
         vec' = [v \in Vector |-> IF v \in DOMAIN prev[h] THEN prev[h][v] ELSE vec[v]],
         prev' = Restrict(prev, InMemory \ {h}) \/ (prev' = prev /\ h \notin Other)
  PROVE  /\ \A v \in Vector : Reached(v)' = Reached(v) \ {h}
         /\ ChainsIntact' /\ Acyclic'
         /\ Table(prev') /\ vec' \in [Vector -> Handler] /\ InMemory' \subseteq InMemory
         /\ \A x \in InMemory' : prev'[x] = prev[x]
<1> DEFINE q == prev'
<1>1. /\ Table(prev) /\ vec \in [Vector -> Handler] /\ h \in Copy \cup Other /\ h \in Handler
      /\ DOMAIN prev[h] \subseteq Vector
      /\ \A v \in Vector : \A x \in Reached(v) : x = "dos" \/ Hooks(x, v)
  BY DEF RInv, Types, ChainsIntact, Handler
<1>2. /\ DOMAIN q \subseteq DOMAIN prev /\ \A x \in DOMAIN q : q[x] = prev[x]
      /\ \A x \in DOMAIN prev : x # h => x \in DOMAIN q
  BY DEF Restrict, InMemory
<1>3. Table(q) /\ vec' \in [Vector -> Handler]
  BY <1>1, <1>2 DEF Table, InMemory
<1>4. \A x, v : x # h => (HooksIn(q, x, v) <=> HooksIn(prev, x, v))
  BY <1>2 DEF HooksIn
<1>5. h # "dos"
  BY <1>1, ResidentAssumption
<1>6. ASSUME NEW v \in Vector, NEW x \in Handler, h \notin ChainIn(prev, x, v)
      PROVE  ChainIn(q, x, v) = ChainIn(prev, x, v)
  BY <1>1, <1>2, <1>3, <1>4, <1>6, ChainSame DEF HooksIn
<1>7. ASSUME NEW v \in Vector
      PROVE  Reached(v)' = Reached(v) \ {h} /\ h \notin Reached(v)'
  <2>1. CASE v \in DOMAIN prev[h]
    <3>1. HooksIn(prev, h, v) /\ vec[v] = h /\ vec'[v] = prev[h][v] /\ prev[h][v] \in Handler
      BY <1>1, <2>1 DEF HooksIn, InMemory, Table
    <3>2. Reached(v) = {h} \cup ChainIn(prev, prev[h][v], v)
      BY <1>1, <3>1, ChainUnfolds, AsChains
    <3>3. h \notin ChainIn(prev, prev[h][v], v)
      BY <3>1, <3>2, AsChains DEF RInv, Acyclic
    <3> QED BY <1>6, <3>1, <3>2, <3>3, AsChains
  <2>2. CASE v \notin DOMAIN prev[h]
    <3>1. h \notin Reached(v)
      BY <1>1, <1>5, <2>2 DEF Hooks
    <3>2. vec'[v] = vec[v] /\ vec[v] \in Handler
      BY <1>1, <2>2
    <3> QED BY <1>6, <3>1, <3>2, AsChains
  <2> QED BY <2>1, <2>2
<1>8. ChainsIntact'
  <2> SUFFICES ASSUME NEW v \in Vector
               PROVE  /\ \A x \in Reached(v)' : x = "dos" \/ Hooks(x, v)'
                      /\ \A t \in Other : Hooks(t, v)' => t \in Reached(v)'
    BY DEF ChainsIntact
  <2>1. \A x \in Reached(v)' : x = "dos" \/ Hooks(x, v)'
    BY <1>1, <1>4, <1>7, AsChains
  <2>2. ASSUME NEW t \in Other, Hooks(t, v)' PROVE t \in Reached(v)'
    <3>1. t # h
      BY <2>2 DEF Hooks, InMemory, Restrict
    <3>2. Hooks(t, v)
      BY <1>4, <2>2, <3>1, AsChains
    <3> QED BY <1>7, <3>1, <3>2 DEF RInv, ChainsIntact
  <2> QED BY <2>1, <2>2
<1>9. Acyclic'
  <2> SUFFICES ASSUME NEW v \in Vector, NEW x \in Reached(v)', HooksIn(prev', x, v)
               PROVE  x \notin ChainIn(prev', prev'[x][v], v)
    BY AsChains DEF Acyclic
  <2>1. x # h /\ x \in Reached(v) /\ HooksIn(prev, x, v) /\ q[x] = prev[x]
    BY <1>2, <1>4, <1>7, AsChains DEF HooksIn
  <2>2. prev[x][v] \in Handler /\ ChainIn(prev, prev[x][v], v) \subseteq Reached(v)
    BY <1>1, <2>1, ChainTail, AsChains
  <2>3. x \notin ChainIn(prev, prev[x][v], v)
    BY <2>1, AsChains DEF RInv, Acyclic
  <2>4. h \notin ChainIn(prev, prev[x][v], v)
    <3>1. CASE v \in DOMAIN prev[h]
      <4>1. HooksIn(prev, h, v) /\ vec[v] = h /\ prev[h][v] \in Handler
        BY <1>1, <3>1 DEF HooksIn, InMemory, Table
      <4>2. Reached(v) = {h} \cup ChainIn(prev, prev[h][v], v)
        BY <1>1, <4>1, ChainUnfolds, AsChains
      <4>3. h \notin ChainIn(prev, prev[h][v], v)
        BY <4>1, <4>2, AsChains DEF RInv, Acyclic
      <4>4. x \in ChainIn(prev, prev[h][v], v)
        BY <2>1, <4>2
      <4>5. ChainIn(prev, prev[x][v], v) \subseteq ChainIn(prev, prev[h][v], v)
        BY <1>1, <2>1, <4>1, <4>4, ChainTail
      <4> QED BY <4>3, <4>5
    <3>2. CASE v \notin DOMAIN prev[h]
      <4>1. h \notin Reached(v)
        BY <1>1, <1>5, <3>2 DEF Hooks
      <4> QED BY <2>2, <4>1
    <3> QED BY <3>1, <3>2
  <2> QED BY <1>6, <2>1, <2>2, <2>3, <2>4, AsChains
<1> QED BY <1>2, <1>3, <1>7, <1>8, <1>9 DEF InMemory

(***************************************************************************)
(* Every step, with what it does to the letters of others.                 *)
(***************************************************************************)
OthersKept == ~seized' => \A l \in Letter : cds[l] = "other" => cds'[l] = "other"

(* A copy that a call reaches is in memory, and took a letter.             *)
LEMMA ReachedTook ==
  ASSUME RInv, NEW c \in Copy \cap Reached("2F")
  PROVE  c \in InMemory /\ c \in DOMAIN entry /\ entry[c] \in Letter
<1>1. c # "dos" /\ "2F" \in Vector
  BY ResidentAssumption DEF Vector
<1>2. Hooks(c, "2F")
  BY <1>1 DEF RInv, ChainsIntact
<1> QED BY <1>2 DEF RInv, Types, Hooks

(* A non-empty set of natural numbers has a least element.                 *)
LEMMA MinExists ==
  ASSUME NEW S \in SUBSET Nat, S # {}
  PROVE  Min(S) \in S
<1>1. PICK x \in S : \A y \in S : ~ (<<y, x>> \in OpToRel(<, Nat))
  BY NatLessThanWellFounded, WFMin
<1>2. \A y \in S : ~(y < x)
  BY <1>1 DEF OpToRel
<1>3. \A y \in S : x <= y
  BY <1>2
<1> QED BY <1>3 DEF Min

(* The letter this program takes is the one it was told, or a free one.    *)
LEMMA LetterTaken ==
  ASSUME NEW told \in SUBSET Letter, NEW l \in LetterFor(told)
  PROVE  l \in Letter /\ (told = {} => cds[l] = "free")
<1>1. CASE told # {}
  BY <1>1 DEF LetterFor
<1>2. CASE told = {}
  <2>1. PickDriveLetter # {} /\ l = Min(PickDriveLetter) /\ PickDriveLetter \in SUBSET Nat
    BY <1>2, ResidentAssumption DEF LetterFor, PickDriveLetter
  <2>2. Min(PickDriveLetter) \in PickDriveLetter
    BY <2>1, MinExists
  <2> QED BY <2>1, <2>2 DEF PickDriveLetter
<1> QED BY <1>1, <1>2

(* Staying resident: the copy's hooks come first, and the letter is its.   *)
LEMMA CopyComes ==
  ASSUME RInv, NEW c \in Copy, NEW told \in SUBSET Letter, StayResident(c, told)
  PROVE  RInv' /\ OthersKept
<1>1. PICK l \in LetterFor(told) :
        /\ cds' = [cds EXCEPT ![l] = c]
        /\ entry' = With(entry, c, l)
        /\ seized' = (seized \/ (told # {} /\ cds[l] # "free"))
  BY DEF StayResident
<1>2. l \in Letter /\ (~seized' => ~seized /\ cds[l] = "free")
  BY <1>1, LetterTaken
<1>3. /\ Types /\ vec \in [Vector -> Handler] /\ c \notin InMemory
      /\ cds \in [Letter -> {"free", "other"} \cup Copy]
  BY DEF RInv, Types, StayResident
<1>4. /\ prev' = With(prev, c, [v \in Vector |-> vec[v]])
      /\ vec' = [v \in Vector |-> IF v \in Vector THEN c ELSE vec[v]]
  BY <1>3 DEF StayResident
<1>5. /\ \A v \in Vector : Reached(v)' = {c} \cup Reached(v)
      /\ ChainsIntact' /\ Acyclic' /\ Table(prev') /\ vec' \in [Vector -> Handler]
      /\ InMemory' = InMemory \cup {c} /\ \A x \in InMemory : prev'[x] = prev[x]
  BY <1>3, <1>4, Pushed
<1>6. /\ DOMAIN entry' = DOMAIN entry \cup {c} /\ entry'[c] = l
      /\ \A x \in DOMAIN entry : x # c /\ entry'[x] = entry[x]
  BY <1>1, <1>3 DEF With, Types
<1>7. Types'
  <2>1. prev'[c] \in [Vector -> Handler]
    BY <1>3, <1>4 DEF With
  <2>2. cds' \in [Letter -> {"free", "other"} \cup Copy]
    BY <1>1, <1>3
  <2> QED BY <1>2, <1>3, <1>5, <1>6, <2>1, <2>2 DEF Types
<1>8. "2F" \in Vector
  BY DEF Vector
<1>9. DrivesServed'
  <2> SUFFICES ASSUME NEW k \in Letter, cds'[k] \in Copy
               PROVE  /\ cds'[k] \in Reached("2F")' /\ cds'[k] \in DOMAIN entry'
                      /\ entry'[cds'[k]] = k
    BY DEF DrivesServed
  <2>1. CASE k = l
    BY <1>1, <1>2, <1>3, <1>5, <1>6, <1>8, <2>1
  <2>2. CASE k # l
    <3>1. cds'[k] = cds[k]
      BY <1>1, <1>3, <2>2
    <3>2. cds[k] \in Reached("2F") /\ cds[k] \in DOMAIN entry /\ entry[cds[k]] = k
      BY <3>1 DEF RInv, DrivesServed
    <3> QED BY <1>5, <1>6, <1>8, <3>1, <3>2
  <2> QED BY <2>1, <2>2
<1>10. Undisturbed'
  <2> SUFFICES ASSUME ~seized', NEW d \in Copy \cap Reached("2F")' PROVE cds'[entry'[d]] = d
    BY DEF Undisturbed
  <2>1. CASE d = c
    BY <1>1, <1>2, <1>3, <1>6, <2>1
  <2>2. CASE d # c
    <3>1. d \in Copy \cap Reached("2F")
      BY <1>5, <1>8, <2>2
    <3>2. d \in DOMAIN entry /\ entry[d] \in Letter /\ cds[entry[d]] = d
      BY <1>2, <3>1, ReachedTook DEF RInv, Undisturbed
    <3>3. entry[d] # l
      BY <1>2, <3>2, ResidentAssumption
    <3> QED BY <1>1, <1>3, <1>6, <3>2, <3>3
  <2> QED BY <2>1, <2>2
<1>11. OthersKept
  BY <1>1, <1>2, <1>3 DEF OthersKept
<1> QED BY <1>5, <1>7, <1>9, <1>10, <1>11 DEF RInv

(* EXT4 -u: the copy that answers was on top of both chains; its letter is *)
(* free again.                                                             *)
LEMMA CopyGoes ==
  ASSUME RInv, Uninstall
  PROVE  RInv' /\ OthersKept
<1>1. PICK c \in Answering :
        /\ OnTop(c) /\ vec' = prev[c] /\ cds' = LetterFreed(c)
        /\ \/ /\ prev' = Restrict(prev, InMemory \ {c})
              /\ entry' = Restrict(entry, DOMAIN entry \ {c})
           \/ UNCHANGED <<prev, entry>>
        /\ seized' = seized
  BY DEF Uninstall
<1>2. /\ Types /\ vec \in [Vector -> Handler] /\ c \in Copy /\ "2F" \in Vector
      /\ vec["2F"] = c /\ c \in Handler /\ Table(prev) /\ c \notin Other
  BY <1>1, ResidentAssumption DEF RInv, Types, Answering, OnTop, Vector, Handler
<1>3. c \in Copy \cap Reached("2F")
  BY <1>2, ChainLeast, AsChains
<1>4. /\ c \in InMemory /\ c \in DOMAIN entry /\ entry[c] \in Letter
      /\ prev[c] \in [Vector -> Handler]
  BY <1>2, <1>3, ReachedTook DEF Types
<1>5. /\ \A v \in Vector : Reached(v)' = Reached(v) \ {c}
      /\ ChainsIntact' /\ Acyclic' /\ Table(prev') /\ vec' \in [Vector -> Handler]
      /\ InMemory' \subseteq InMemory /\ \A x \in InMemory' : prev'[x] = prev[x]
  <2>1. /\ \A v \in DOMAIN prev[c] : vec[v] = c
        /\ vec' = [v \in Vector |-> IF v \in DOMAIN prev[c] THEN prev[c][v] ELSE vec[v]]
        /\ prev' = Restrict(prev, InMemory \ {c}) \/ (prev' = prev /\ c \notin Other)
    BY <1>1, <1>2, <1>4 DEF OnTop
  <2> QED BY <1>4, <2>1, Popped
<1>6. /\ cds \in [Letter -> {"free", "other"} \cup Copy] /\ cds'[entry[c]] = "free"
      /\ cds' \in [Letter -> {"free", "other"} \cup Copy]
      /\ \A k \in Letter : k # entry[c] => cds'[k] = cds[k]
  BY <1>1, <1>2, <1>4 DEF Types, LetterFreed
<1>7. /\ DOMAIN entry' = Copy \cap InMemory' /\ \A x \in DOMAIN entry : x # c => x \in DOMAIN entry'
      /\ \A x \in DOMAIN entry' : x \in DOMAIN entry /\ entry'[x] = entry[x]
  BY <1>1, <1>2 DEF Types, Restrict, InMemory
<1>8. Types'
  BY <1>2, <1>5, <1>6, <1>7 DEF Types
<1>9. DrivesServed'
  <2> SUFFICES ASSUME NEW k \in Letter, cds'[k] \in Copy
               PROVE  /\ cds'[k] \in Reached("2F")' /\ cds'[k] \in DOMAIN entry'
                      /\ entry'[cds'[k]] = k
    BY DEF DrivesServed
  <2>1. k # entry[c] /\ cds'[k] = cds[k]
    BY <1>6, ResidentAssumption
  <2>2. cds[k] \in Reached("2F") /\ cds[k] \in DOMAIN entry /\ entry[cds[k]] = k
    BY <2>1 DEF RInv, DrivesServed
  <2> QED BY <1>2, <1>5, <1>7, <2>1, <2>2
<1>10. Undisturbed'
  <2> SUFFICES ASSUME ~seized', NEW d \in Copy \cap Reached("2F")' PROVE cds'[entry'[d]] = d
    BY DEF Undisturbed
  <2>1. d \in Copy \cap Reached("2F") /\ d # c
    BY <1>2, <1>5
  <2>2. d \in DOMAIN entry /\ entry[d] \in Letter /\ cds[entry[d]] = d /\ cds[entry[c]] = c
    BY <1>1, <1>3, <2>1, ReachedTook DEF RInv, Undisturbed
  <2> QED BY <1>6, <1>7, <2>1, <2>2
<1>11. OthersKept
  <2>1. ~seized => cds[entry[c]] = c /\ c # "other"
    BY <1>2, <1>3, ResidentAssumption DEF RInv, Undisturbed
  <2> QED BY <1>1, <1>6, <2>1 DEF OthersKept
<1> QED BY <1>5, <1>8, <1>9, <1>10, <1>11 DEF RInv

(* Steps of other programs leave the letters, and which copies are         *)
(* reached, as they were.                                                  *)
LEMMA LettersStay ==
  ASSUME RInv, UNCHANGED <<cds, entry, seized>>, ChainsIntact', Acyclic', Table(prev'),
         vec' \in [Vector -> Handler], InMemory' \subseteq Copy \cup Other,
         \A h \in InMemory' : DOMAIN prev'[h] \subseteq Vector,
         \A c \in Copy : c \in InMemory' <=> c \in InMemory,
         \A c \in Copy \cap InMemory : prev'[c] = prev[c],
         Copy \cap Reached("2F")' = Copy \cap Reached("2F")
  PROVE  RInv' /\ OthersKept
<1>1. Types'
  BY DEF RInv, Types
<1>2. DrivesServed' /\ Undisturbed'
  BY DEF RInv, DrivesServed, Undisturbed
<1>3. OthersKept
  BY DEF OthersKept
<1> QED BY <1>1, <1>2, <1>3 DEF RInv

(* Another program hooks vectors.                                          *)
LEMMA OtherComes ==
  ASSUME RInv, NEW t \in Other, NEW V \in SUBSET Vector, OtherHooks(t, V)
  PROVE  RInv' /\ OthersKept
<1>1. /\ t \notin InMemory /\ prev' = With(prev, t, [v \in V |-> vec[v]])
      /\ vec' = [v \in Vector |-> IF v \in V THEN t ELSE vec[v]]
      /\ UNCHANGED <<cds, entry, seized>> /\ t \notin Copy /\ "2F" \in Vector
  BY ResidentAssumption DEF OtherHooks, Vector
<1>2. /\ \A v \in Vector : Reached(v)' = IF v \in V THEN {t} \cup Reached(v) ELSE Reached(v)
      /\ ChainsIntact' /\ Acyclic' /\ Table(prev') /\ vec' \in [Vector -> Handler]
      /\ InMemory' = InMemory \cup {t} /\ \A x \in InMemory : prev'[x] = prev[x]
  BY <1>1, Pushed
<1>3. DOMAIN prev'[t] = V
  BY <1>1 DEF With
<1>4. /\ InMemory \subseteq Copy \cup Other
      /\ \A h \in InMemory : DOMAIN prev[h] \subseteq Vector
  BY DEF RInv, Types
<1> QED BY <1>1, <1>2, <1>3, <1>4, LettersStay

(* Another program puts its vectors back.                                  *)
LEMMA OtherGoes ==
  ASSUME RInv, NEW t \in Other, OtherUnhooks(t)
  PROVE  RInv' /\ OthersKept
<1>1. /\ t \in InMemory /\ \A v \in DOMAIN prev[t] : vec[v] = t
      /\ vec' = [v \in Vector |-> IF v \in DOMAIN prev[t] THEN prev[t][v] ELSE vec[v]]
      /\ prev' = Restrict(prev, InMemory \ {t})
      /\ UNCHANGED <<cds, entry, seized>> /\ t \notin Copy /\ "2F" \in Vector
  BY ResidentAssumption DEF OtherUnhooks, Vector
<1>2. /\ \A v \in Vector : Reached(v)' = Reached(v) \ {t}
      /\ ChainsIntact' /\ Acyclic' /\ Table(prev') /\ vec' \in [Vector -> Handler]
      /\ InMemory' \subseteq InMemory /\ \A x \in InMemory' : prev'[x] = prev[x]
  BY <1>1, Popped
<1>3. InMemory' = InMemory \ {t}
  BY <1>1 DEF Restrict, InMemory
<1>4. /\ InMemory \subseteq Copy \cup Other
      /\ \A h \in InMemory : DOMAIN prev[h] \subseteq Vector
  BY DEF RInv, Types
<1> QED BY <1>1, <1>2, <1>3, <1>4, LettersStay

(* A drive of others comes or goes: no copy's letter is touched.           *)
LEMMA DriveTurned ==
  ASSUME RInv, NEW l \in Letter, NEW from \in {"free", "other"}, NEW to \in {"free", "other"},
         DriveTurns(l, from, to)
  PROVE  RInv'
<1>1. /\ cds[l] = from /\ cds' = [cds EXCEPT ![l] = to] /\ UNCHANGED <<vec, prev, entry, seized>>
      /\ from \notin Copy /\ to \notin Copy /\ cds \in [Letter -> {"free", "other"} \cup Copy]
  BY ResidentAssumption DEF DriveTurns, RInv, Types
<1>2. /\ \A v : Reached(v)' = Reached(v) /\ \A h, w : Hooks(h, w)' <=> Hooks(h, w)
  BY <1>1, AsChains
<1>3. Types' /\ ChainsIntact' /\ Acyclic'
  BY <1>1, <1>2 DEF RInv, Types, ChainsIntact, Acyclic, InMemory
<1>4. DrivesServed'
  BY <1>1, <1>2 DEF RInv, DrivesServed
<1>5. Undisturbed'
  <2> SUFFICES ASSUME ~seized', NEW d \in Copy \cap Reached("2F")' PROVE cds'[entry'[d]] = d
    BY DEF Undisturbed
  <2>1. d \in Copy \cap Reached("2F") /\ cds[entry[d]] = d
    BY <1>1, <1>2 DEF RInv, Undisturbed
  <2>2. entry[d] \in Letter
    BY <2>1, ReachedTook
  <2> QED BY <1>1, <2>1, <2>2
<1> QED BY <1>3, <1>4, <1>5 DEF RInv

(***************************************************************************)
(* The theorems.                                                           *)
(***************************************************************************)
(* Before anything is loaded, every chain is DOS alone.                    *)
LEMMA ResidentInit == Init => RInv
<1> SUFFICES ASSUME Init PROVE RInv
  OBVIOUS
<1>1. /\ vec = [v \in Vector |-> "dos"] /\ prev = << >> /\ entry = << >>
      /\ cds \in [Letter -> {"free", "other"}] /\ DOMAIN prev = {} /\ DOMAIN entry = {}
  BY DEF Init
<1>2. Types
  BY <1>1 DEF Types, InMemory, Table, Handler
<1>3. ASSUME NEW v \in Vector PROVE Reached(v) \subseteq {"dos"}
  <2>1. "dos" \in Handler /\ {"dos"} \in SUBSET Handler /\ ClosedIn(prev, {"dos"}, v)
        /\ vec[v] = "dos" /\ Table(prev)
    BY <1>1, <1>2 DEF Handler, ClosedIn, HooksIn, Types
  <2> QED BY <2>1, ChainLeast, AsChains
<1>4. "dos" \notin Copy /\ "free" \notin Copy /\ "other" \notin Copy /\ "2F" \in Vector
  BY ResidentAssumption DEF Vector
<1>5. ChainsIntact /\ Acyclic
  BY <1>1, <1>3, AsChains DEF ChainsIntact, Acyclic, Hooks, HooksIn, InMemory
<1>6. DrivesServed /\ Undisturbed
  BY <1>1, <1>3, <1>4 DEF DrivesServed, Undisturbed
<1> QED BY <1>2, <1>5, <1>6 DEF RInv

(* Every step keeps the invariant; one that loads or unloads a program     *)
(* keeps the letters of others.                                            *)
LEMMA ResidentStep ==
  ASSUME RInv, Next
  PROVE  RInv' /\ (vec' # vec => OthersKept)
<1>1. ASSUME NEW c \in Copy, StayResident(c, {}) \/ \E l \in Letter : StayResident(c, {l})
      PROVE  RInv' /\ OthersKept
  BY <1>1, CopyComes
<1>2. ASSUME NEW l \in Letter, DriveTurns(l, "free", "other") \/ DriveTurns(l, "other", "free")
      PROVE  RInv' /\ vec' = vec
  BY <1>2, DriveTurned DEF DriveTurns
<1>3. ASSUME NEW t \in Other, (\E V \in SUBSET Vector \ {{}} : OtherHooks(t, V)) \/ OtherUnhooks(t)
      PROVE  RInv' /\ OthersKept
  BY <1>3, OtherComes, OtherGoes
<1> QED BY <1>1, <1>2, <1>3, CopyGoes DEF Next

(* For any number of copies, other programs and letters, RInv holds in     *)
(* every state.                                                            *)
THEOREM ResidentInvariant == Spec => []RInv
<1>1. RInv /\ [Next]_vars => RInv'
  <2> SUFFICES ASSUME RInv, [Next]_vars PROVE RInv'
    OBVIOUS
  <2>1. CASE UNCHANGED vars
    <3>1. UNCHANGED <<vec, prev, cds, entry, seized>>
      BY <2>1 DEF vars
    <3>2. \A v : Reached(v)' = Reached(v)
      BY <3>1, AsChains
    <3> QED BY <3>1, <3>2 DEF RInv, Types, ChainsIntact, Acyclic, DrivesServed, Undisturbed,
            InMemory, Hooks
  <2> QED BY <2>1, ResidentStep
<1> QED BY <1>1, ResidentInit, PTL DEF Spec

(* No interrupt leads into memory that was given back, and no other        *)
(* program is cut out of the chains it hooked, in whatever order programs  *)
(* come and go.                                                            *)
THEOREM ChainsStayIntact == Spec => []ChainsIntact
<1>1. RInv => ChainsIntact
  BY DEF RInv
<1> QED BY <1>1, ResidentInvariant, PTL

(* A letter that DOS sends to a copy belongs to one that calls reach and   *)
(* that took it.                                                           *)
THEOREM LettersAreServed == Spec => []DrivesServed
<1>1. RInv => DrivesServed
  BY DEF RInv
<1> QED BY <1>1, ResidentInvariant, PTL

(* Unless the user named a taken letter, neither coming nor going takes a  *)
(* drive from another owner.                                               *)
THEOREM LettersOfOthersKept == Spec => OthersDrivesKept
<1>1. RInv /\ [Next]_vars =>
        [~seized' /\ vec' # vec => \A l \in Letter : cds[l] = "other" => cds'[l] = "other"]_vars
  BY ResidentStep DEF OthersKept
<1> QED BY <1>1, ResidentInvariant, PTL DEF Spec, OthersDrivesKept
=============================================================================
