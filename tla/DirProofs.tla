------------------------------ MODULE DirProofs ------------------------------
(***************************************************************************)
(* DirInv is inductive, for every set of names and sizes, every size of a  *)
(* block and every well-formed set of volumes; what follows from it for    *)
(* the records of a block, the tree of names and the leaves of an index.   *)
(***************************************************************************)
EXTENDS DirInv, OverlayProofs, FiniteSetTheorems

(***************************************************************************)
(* Constants, and induction from the top down.                             *)
(***************************************************************************)
(* The sizes of blocks and records.                                        *)
LEMMA SizeFacts ==
  /\ BlockSize \in Nat /\ BlockSize >= 9 /\ BlockSize - 3 \in Offset
  /\ Tails \in BOOLEAN
  /\ \A n \in Name : SizeOf[n] \in 3 .. BlockSize
<1>1. BlockSize \in Nat /\ BlockSize >= 9 /\ Tails \in BOOLEAN
  BY BlockAssumption, Zenon
<1>2. SizeOf \in [Name -> 3 .. BlockSize]
  BY BlockAssumption, Zenon
<1> QED BY <1>1, <1>2 DEF Offset

(* Names are neither "." nor ".." nor what a record without one holds.     *)
LEMMA NameFacts == \A n \in Name : n \notin Dots /\ n # "tail" /\ n # ""
  BY BlockAssumption, Zenon DEF Dots

(* What a name needs is three units or more.                               *)
LEMMA EntrySizeFacts == \A n \in Name \cup Dots : EntrySize(n) \in Nat /\ EntrySize(n) >= 3
<1> SUFFICES ASSUME NEW n \in Name \cup Dots PROVE EntrySize(n) \in Nat /\ EntrySize(n) >= 3
  OBVIOUS
<1>1. CASE n \in Dots
  BY <1>1 DEF EntrySize
<1>2. CASE n \notin Dots
  BY <1>2, SizeFacts DEF EntrySize
<1> QED BY <1>1, <1>2

(* What holds of a place whenever it holds of every later one holds of all. *)
LEMMA FromTheTop ==
  ASSUME NEW n \in Nat, NEW G,
         \A m \in 0 .. n : (\A k \in m + 1 .. n : k \in G) => m \in G
  PROVE  \A m \in 0 .. n : m \in G
<1> SUFFICES ASSUME NEW a \in 0 .. n, a \notin G PROVE FALSE
  OBVIOUS
<1> DEFINE M == {m \in 0 .. n : m \notin G}
<1>1. M \in SUBSET (0 .. n) /\ M # {}
  OBVIOUS
<1>2. PICK m \in M : \A k \in M : k <= m
  <2> HIDE DEF M
  <2> QED BY <1>1, GreatestExists
<1>3. \A k \in m + 1 .. n : k \in G
  BY <1>2
<1> QED BY <1>2, <1>3

(***************************************************************************)
(* The walk over a block.                                                  *)
(***************************************************************************)
(* What the walk visits from each place on.                                *)
StepAt(blk, f, o) ==
  IF o + 2 <= BlockSize /\ Sound(blk, o) THEN << o >> \o f[o + blk[o].len] ELSE << >>
Visits(blk, f) ==
  /\ f \in [0 .. BlockSize -> Seq(Offset)]
  /\ \A o \in 0 .. BlockSize : f[o] = StepAt(blk, f, o)

(* Record lengths are numbers.                                             *)
LEMMA LenFacts ==
  ASSUME NEW blk \in RawBlock, NEW o \in Offset
  PROVE  blk[o].len \in Nat /\ blk[o].ino \in Nat /\ blk \in [Offset -> Record]
         /\ (blk[o].ino # 0 => blk[o].name \in Name \cup Dots)
         /\ (blk[o].name = "tail" => o = BlockSize - 3)
  BY Zenon DEF RawBlock, Record

(* Where a step of the walk leads to.                                      *)
LEMMA StepForward ==
  ASSUME NEW blk \in RawBlock, NEW o \in 0 .. BlockSize, o + 2 <= BlockSize, Sound(blk, o)
  PROVE  o \in Offset /\ o + blk[o].len \in o + 1 .. BlockSize
<1>1. o \in Offset
  BY SizeFacts DEF Offset
<1> QED BY <1>1, LenFacts, SizeFacts DEF Sound

(* There is such a walk for every block.                                   *)
LEMMA VisitsExist ==
  ASSUME NEW blk \in RawBlock
  PROVE  \E f : Visits(blk, f)
<1> DEFINE G == {m \in 0 .. BlockSize : \E f \in [m .. BlockSize -> Seq(Offset)] :
                                          \A o \in m .. BlockSize : f[o] = StepAt(blk, f, o)}
<1>1. ASSUME NEW m \in 0 .. BlockSize, \A k \in m + 1 .. BlockSize : k \in G
      PROVE  m \in G
  <2>1. PICK f : /\ f \in [m + 1 .. BlockSize -> Seq(Offset)]
                 /\ \A o \in m + 1 .. BlockSize : f[o] = StepAt(blk, f, o)
    <3>1. CASE m = BlockSize
      <4>1. m + 1 .. BlockSize = {}
        BY <3>1, SizeFacts
      <4>2. [o \in m + 1 .. BlockSize |-> << >>] \in [m + 1 .. BlockSize -> Seq(Offset)]
        OBVIOUS
      <4> QED BY <4>1, <4>2
    <3>2. CASE m # BlockSize
      <4>1. m + 1 \in m + 1 .. BlockSize
        BY <3>2, SizeFacts
      <4> QED BY <1>1, <4>1
    <3> QED BY <3>1, <3>2
  <2> DEFINE g == [o \in m .. BlockSize |-> IF o = m THEN StepAt(blk, f, m) ELSE f[o]]
  <2>2. m \in m .. BlockSize /\ \A o \in m .. BlockSize : o # m => o \in m + 1 .. BlockSize
    BY SizeFacts
  <2>3. \A o \in m + 1 .. BlockSize : g[o] = f[o]
    BY SizeFacts
  <2>4. StepAt(blk, f, m) \in Seq(Offset)
    <3>1. CASE m + 2 <= BlockSize /\ Sound(blk, m)
      <4>1. m \in Offset /\ m + blk[m].len \in m + 1 .. BlockSize
        BY <3>1, StepForward
      <4>2. f[m + blk[m].len] \in Seq(Offset) /\ << m >> \in Seq(Offset)
        BY <2>1, <4>1
      <4> QED BY <3>1, <4>2 DEF StepAt
    <3>2. CASE ~(m + 2 <= BlockSize /\ Sound(blk, m))
      BY <3>2 DEF StepAt
    <3> QED BY <3>1, <3>2
  <2>5. g \in [m .. BlockSize -> Seq(Offset)]
    BY <2>1, <2>2, <2>4
  <2>6. g[m] = StepAt(blk, f, m)
    BY <2>2
  <2> HIDE DEF g
  <2>7. ASSUME NEW o \in m .. BlockSize PROVE StepAt(blk, f, o) = StepAt(blk, g, o)
    <3>1. CASE o + 2 <= BlockSize /\ Sound(blk, o)
      <4>1. o \in 0 .. BlockSize
        BY SizeFacts
      <4>2. o + blk[o].len \in o + 1 .. BlockSize
        BY <3>1, <4>1, StepForward
      <4>3. o + blk[o].len \in m + 1 .. BlockSize
        BY <4>1, <4>2, SizeFacts
      <4> QED BY <3>1, <2>3, <4>3 DEF StepAt
    <3>2. CASE ~(o + 2 <= BlockSize /\ Sound(blk, o))
      BY <3>2 DEF StepAt
    <3> QED BY <3>1, <3>2
  <2>8. \A o \in m .. BlockSize : g[o] = StepAt(blk, g, o)
    BY <2>1, <2>2, <2>3, <2>6, <2>7
  <2> QED BY <2>5, <2>8
<1> HIDE DEF G
<1>2. 0 \in G
  <2>1. BlockSize \in Nat /\ 0 \in 0 .. BlockSize
    BY SizeFacts
  <2>2. \A m \in 0 .. BlockSize : m \in G
    BY <1>1, <2>1, FromTheTop
  <2> QED BY <2>1, <2>2
<1>3. PICK f \in [0 .. BlockSize -> Seq(Offset)] : \A o \in 0 .. BlockSize : f[o] = StepAt(blk, f, o)
  BY <1>2 DEF G
<1> QED BY <1>3 DEF Visits

(* And the offsets of a block are what one visits from its beginning.      *)
LEMMA OffsetsAre ==
  ASSUME NEW blk \in RawBlock
  PROVE  \E f : Visits(blk, f) /\ Offsets(blk) = f[0]
<1> DEFINE Walk(f) == [o \in 0 .. BlockSize |->
                         IF o + 2 <= BlockSize /\ Sound(blk, o)
                         THEN << o >> \o f[o + blk[o].len] ELSE << >>]
           from == CHOOSE f : f = Walk(f)
<1>1. Offsets(blk) = from[0]
  BY DEF Offsets
<1>2. PICK f : Visits(blk, f)
  BY VisitsExist
<1>3. f = Walk(f)
  BY <1>2 DEF Visits, StepAt
<1>4. from = Walk(from)
  BY <1>3
<1>5. from = [o \in 0 .. BlockSize |-> from[o]]
  BY <1>4
<1> HIDE DEF from, Walk
<1>6. \A o \in 0 .. BlockSize : from[o] = StepAt(blk, from, o)
  BY <1>4 DEF StepAt, Walk
<1> DEFINE G == {m \in 0 .. BlockSize : from[m] \in Seq(Offset)}
<1>7. ASSUME NEW m \in 0 .. BlockSize, \A k \in m + 1 .. BlockSize : k \in G
      PROVE  m \in G
  <2>1. CASE m + 2 <= BlockSize /\ Sound(blk, m)
    <3>1. m \in Offset /\ m + blk[m].len \in m + 1 .. BlockSize
      BY <2>1, StepForward
    <3>2. from[m + blk[m].len] \in Seq(Offset) /\ << m >> \in Seq(Offset)
      BY <1>7, <3>1
    <3>3. StepAt(blk, from, m) \in Seq(Offset)
      BY <2>1, <3>2 DEF StepAt
    <3> QED BY <1>6, <3>3
  <2>2. CASE ~(m + 2 <= BlockSize /\ Sound(blk, m))
    <3>1. StepAt(blk, from, m) \in Seq(Offset)
      BY <2>2 DEF StepAt
    <3> QED BY <1>6, <3>1
  <2> QED BY <2>1, <2>2
<1> HIDE DEF G
<1>8. \A m \in 0 .. BlockSize : m \in G
  BY <1>7, FromTheTop, SizeFacts
<1> QED BY <1>1, <1>5, <1>6, <1>8 DEF Visits, G

(* A sequence with another element in front.                               *)
LEMMA Ahead ==
  ASSUME NEW A, NEW a \in A, NEW s \in Seq(A)
  PROVE  /\ << a >> \o s \in Seq(A) /\ << a >> \o s # << >>
         /\ Range(<< a >> \o s) = {a} \cup Range(s)
         /\ Last(<< a >> \o s) = IF s = << >> THEN a ELSE Last(s)
<1> DEFINE t == << a >> \o s
<1>1. t \in Seq(A) /\ Len(t) = Len(s) + 1 /\ t[1] = a /\ \A k \in 1 .. Len(s) : t[k + 1] = s[k]
  OBVIOUS
<1>2. DOMAIN t = 1 .. Len(s) + 1 /\ DOMAIN s = 1 .. Len(s) /\ Len(s) \in Nat
  BY <1>1
<1> HIDE DEF t
<1>3. Range(t) = {a} \cup Range(s)
  <2>1. ASSUME NEW k \in 1 .. Len(s) + 1 PROVE t[k] = a \/ t[k] \in Range(s)
    <3>1. CASE k = 1
      BY <3>1, <1>1
    <3>2. CASE k # 1
      <4>1. k - 1 \in 1 .. Len(s) /\ (k - 1) + 1 = k
        BY <3>2, <1>2
      <4> QED BY <4>1, <1>1, <1>2 DEF Range
    <3> QED BY <3>1, <3>2
  <2>2. ASSUME NEW k \in 1 .. Len(s) PROVE s[k] \in Range(t)
    <3>1. k + 1 \in 1 .. Len(s) + 1
      BY <1>2
    <3> QED BY <3>1, <1>1, <1>2 DEF Range
  <2>3. a \in Range(t)
    <3>1. 1 \in 1 .. Len(s) + 1
      BY <1>2
    <3> QED BY <3>1, <1>1, <1>2 DEF Range
  <2> QED BY <2>1, <2>2, <2>3, <1>2 DEF Range
<1>4. t # << >>
  BY <1>1
<1>5. Last(t) = IF s = << >> THEN a ELSE Last(s)
  <2>1. CASE s = << >>
    BY <2>1, <1>1 DEF Last
  <2>2. CASE s # << >>
    <3>1. Len(s) \in 1 .. Len(s)
      BY <2>2
    <3> QED BY <2>2, <3>1, <1>1 DEF Last
  <2> QED BY <2>1, <2>2
<1> QED BY <1>1, <1>3, <1>4, <1>5 DEF t

(* The records of a block from o on, end to end.                           *)
Chain(blk, o, S) ==
  /\ o \in S /\ S \subseteq o .. BlockSize - 1
  /\ \A x \in S : blk[x].len >= 2 /\ x + blk[x].len \in S \cup {BlockSize}
  /\ \A x, y \in S : x < y => x + blk[x].len <= y

(* The places of a chain are offsets.                                      *)
LEMMA ChainFacts ==
  ASSUME NEW blk \in RawBlock, NEW o \in Nat, NEW S, Chain(blk, o, S)
  PROVE  /\ S \subseteq Offset /\ o \in Offset
         /\ \A x \in S : /\ x \in Nat /\ x >= o /\ blk[x].len \in Nat /\ blk[x].len >= 2
                         /\ x + blk[x].len <= BlockSize /\ x + 2 <= BlockSize /\ Sound(blk, x)
<1>1. S \subseteq Offset /\ o \in Offset
  BY SizeFacts DEF Chain, Offset
<1>2. ASSUME NEW x \in S
      PROVE  /\ x \in Nat /\ x >= o /\ blk[x].len \in Nat /\ blk[x].len >= 2
             /\ x + blk[x].len <= BlockSize
  <2>1. x \in Offset /\ blk[x].len \in Nat
    BY <1>1, LenFacts
  <2>2. x + blk[x].len \in S \cup {BlockSize} /\ blk[x].len >= 2 /\ x \in o .. BlockSize - 1
    BY DEF Chain
  <2>3. x + blk[x].len <= BlockSize
    BY <2>1, <2>2, SizeFacts DEF Chain
  <2> QED BY <2>1, <2>2, <2>3, SizeFacts DEF Offset
<1> QED BY <1>1, <1>2, SizeFacts DEF Sound

(* A walk visits the records of a chain, and ends with it.                 *)
LEMMA ChainVisited ==
  ASSUME NEW blk \in RawBlock, NEW f, Visits(blk, f), NEW o \in Nat, NEW S, Chain(blk, o, S)
  PROVE  /\ f[o] # << >> /\ Range(f[o]) = S
         /\ Last(f[o]) + blk[Last(f[o])].len = BlockSize
<1> DEFINE From(m) == {x \in S : x >= m}
           G == {m \in 0 .. BlockSize :
                   m \in S => /\ f[m] # << >> /\ Range(f[m]) = From(m)
                              /\ Last(f[m]) + blk[Last(f[m])].len = BlockSize}
<1>1. S \subseteq Offset /\ o \in Offset
  BY ChainFacts
<1>2. ASSUME NEW m \in 0 .. BlockSize, \A k \in m + 1 .. BlockSize : k \in G
      PROVE  m \in G
  <2> SUFFICES ASSUME m \in S
               PROVE  /\ f[m] # << >> /\ Range(f[m]) = From(m)
                      /\ Last(f[m]) + blk[Last(f[m])].len = BlockSize
    OBVIOUS
  <2> DEFINE nxt == m + blk[m].len
  <2>1. m \in Offset /\ m + 2 <= BlockSize /\ Sound(blk, m) /\ blk[m].len \in Nat /\ blk[m].len >= 2
    BY <1>1, ChainFacts
  <2>2. nxt \in m + 1 .. BlockSize /\ nxt \in S \cup {BlockSize}
    BY <2>1, StepForward DEF Chain
  <2>3. f[m] = << m >> \o f[nxt] /\ f[nxt] \in Seq(Offset)
    <3>1. nxt \in 0 .. BlockSize
      BY <2>2
    <3> QED BY <3>1, <2>1 DEF Visits, StepAt
  <2>4. \A x \in S : x >= m /\ x # m => x >= nxt
    <3> SUFFICES ASSUME NEW x \in S, x >= m, x # m PROVE x >= nxt
      OBVIOUS
    <3>1. x \in Nat /\ m < x
      BY <1>1, <2>1 DEF Offset
    <3>2. nxt <= x
      BY <3>1 DEF Chain
    <3> QED BY <3>1, <3>2, <2>2
  <2>5. CASE nxt \in S
    <3>1. f[nxt] # << >> /\ Range(f[nxt]) = From(nxt)
          /\ Last(f[nxt]) + blk[Last(f[nxt])].len = BlockSize
      BY <1>2, <2>2, <2>5
    <3>2. From(m) = {m} \cup From(nxt)
      <4>1. m \in Nat /\ nxt \in Nat /\ m <= nxt /\ m \in S /\ \A x \in S : x \in Nat
        BY <1>1, <2>2 DEF Offset
      <4> HIDE DEF nxt
      <4>2. m \in From(m) /\ \A x \in From(nxt) : x \in From(m)
        BY <4>1
      <4>3. \A x \in From(m) : x = m \/ x \in From(nxt)
        BY <4>1, <2>4
      <4> HIDE DEF From
      <4> QED BY <4>2, <4>3
    <3> HIDE DEF nxt, From
    <3> QED BY <3>1, <3>2, <2>1, <2>3, Ahead
  <2>6. CASE nxt \notin S
    <3>1. nxt = BlockSize
      BY <2>2, <2>6
    <3>2. f[nxt] = << >>
      <4>1. ~(nxt + 2 <= BlockSize) /\ nxt \in 0 .. BlockSize
        BY <3>1, SizeFacts
      <4> QED BY <4>1 DEF Visits, StepAt
    <3>3. From(m) = {m} /\ Range(f[nxt]) = {}
      <4>1. Range(f[nxt]) = {}
        BY <3>2 DEF Range
      <4>2. \A x \in S : x < BlockSize /\ x \in Nat
        BY <1>1, SizeFacts DEF Offset
      <4>3. From(m) = {m}
        <5>1. m \in Nat /\ \A x \in S : x >= m => x = m
          <6> HIDE DEF nxt
          <6> QED BY <4>2, <2>4, <3>1, SizeFacts
        <5>2. m \in From(m)
          BY <5>1
        <5>3. \A x \in From(m) : x = m
          BY <5>1
        <5> HIDE DEF From
        <5> QED BY <5>2, <5>3
      <4> QED BY <4>1, <4>3
    <3>4. m \in 0 .. BlockSize /\ nxt # m
      BY <2>1, <2>2
    <3> HIDE DEF nxt, From
    <3>5. m + blk[m].len = BlockSize
      BY <3>1 DEF nxt
    <3>6. Range(f[m]) = {m} \cup Range(f[nxt]) /\ Last(f[m]) = m /\ f[m] # << >>
      <4>1. f[m] = << m >> \o f[nxt] /\ f[nxt] \in Seq(Offset) /\ m \in Offset
        BY <2>1, <2>3
      <4>2. << m >> \o f[nxt] # << >>
            /\ Range(<< m >> \o f[nxt]) = {m} \cup Range(f[nxt])
            /\ Last(<< m >> \o f[nxt]) = IF f[nxt] = << >> THEN m ELSE Last(f[nxt])
        BY <4>1, Ahead
      <4> HIDE DEF nxt
      <4> QED BY <4>1, <4>2, <3>2
    <3> QED BY <3>3, <3>5, <3>6
  <2> QED BY <2>5, <2>6
<1> HIDE DEF G
<1>3. o \in G /\ o \in S
  <2>1. \A m \in 0 .. BlockSize : m \in G
    BY <1>2, FromTheTop, SizeFacts
  <2>2. o \in S /\ o \in 0 .. BlockSize
    BY <1>1, SizeFacts DEF Offset, Chain
  <2> QED BY <2>1, <2>2
<1>4. From(o) = S
  BY ChainFacts
<1> QED BY <1>3, <1>4 DEF G

(* A walk that ends with the block visits a chain.                         *)
LEMMA VisitedChain ==
  ASSUME NEW blk \in RawBlock, NEW f, Visits(blk, f), NEW o \in 0 .. BlockSize,
         f[o] # << >>, Last(f[o]) + blk[Last(f[o])].len = BlockSize
  PROVE  Chain(blk, o, Range(f[o]))
<1> DEFINE Ends(m) == f[m] # << >> /\ Last(f[m]) + blk[Last(f[m])].len = BlockSize
           G == {m \in 0 .. BlockSize : Ends(m) => Chain(blk, m, Range(f[m]))}
<1>1. ASSUME NEW m \in 0 .. BlockSize, \A k \in m + 1 .. BlockSize : k \in G
      PROVE  m \in G
  <2> SUFFICES ASSUME Ends(m) PROVE Chain(blk, m, Range(f[m]))
    OBVIOUS
  <2> DEFINE nxt == m + blk[m].len
  <2>1. m + 2 <= BlockSize /\ Sound(blk, m)
    BY DEF Visits, StepAt
  <2>2. m \in Offset /\ nxt \in m + 1 .. BlockSize /\ blk[m].len \in Nat
    BY <2>1, StepForward, LenFacts
  <2>3. f[m] = << m >> \o f[nxt] /\ f[nxt] \in Seq(Offset)
    <3>1. nxt \in 0 .. BlockSize
      BY <2>2
    <3> QED BY <3>1, <2>1 DEF Visits, StepAt
  <2>4. blk[m].len >= 2 /\ m <= BlockSize - 1 /\ m \in Nat
    BY <2>1, <2>2, SizeFacts DEF Sound, Offset
  <2>5. /\ Range(f[m]) = {m} \cup Range(f[nxt])
        /\ Last(f[m]) = IF f[nxt] = << >> THEN m ELSE Last(f[nxt])
    <3> HIDE DEF nxt
    <3> QED BY <2>2, <2>3, Ahead
  <2>6. CASE f[nxt] = << >>
    <3>1. nxt = BlockSize /\ Range(f[m]) = {m}
      <4>1. Range(f[nxt]) = {}
        BY <2>6 DEF Range
      <4> QED BY <2>5, <2>6, <4>1
    <3> QED BY <3>1, <2>4, SizeFacts DEF Chain
  <2>7. CASE f[nxt] # << >>
    <3>1. Chain(blk, nxt, Range(f[nxt]))
      BY <1>1, <2>2, <2>5, <2>7
    <3> DEFINE R == Range(f[nxt])
    <3>2. /\ nxt \in R
          /\ \A x \in R : /\ x \in Nat /\ x >= nxt /\ x <= BlockSize - 1
                          /\ blk[x].len >= 2 /\ x + blk[x].len \in R \cup {BlockSize}
          /\ \A x, y \in R : x < y => x + blk[x].len <= y
      BY <3>1, <2>2, SizeFacts DEF Chain
    <3>3. Range(f[m]) = {m} \cup R
      BY <2>5
    <3> HIDE DEF R
    <3>4. Chain(blk, m, {m} \cup R)
      <4>1. {m} \cup R \subseteq m .. BlockSize - 1
        <5>1. \A x \in R : x \in m .. BlockSize - 1
          <6>1. nxt \in Nat /\ nxt >= m
            BY <2>2
          <6> HIDE DEF nxt
          <6> QED BY <6>1, <3>2, <2>4, SizeFacts
        <5>2. m \in m .. BlockSize - 1
          BY <2>4, SizeFacts
        <5> QED BY <5>1, <5>2
      <4>2. \A x \in {m} \cup R : blk[x].len >= 2 /\ x + blk[x].len \in {m} \cup R \cup {BlockSize}
        BY <3>2, <2>4
      <4>3. \A x, y \in {m} \cup R : x < y => x + blk[x].len <= y
        BY <3>2, <2>2, <2>4
      <4> QED BY <4>1, <4>2, <4>3 DEF Chain
    <3> QED BY <3>3, <3>4
  <2> QED BY <2>6, <2>7
<1> HIDE DEF G
<1>2. o \in G
  BY <1>1, FromTheTop, SizeFacts
<1> QED BY <1>2 DEF G

(***************************************************************************)
(* A tiled block.                                                          *)
(***************************************************************************)
(* The records of a block in S, each with room for its name and, if it     *)
(* must be, the last of them the checksum record.                          *)
Laid(blk, tail, S) ==
  /\ Chain(blk, 0, S)
  /\ tail => BlockSize - 3 \in S /\ blk[BlockSize - 3] = Sentinel
  /\ \A x \in S : blk[x].ino # 0 => EntrySize(blk[x].name) <= blk[x].len

(* The checksum record.                                                    *)
LEMMA SentinelFields == Sentinel.ino = 0 /\ Sentinel.len = 3 /\ Sentinel.name = "tail"
  BY DEF Sentinel, Rec

(* A walk finds the records of a chain, and no other place.                *)
LEMMA ChainIsAt ==
  ASSUME NEW blk \in RawBlock, NEW S, Chain(blk, 0, S)
  PROVE  /\ At(blk) = S /\ Offsets(blk) # << >>
         /\ Last(Offsets(blk)) \in S
         /\ Last(Offsets(blk)) + blk[Last(Offsets(blk))].len = BlockSize
<1>1. PICK f : Visits(blk, f) /\ Offsets(blk) = f[0]
  BY OffsetsAre
<1>2. f[0] # << >> /\ Range(f[0]) = S /\ Last(f[0]) + blk[Last(f[0])].len = BlockSize
  BY <1>1, ChainVisited
<1>3. f[0] \in Seq(Offset)
  BY <1>1, SizeFacts DEF Visits
<1>4. Last(f[0]) \in Range(f[0])
  <2>1. Len(f[0]) \in 1 .. Len(f[0]) /\ DOMAIN f[0] = 1 .. Len(f[0])
    BY <1>2, <1>3
  <2> QED BY <2>1 DEF Last, Range
<1> QED BY <1>1, <1>2, <1>4 DEF At

(* The place where a chain's last record is.                               *)
LEMMA OneLast ==
  ASSUME NEW blk \in RawBlock, NEW S, Chain(blk, 0, S), NEW x \in S, NEW y \in S,
         x + blk[x].len = BlockSize, y + blk[y].len = BlockSize
  PROVE  x = y
<1>1. /\ x \in Nat /\ y \in Nat /\ x < BlockSize /\ y < BlockSize
  BY ChainFacts, SizeFacts DEF Offset
<1>2. (x < y => x + blk[x].len <= y) /\ (y < x => y + blk[y].len <= x)
  BY DEF Chain
<1> QED BY <1>1, <1>2, SizeFacts

(* The property of DirCorrect says that a block is laid out so.            *)
LEMMA TiledMeans ==
  ASSUME NEW blk \in RawBlock, NEW tail \in BOOLEAN
  PROVE  Tiled(blk, tail) <=> Laid(blk, tail, At(blk))
<1> DEFINE at == Offsets(blk)
           S == At(blk)
           Fits == \A x \in S : blk[x].ino # 0 => EntrySize(blk[x].name) <= blk[x].len
<1>1. Fits <=> \A x \in Records(blk) : blk[x].ino # 0 => EntrySize(blk[x].name) <= blk[x].len
  <2>1. Records(blk) = {x \in S : blk[x] # Sentinel}
    BY DEF Records, At
  <2> HIDE DEF S
  <2> QED BY <2>1, SentinelFields
<1>2. ASSUME Tiled(blk, tail) PROVE Laid(blk, tail, S)
  <2>1. at # << >> /\ Last(at) + blk[Last(at)].len = BlockSize /\ (tail => blk[Last(at)] = Sentinel)
    BY <1>2 DEF Tiled
  <2>2. PICK f : Visits(blk, f) /\ at = f[0]
    BY OffsetsAre
  <2>3. 0 \in 0 .. BlockSize
    BY SizeFacts
  <2>4. Chain(blk, 0, S)
    <3>1. Chain(blk, 0, Range(f[0]))
      <4>1. f[0] # << >> /\ Last(f[0]) + blk[Last(f[0])].len = BlockSize
        BY <2>1, <2>2
      <4> QED BY <2>2, <2>3, <4>1, VisitedChain
    <3> QED BY <3>1, <2>2 DEF At
  <2>5. Last(at) \in S
    BY <2>4, ChainIsAt
  <2>6. tail => BlockSize - 3 \in S /\ blk[BlockSize - 3] = Sentinel
    <3> SUFFICES ASSUME tail PROVE BlockSize - 3 \in S /\ blk[BlockSize - 3] = Sentinel
      OBVIOUS
    <3>1. Last(at) \in Offset
      BY <2>4, <2>5, ChainFacts
    <3>2. Last(at) = BlockSize - 3
      BY <2>1, <3>1, LenFacts, SentinelFields
    <3> QED BY <2>1, <2>5, <3>2
  <2>7. Fits
    BY <1>1, <1>2 DEF Tiled
  <2> QED BY <2>4, <2>6, <2>7 DEF Laid
<1>3. ASSUME Laid(blk, tail, S) PROVE Tiled(blk, tail)
  <2>1. Chain(blk, 0, S) /\ Fits /\ (tail => BlockSize - 3 \in S /\ blk[BlockSize - 3] = Sentinel)
    BY <1>3 DEF Laid
  <2>2. at # << >> /\ Last(at) \in S /\ Last(at) + blk[Last(at)].len = BlockSize
    BY <2>1, ChainIsAt
  <2>3. tail => blk[Last(at)] = Sentinel
    <3> SUFFICES ASSUME tail PROVE blk[Last(at)] = Sentinel
      OBVIOUS
    <3>1. (BlockSize - 3) + blk[BlockSize - 3].len = BlockSize
      BY <2>1, SentinelFields, SizeFacts
    <3>2. Last(at) = BlockSize - 3
      <4> HIDE DEF S, at
      <4> QED BY <2>1, <2>2, <3>1, OneLast
    <3> QED BY <2>1, <3>2
  <2> QED BY <2>1, <2>2, <2>3, <1>1 DEF Tiled
<1> QED BY <1>2, <1>3

(***************************************************************************)
(* What a block and a directory list.                                      *)
(***************************************************************************)
(* What holds of a place whenever it holds of the one before holds of all. *)
LEMMA FromTheFirst ==
  ASSUME NEW n \in Nat, NEW G, 1 \in G,
         \A m \in 1 .. n : m + 1 <= n /\ m \in G => m + 1 \in G
  PROVE  \A m \in 1 .. n : m \in G
<1> SUFFICES ASSUME NEW a \in 1 .. n, a \notin G PROVE FALSE
  OBVIOUS
<1> DEFINE M == {m \in 1 .. n : m \notin G}
<1>1. M \in SUBSET Nat /\ M # {}
  OBVIOUS
<1>2. PICK m \in M : \A k \in M : m <= k
  <2> HIDE DEF M
  <2> QED BY <1>1, LeastExists
<1>3. m # 1 /\ m - 1 \in 1 .. n /\ (m - 1) + 1 = m
  BY <1>2
<1>4. m - 1 \in G
  BY <1>2, <1>3
<1> QED BY <1>2, <1>3, <1>4

(* A sequence put behind another one.                                      *)
LEMMA Behind ==
  ASSUME NEW A, NEW s \in Seq(A), NEW t \in Seq(A)
  PROVE  s \o t \in Seq(A) /\ Range(s \o t) = Range(s) \cup Range(t)
<1> DEFINE u == s \o t
<1>1. /\ u \in Seq(A) /\ Len(u) = Len(s) + Len(t)
      /\ \A k \in 1 .. Len(s) : u[k] = s[k]
      /\ \A k \in 1 .. Len(t) : u[Len(s) + k] = t[k]
  OBVIOUS
<1>2. /\ DOMAIN u = 1 .. Len(s) + Len(t) /\ DOMAIN s = 1 .. Len(s) /\ DOMAIN t = 1 .. Len(t)
      /\ Len(s) \in Nat /\ Len(t) \in Nat
  BY <1>1
<1> HIDE DEF u
<1>3. ASSUME NEW k \in DOMAIN u PROVE u[k] \in Range(s) \cup Range(t)
  <2>1. CASE k <= Len(s)
    <3>1. k \in 1 .. Len(s)
      BY <2>1, <1>2
    <3> QED BY <3>1, <1>1, <1>2 DEF Range
  <2>2. CASE ~(k <= Len(s))
    <3>1. k - Len(s) \in 1 .. Len(t) /\ Len(s) + (k - Len(s)) = k
      BY <2>2, <1>2
    <3> QED BY <3>1, <1>1, <1>2 DEF Range
  <2> QED BY <2>1, <2>2
<1>4. ASSUME NEW k \in DOMAIN s PROVE s[k] \in Range(u)
  <2>1. k \in DOMAIN u /\ u[k] = s[k]
    BY <1>1, <1>2
  <2> QED BY <2>1 DEF Range
<1>5. ASSUME NEW k \in DOMAIN t PROVE t[k] \in Range(u)
  <2>1. Len(s) + k \in DOMAIN u /\ u[Len(s) + k] = t[k]
    BY <1>1, <1>2
  <2> QED BY <2>1 DEF Range
<1>6. Range(u) = Range(s) \cup Range(t)
  BY <1>3, <1>4, <1>5 DEF Range
<1> QED BY <1>1, <1>6 DEF u

(* A sequence of sequences is put together from the first one on.          *)
Joined(ss, f) ==
  \A i \in 1 .. Len(ss) : f[i] = IF i = 1 THEN ss[i] ELSE f[i - 1] \o ss[i]
(* There is such a way for every one that is not empty.                    *)
LEMMA FlattenSteps ==
  ASSUME NEW A, NEW ss \in Seq(Seq(A)), Len(ss) # 0
  PROVE  \E f : Joined(ss, f) /\ FlattenSeq(ss) = f[Len(ss)]
<1> DEFINE n == Len(ss)
           StepTo(f, i) == IF i = 1 THEN ss[i] ELSE f[i - 1] \o ss[i]
           Flat(f) == [i \in 1 .. n |-> IF i = 1 THEN ss[i] ELSE f[i - 1] \o ss[i]]
           flatten == CHOOSE f : f = Flat(f)
<1>1. n \in Nat /\ DOMAIN ss = 1 .. n /\ \A k \in 1 .. n : ss[k] \in Seq(A)
  OBVIOUS
<1>2. FlattenSeq(ss) = flatten[n]
  BY DEF FlattenSeq
<1> HIDE DEF n
<1>3. 1 \in 1 .. n /\ n \in 1 .. n
  BY <1>1 DEF n
<1> DEFINE K == {m \in 1 .. n : \E f \in [1 .. m -> Seq(A)] :
                                  \A i \in 1 .. m : f[i] = StepTo(f, i)}
<1>4. 1 \in K
  <2> DEFINE f == [i \in 1 .. 1 |-> ss[1]]
  <2>1. f \in [1 .. 1 -> Seq(A)] /\ \A i \in 1 .. 1 : f[i] = StepTo(f, i)
    BY <1>1, <1>3
  <2> HIDE DEF f
  <2> QED BY <2>1, <1>3
<1>5. ASSUME NEW m \in 1 .. n, m + 1 <= n, m \in K PROVE m + 1 \in K
  <2>1. PICK f \in [1 .. m -> Seq(A)] : \A i \in 1 .. m : f[i] = StepTo(f, i)
    BY <1>5
  <2> DEFINE g == [i \in 1 .. m + 1 |-> IF i = m + 1 THEN f[m] \o ss[m + 1] ELSE f[i]]
  <2>2. m + 1 \in 1 .. n /\ m \in 1 .. m /\ \A i \in 1 .. m + 1 : i # m + 1 => i \in 1 .. m
    BY <1>1, <1>5
  <2>3. f[m] \o ss[m + 1] \in Seq(A)
    BY <1>1, <2>1, <2>2
  <2>4. g \in [1 .. m + 1 -> Seq(A)]
    BY <2>1, <2>2, <2>3
  <2>5. g[m + 1] = f[m] \o ss[m + 1] /\ \A i \in 1 .. m : g[i] = f[i]
    BY <1>1, <2>2
  <2> HIDE DEF g
  <2>6. ASSUME NEW i \in 1 .. m + 1 PROVE g[i] = StepTo(g, i)
    <3>1. CASE i = m + 1
      <4>1. i # 1 /\ i - 1 = m
        BY <3>1, <1>1
      <4>2. g[m] = f[m]
        BY <2>2, <2>5
      <4> QED BY <3>1, <4>1, <4>2, <2>5
    <3>2. CASE i # m + 1
      <4>1. i \in 1 .. m /\ (i # 1 => i - 1 \in 1 .. m)
        BY <3>2, <2>2, <1>1
      <4>2. g[i] = f[i] /\ (i # 1 => g[i - 1] = f[i - 1])
        BY <4>1, <2>5
      <4> QED BY <2>1, <4>1, <4>2
    <3> QED BY <3>1, <3>2
  <2> QED BY <2>2, <2>4, <2>6
<1>6. \A m \in 1 .. n : m \in K
  <2> HIDE DEF K
  <2> QED BY <1>1, <1>4, <1>5, FromTheFirst
<1>7. n \in K
  <2> HIDE DEF K
  <2> QED BY <1>3, <1>6
<1>8. PICK f \in [1 .. n -> Seq(A)] : \A i \in 1 .. n : f[i] = StepTo(f, i)
  BY <1>7
<1>9. f = Flat(f)
  BY <1>8
<1>10. flatten = Flat(flatten)
  BY <1>9
<1> HIDE DEF flatten
<1>11. \A i \in 1 .. n : flatten[i] = StepTo(flatten, i)
  BY <1>10
<1>12. Joined(ss, flatten)
  BY <1>11 DEF Joined, n
<1> QED BY <1>2, <1>12 DEF n

(* So its elements are those of its parts.                                 *)
LEMMA FlattenShows ==
  ASSUME NEW A, NEW ss \in Seq(Seq(A))
  PROVE  /\ FlattenSeq(ss) \in Seq(A)
         /\ \A x : x \in Range(FlattenSeq(ss)) <=> \E k \in DOMAIN ss : x \in Range(ss[k])
<1> DEFINE n == Len(ss)
           StepTo(f, i) == IF i = 1 THEN ss[i] ELSE f[i - 1] \o ss[i]
<1>1. n \in Nat /\ DOMAIN ss = 1 .. n /\ \A k \in 1 .. n : ss[k] \in Seq(A)
  OBVIOUS
<1>2. CASE n = 0
  <2>1. ss = << >> /\ FlattenSeq(ss) = << >>
    BY <1>2 DEF FlattenSeq
  <2>2. DOMAIN << >> = {} /\ << >> \in Seq(A)
    OBVIOUS
  <2>3. Range(<< >>) = {}
    BY <2>2 DEF Range
  <2> QED BY <2>1, <2>2, <2>3
<1>3. CASE n # 0
  <2>1. 1 \in 1 .. n /\ n \in 1 .. n
    BY <1>1, <1>3
  <2>2. PICK flatten : Joined(ss, flatten) /\ FlattenSeq(ss) = flatten[n]
    BY <1>3, FlattenSteps
  <2>3. \A i \in 1 .. n : flatten[i] = StepTo(flatten, i)
    BY <2>2 DEF Joined
  <2> HIDE DEF n
  <2> DEFINE Upto(m) == {x \in A : \E k \in 1 .. m : x \in Range(ss[k])}
             G == {m \in 1 .. n : flatten[m] \in Seq(A) /\ Range(flatten[m]) = Upto(m)}
  <2>4. \A k \in 1 .. n : Range(ss[k]) \subseteq A
    BY <1>1 DEF Range
  <2>5. 1 \in G
    <3>1. 1 \in 1 .. n /\ flatten[1] = ss[1]
      BY <2>1, <2>3
    <3>2. \A k \in 1 .. 1 : k = 1
      OBVIOUS
    <3>3. Range(ss[1]) = Upto(1)
      <4>1. \A x \in Range(ss[1]) : x \in Upto(1)
        BY <3>1, <2>4
      <4>2. \A x \in Upto(1) : x \in Range(ss[1])
        BY <3>2
      <4> QED BY <4>1, <4>2
    <3> HIDE DEF Upto
    <3> QED BY <1>1, <3>1, <3>3
  <2>6. ASSUME NEW m \in 1 .. n, m + 1 <= n, m \in G PROVE m + 1 \in G
    <3>1. m + 1 \in 1 .. n /\ m + 1 # 1 /\ (m + 1) - 1 = m
      BY <1>1, <2>6
    <3>2. flatten[m + 1] = flatten[m] \o ss[m + 1]
      BY <2>3, <3>1
    <3>3. flatten[m + 1] \in Seq(A) /\ Range(flatten[m + 1]) = Upto(m) \cup Range(ss[m + 1])
      <4>1. flatten[m] \in Seq(A) /\ ss[m + 1] \in Seq(A) /\ Range(flatten[m]) = Upto(m)
        BY <1>1, <2>6, <3>1
      <4> HIDE DEF Upto
      <4> QED BY <3>2, <4>1, Behind
    <3>4. Upto(m + 1) = Upto(m) \cup Range(ss[m + 1])
      <4>1. \A k \in 1 .. m + 1 : k \in 1 .. m \/ k = m + 1
        BY <1>1
      <4>2. \A k \in 1 .. m : k \in 1 .. m + 1
        BY <1>1
      <4>3. m + 1 \in 1 .. m + 1
        BY <1>1
      <4>4. \A x \in Upto(m + 1) : x \in Upto(m) \/ x \in Range(ss[m + 1])
        BY <4>1
      <4>5. \A x \in Upto(m) : x \in Upto(m + 1)
        BY <4>2
      <4>6. \A x \in Range(ss[m + 1]) : x \in Upto(m + 1)
        BY <4>3, <3>1, <2>4
      <4> HIDE DEF Upto
      <4> QED BY <4>4, <4>5, <4>6
    <3> HIDE DEF Upto
    <3> QED BY <3>1, <3>3, <3>4
  <2>7. n \in G
    <3> HIDE DEF G
    <3>1. \A m \in 1 .. n : m \in G
      BY <1>1, <2>5, <2>6, FromTheFirst
    <3> QED BY <2>1, <3>1
  <2>8. flatten[n] \in Seq(A) /\ Range(flatten[n]) = Upto(n)
    BY <2>7
  <2> QED BY <1>1, <2>2, <2>4, <2>8
<1> QED BY <1>2, <1>3

(* A laid-out block lists its records in use.                              *)
LEMMA ListedShows ==
  ASSUME NEW blk \in RawBlock, NEW tail, Laid(blk, tail, At(blk))
  PROVE  /\ Listed(blk) \in Seq(Record)
         /\ \A c : c \in Range(Listed(blk)) <=> \E o \in LiveAt(blk) : c = blk[o]
<1> DEFINE at == Offsets(blk)
           ss == [k \in DOMAIN at |-> IF Shown(blk, at[k]) THEN << blk[at[k]] >> ELSE << >>]
<1>1. PICK f : Visits(blk, f) /\ at = f[0]
  BY OffsetsAre
<1>2. at \in Seq(Offset)
  BY <1>1, SizeFacts DEF Visits
<1>3. /\ DOMAIN at = 1 .. Len(at) /\ Len(at) \in Nat
      /\ \A k \in DOMAIN at : at[k] \in Offset /\ at[k] \in At(blk)
      /\ \A o \in At(blk) : \E k \in DOMAIN at : at[k] = o
  <2> HIDE DEF at
  <2>1. At(blk) = Range(at)
    BY DEF At, at
  <2> QED BY <1>2, <2>1 DEF Range
<1>4. \A k \in DOMAIN at : blk[at[k]] \in Record
  BY <1>3, LenFacts
<1>5. \A o \in At(blk) : Shown(blk, o) <=> o \in LiveAt(blk)
  BY DEF Shown, LiveAt, Laid
<1>6. Listed(blk) = FlattenSeq(ss)
  BY DEF Listed
<1> HIDE DEF at
<1>7. \A k \in DOMAIN at : ss[k] = IF Shown(blk, at[k]) THEN << blk[at[k]] >> ELSE << >>
  OBVIOUS
<1>8. ss \in Seq(Seq(Record))
  <2>1. \A k \in DOMAIN at : << blk[at[k]] >> \in Seq(Record)
    BY <1>4
  <2>2. << >> \in Seq(Record)
    OBVIOUS
  <2>3. ss \in [1 .. Len(at) -> Seq(Record)]
    BY <1>3, <2>1, <2>2
  <2> HIDE DEF ss
  <2> QED BY <1>3, <2>3
<1>9. DOMAIN ss = DOMAIN at
  OBVIOUS
<1> HIDE DEF ss
<1>10. \A c : Range(<< c >>) = {c}
  <2> SUFFICES ASSUME NEW c PROVE Range(<< c >>) = {c}
    OBVIOUS
  <2>1. DOMAIN << c >> = {1} /\ << c >>[1] = c
    OBVIOUS
  <2> QED BY <2>1 DEF Range
<1>11. Range(<< >>) = {}
  BY DEF Range
<1>12. \A k \in DOMAIN at : Range(ss[k]) = IF at[k] \in LiveAt(blk) THEN {blk[at[k]]} ELSE {}
  <2> SUFFICES ASSUME NEW k \in DOMAIN at
               PROVE  Range(ss[k]) = IF at[k] \in LiveAt(blk) THEN {blk[at[k]]} ELSE {}
    OBVIOUS
  <2>1. Shown(blk, at[k]) <=> at[k] \in LiveAt(blk)
    BY <1>3, <1>5
  <2>2. CASE at[k] \in LiveAt(blk)
    <3>1. ss[k] = << blk[at[k]] >>
      BY <1>7, <2>1, <2>2
    <3> QED BY <1>10, <2>2, <3>1
  <2>3. CASE at[k] \notin LiveAt(blk)
    <3>1. ss[k] = << >>
      BY <1>7, <2>1, <2>3
    <3> QED BY <1>11, <2>3, <3>1
  <2> QED BY <2>2, <2>3
<1>13. \A c : c \in Range(Listed(blk)) <=> \E k \in DOMAIN at : c \in Range(ss[k])
  BY <1>6, <1>8, <1>9, FlattenShows
<1>14. \A o \in LiveAt(blk) : o \in At(blk)
  BY DEF LiveAt
<1>15. Listed(blk) \in Seq(Record)
  BY <1>6, <1>8, FlattenShows
<1>16. ASSUME NEW c \in Range(Listed(blk)) PROVE \E o \in LiveAt(blk) : c = blk[o]
  <2>1. PICK k \in DOMAIN at : c \in Range(ss[k])
    BY <1>13
  <2> QED BY <1>12, <2>1
<1>17. ASSUME NEW o \in LiveAt(blk) PROVE blk[o] \in Range(Listed(blk))
  <2>1. PICK k \in DOMAIN at : at[k] = o
    BY <1>3, <1>14
  <2>2. blk[o] \in Range(ss[k])
    BY <1>12, <2>1
  <2> QED BY <1>13, <2>2
<1> QED BY <1>15, <1>16, <1>17

(***************************************************************************)
(* Splitting and merging records.                                          *)
(***************************************************************************)
(* The least and the greatest of a set of offsets.                         *)
LEMMA MinMax ==
  ASSUME NEW S \in SUBSET Nat, S # {}
  PROVE  /\ Min(S) \in S /\ \A x \in S : Min(S) <= x
         /\ \A b \in Nat : (\A x \in S : x <= b) => Max(S) \in S /\ \A x \in S : x <= Max(S)
<1>1. Min(S) \in S /\ \A x \in S : Min(S) <= x
  <2>1. PICK m \in S : \A x \in S : m <= x
    BY LeastExists
  <2> QED BY <2>1 DEF Min
<1>2. ASSUME NEW b \in Nat, \A x \in S : x <= b
      PROVE  Max(S) \in S /\ \A x \in S : x <= Max(S)
  <2>1. S \in SUBSET (0 .. b)
    BY <1>2
  <2>2. PICK m \in S : \A x \in S : x <= m
    BY <2>1, GreatestExists
  <2>3. m \in S /\ \A x \in S : m >= x
    BY <2>1, <2>2
  <2>4. Max(S) \in S /\ \A x \in S : Max(S) >= x
    BY <2>3 DEF Max
  <2> QED BY <2>1, <2>4
<1> QED BY <1>1, <1>2

(* What a chain from the beginning of a block is.                          *)
LEMMA ChainIs ==
  ASSUME NEW blk \in RawBlock, NEW S, Chain(blk, 0, S)
  PROVE  /\ S \subseteq 0 .. BlockSize - 1 /\ S \subseteq Offset /\ 0 \in S
         /\ \A x \in S : /\ x \in Nat /\ x < BlockSize /\ blk[x].len \in Nat /\ blk[x].len >= 2
                         /\ x + blk[x].len \in S \cup {BlockSize} /\ x + blk[x].len <= BlockSize
         /\ \A x, y \in S : x < y => x + blk[x].len <= y
<1>1. S \subseteq Offset /\ \A x \in S : x \in Nat /\ blk[x].len \in Nat /\ x + blk[x].len <= BlockSize
  BY ChainFacts
<1>2. S \subseteq 0 .. BlockSize - 1
  BY <1>1 DEF Offset
<1>3. \A x \in S : x < BlockSize
  BY <1>2, SizeFacts
<1>4. /\ 0 \in S /\ \A x \in S : blk[x].len >= 2 /\ x + blk[x].len \in S \cup {BlockSize}
      /\ \A x, y \in S : x < y => x + blk[x].len <= y
  BY DEF Chain
<1> QED BY <1>1, <1>2, <1>3, <1>4

(* A record whose room is split between itself and a new one behind it.    *)
LEMMA ChainSplit ==
  ASSUME NEW blk \in RawBlock, NEW b2 \in RawBlock, NEW S, Chain(blk, 0, S),
         NEW o \in S, NEW u \in Nat, u >= 2, u + 2 <= blk[o].len,
         b2[o].len = u, b2[o + u].len = blk[o].len - u,
         \A x \in S \ {o} : b2[x].len = blk[x].len
  PROVE  Chain(b2, 0, S \cup {o + u}) /\ o + u \notin S /\ o + u \in Offset
<1> DEFINE at == o + u
           nxt == o + blk[o].len
<1>1. /\ S \subseteq Offset /\ 0 \in S
      /\ \A x \in S : /\ x \in Nat /\ x < BlockSize /\ blk[x].len \in Nat /\ blk[x].len >= 2
                      /\ x + blk[x].len \in S \cup {BlockSize} /\ x + blk[x].len <= BlockSize
      /\ \A x, y \in S : x < y => x + blk[x].len <= y
  BY ChainIs
<1>2. /\ o \in Nat /\ at \in Nat /\ nxt \in Nat /\ o < at /\ at + 2 <= nxt /\ nxt <= BlockSize
      /\ at + b2[at].len = nxt /\ b2[at].len >= 2 /\ nxt \in S \cup {BlockSize}
  BY <1>1
<1>3. \A y \in S : y > o => y >= nxt
  BY <1>1, <1>2
<1>4. \A y \in S : y \in Nat /\ y < BlockSize
  BY <1>1
<1>5. o + b2[o].len = at
  OBVIOUS
<1> HIDE DEF at, nxt
<1>6. at \notin S
  BY <1>2, <1>3
<1>7. at \in Offset /\ at \in 0 .. BlockSize - 1
  BY <1>2, SizeFacts DEF Offset
<1>8. S \cup {at} \subseteq 0 .. BlockSize - 1
  BY <1>4, <1>7, SizeFacts
<1>9. ASSUME NEW x \in S \cup {at}
      PROVE  b2[x].len >= 2 /\ x + b2[x].len \in S \cup {at} \cup {BlockSize}
  <2>1. CASE x = at
    BY <1>2, <2>1
  <2>2. CASE x = o
    BY <1>5, <2>2
  <2>3. CASE x \in S \ {o}
    BY <1>1, <2>3
  <2> QED BY <2>1, <2>2, <2>3
<1>10. ASSUME NEW x \in S \cup {at}, NEW y \in S \cup {at}, x < y
       PROVE  x + b2[x].len <= y
  <2>1. CASE x = at
    <3>1. y \in S /\ y > o
      BY <1>2, <1>4, <1>10, <2>1
    <3> QED BY <1>2, <1>3, <2>1, <3>1
  <2>2. CASE x = o
    <3>1. CASE y = at
      BY <1>2, <1>5, <2>2, <3>1
    <3>2. CASE y # at
      <4>1. y \in S /\ y > o
        BY <1>10, <2>2, <3>2, <1>2, <1>4
      <4> QED BY <4>1, <1>2, <1>3, <1>4, <1>5, <2>2
    <3> QED BY <3>1, <3>2
  <2>3. CASE x \in S \ {o}
    <3>1. b2[x].len = blk[x].len
      BY <2>3
    <3>2. CASE y \in S
      BY <1>1, <1>10, <2>3, <3>1, <3>2
    <3>3. CASE y = at
      <4>1. x < o
        BY <1>2, <1>3, <1>4, <1>10, <2>3, <3>3
      <4>2. x + blk[x].len <= o
        BY <1>1, <2>3, <4>1
      <4>3. x \in Nat /\ blk[x].len \in Nat
        BY <1>1, <2>3
      <4> QED BY <1>2, <3>1, <3>3, <4>2, <4>3
    <3> QED BY <3>2, <3>3
  <2> QED BY <2>1, <2>2, <2>3
<1> QED BY <1>1, <1>6, <1>7, <1>8, <1>9, <1>10 DEF Chain, at

(* A record that takes over the room of the one behind it.                 *)
LEMMA ChainMerge ==
  ASSUME NEW blk \in RawBlock, NEW b2 \in RawBlock, NEW S, Chain(blk, 0, S),
         NEW p \in S, NEW o \in S, p + blk[p].len = o,
         b2[p].len = blk[p].len + blk[o].len,
         \A x \in S \ {p, o} : b2[x].len = blk[x].len
  PROVE  Chain(b2, 0, S \ {o})
<1>1. /\ S \subseteq 0 .. BlockSize - 1 /\ 0 \in S
      /\ \A x \in S : /\ x \in Nat /\ x < BlockSize /\ blk[x].len \in Nat /\ blk[x].len >= 2
                      /\ x + blk[x].len \in S \cup {BlockSize} /\ x + blk[x].len <= BlockSize
      /\ \A x, y \in S : x < y => x + blk[x].len <= y
  BY ChainIs
<1>2. /\ p \in Nat /\ o \in Nat /\ p < o /\ o # 0
      /\ p + b2[p].len = o + blk[o].len /\ b2[p].len >= 2 /\ o + blk[o].len > o
  BY <1>1
<1>3. ASSUME NEW x \in S \ {o}
      PROVE  b2[x].len >= 2 /\ x + b2[x].len \in (S \ {o}) \cup {BlockSize}
  <2>1. CASE x = p
    BY <1>1, <1>2, <2>1
  <2>2. CASE x # p
    <3>1. b2[x].len = blk[x].len /\ x \in Nat /\ blk[x].len \in Nat
      BY <1>1, <2>2
    <3>2. x + blk[x].len # o
      <4>1. CASE x < p
        <5>1. x + blk[x].len <= p
          BY <1>1, <4>1
        <5> QED BY <1>2, <3>1, <5>1
      <4>2. CASE p < x
        <5>1. o <= x /\ blk[x].len >= 2
          BY <1>1, <4>2
        <5> QED BY <1>2, <3>1, <5>1
      <4> QED BY <1>2, <2>2, <3>1, <4>1, <4>2
    <3> QED BY <1>1, <3>1, <3>2
  <2> QED BY <2>1, <2>2
<1>4. ASSUME NEW x \in S \ {o}, NEW y \in S \ {o}, x < y
      PROVE  x + b2[x].len <= y
  <2>1. CASE x = p
    <3>1. y \in Nat /\ p + blk[p].len <= y
      BY <1>1, <1>4, <2>1
    <3>2. o < y
      BY <1>2, <1>4, <3>1
    <3>3. o + blk[o].len <= y
      BY <1>1, <3>2
    <3> QED BY <1>2, <2>1, <3>3
  <2>2. CASE x # p
    BY <1>1, <1>4, <2>2
  <2> QED BY <2>1, <2>2
<1> QED BY <1>1, <1>2, <1>3, <1>4 DEF Chain

(* Where no length changes, nor does the chain.                            *)
LEMMA ChainSame ==
  ASSUME NEW blk, NEW b2, NEW S, Chain(blk, 0, S), \A x \in S : b2[x].len = blk[x].len
  PROVE  Chain(b2, 0, S)
  BY DEF Chain

(* A record but the first one follows another.                             *)
LEMMA ChainBefore ==
  ASSUME NEW blk \in RawBlock, NEW S, Chain(blk, 0, S), NEW o \in S, o # 0,
         NEW before, before = {x \in S : x < o}
  PROVE  /\ before # {} /\ Max(before) \in S /\ Max(before) < o
         /\ Max(before) + blk[Max(before)].len = o
<1> DEFINE p == Max(before)
<1>1. /\ S \subseteq 0 .. BlockSize - 1 /\ 0 \in S
      /\ \A x \in S : /\ x \in Nat /\ x < BlockSize /\ blk[x].len \in Nat /\ blk[x].len >= 2
                      /\ x + blk[x].len \in S \cup {BlockSize} /\ x + blk[x].len <= BlockSize
      /\ \A x, y \in S : x < y => x + blk[x].len <= y
  BY ChainIs
<1>2. 0 \in before /\ before \subseteq Nat /\ \A x \in before : x <= o
  <2>1. o \in Nat /\ 0 < o
    BY <1>1
  <2>2. \A x \in before : x \in S /\ x < o
    OBVIOUS
  <2>3. \A x \in before : x \in Nat /\ x <= o
    BY <1>1, <2>1, <2>2
  <2> QED BY <1>1, <2>1, <2>3
<1>3. p \in before /\ \A x \in before : x <= p
  <2> HIDE DEF p
  <2>1. before \in SUBSET Nat /\ before # {} /\ o \in Nat
    BY <1>1, <1>2
  <2> QED BY <1>2, <2>1, MinMax DEF p
<1> HIDE DEF p
<1>4. p \in S /\ p < o /\ p \in Nat /\ o \in Nat /\ blk[p].len \in Nat /\ blk[p].len >= 2
  BY <1>1, <1>3
<1>5. p + blk[p].len <= o /\ o < BlockSize
  BY <1>1, <1>4
<1>6. p + blk[p].len \in S
  BY <1>1, <1>4, <1>5, SizeFacts
<1>7. ~(p + blk[p].len < o)
  <2> SUFFICES ASSUME p + blk[p].len < o PROVE FALSE
    OBVIOUS
  <2>1. p + blk[p].len \in before
    BY <1>6
  <2>2. p + blk[p].len <= p
    BY <1>3, <2>1
  <2> QED BY <1>4, <2>2
<1>8. p + blk[p].len = o
  BY <1>4, <1>5, <1>7
<1> QED BY <1>2, <1>4, <1>8 DEF p

(***************************************************************************)
(* What the changes of a block do to its records.                          *)
(***************************************************************************)
(* The fields of records, written and changed.                             *)
LEMMA RecFields ==
  /\ \A i, l, n : Rec(i, l, n).ino = i /\ Rec(i, l, n).len = l /\ Rec(i, l, n).name = n
  /\ \A i \in Nat, l \in Nat, n \in Name \cup Dots : Rec(i, l, n) \in Record
  /\ \A r \in Record : \A l \in Nat :
       LET s == [r EXCEPT !.len = l] IN
       s \in Record /\ s.ino = r.ino /\ s.len = l /\ s.name = r.name
  /\ \A r \in Record : \A i \in Nat :
       LET s == [r EXCEPT !.ino = i] IN
       s \in Record /\ s.ino = i /\ s.len = r.len /\ s.name = r.name
  /\ \A r \in Record : \A n \in Name \cup Dots :
       LET s == [r EXCEPT !.name = n] IN
       s \in Record /\ s.ino = r.ino /\ s.len = r.len /\ s.name = n
<1>1. Name \cup Dots \subseteq Label
  BY Zenon DEF Label
<1>2. \A r \in Record : r.ino \in Nat /\ r.len \in Nat /\ r.name \in Label
  BY DEF Record
<1> QED BY <1>1, <1>2 DEF Rec, Record

(* A block with another record in a place.                                 *)
LEMMA RawEdit ==
  ASSUME NEW blk \in RawBlock, NEW o \in Offset, NEW r \in Record,
         r.ino # 0 => r.name \in Name \cup Dots, r.name = "tail" => o = BlockSize - 3
  PROVE  /\ [blk EXCEPT ![o] = r] \in RawBlock
         /\ \A x \in Offset : [blk EXCEPT ![o] = r][x] = IF x = o THEN r ELSE blk[x]
<1> DEFINE b2 == [blk EXCEPT ![o] = r]
<1>1. blk \in [Offset -> Record]
  BY LenFacts
<1>2. b2 \in [Offset -> Record] /\ \A x \in Offset : b2[x] = IF x = o THEN r ELSE blk[x]
  BY <1>1
<1> HIDE DEF b2
<1>3. ASSUME NEW x \in Offset
      PROVE  /\ b2[x].ino # 0 => b2[x].name \in Name \cup Dots
             /\ b2[x].name = "tail" => x = BlockSize - 3
  <2>1. CASE x = o
    BY <1>2, <2>1
  <2>2. CASE x # o
    BY <1>2, <2>2, LenFacts
  <2> QED BY <2>1, <2>2
<1>4. b2 \in RawBlock
  BY <1>2, <1>3 DEF RawBlock
<1> QED BY <1>2, <1>4 DEF b2

(* A checksum record that is there already is not stamped anew.            *)
LEMMA StampedSame ==
  ASSUME NEW blk \in RawBlock, Tails => blk[BlockSize - 3] = Sentinel
  PROVE  Stamped(blk) = blk
<1>1. blk \in [Offset -> Record] /\ BlockSize - 3 \in Offset
  BY SizeFacts, LenFacts
<1>2. CASE Tails
  <2>1. [blk EXCEPT ![BlockSize - 3] = Sentinel] = blk
    BY <1>1, <1>2
  <2> QED BY <1>2, <2>1 DEF Stamped
<1>3. CASE ~Tails
  BY <1>3 DEF Stamped
<1> QED BY <1>2, <1>3

(* What is in use in a block stays but for the places in X.                *)
KeepsBut(blk, b2, X) ==
  \A o \in LiveAt(blk) \ X : /\ o \in LiveAt(b2)
                             /\ b2[o].ino = blk[o].ino /\ b2[o].name = blk[o].name
\* a block of entries: one that a call may change
EntryBlock(blk) == blk \in RawBlock /\ Laid(blk, Tails, At(blk))

(* What an entry block is, and which of its places are in use.             *)
LEMMA EntryBlockIs ==
  ASSUME NEW blk, EntryBlock(blk)
  PROVE  /\ blk \in RawBlock /\ Chain(blk, 0, At(blk)) /\ At(blk) \subseteq Offset
         /\ Tails => BlockSize - 3 \in At(blk) /\ blk[BlockSize - 3] = Sentinel
         /\ \A x \in At(blk) : blk[x].ino # 0 => EntrySize(blk[x].name) <= blk[x].len
         /\ \A x \in At(blk) : /\ x \in Nat /\ blk[x] \in Record
                               /\ blk[x].ino \in Nat /\ blk[x].len \in Nat
                               /\ blk[x].ino # 0 => blk[x].name \in Name \cup Dots
         /\ \A x \in LiveAt(blk) : x \in At(blk) /\ x \in Offset /\ blk[x].ino # 0 /\ blk[x] # Sentinel
<1>1. blk \in RawBlock /\ Laid(blk, Tails, At(blk))
  BY DEF EntryBlock
<1>2. Chain(blk, 0, At(blk))
  BY <1>1 DEF Laid
<1>3. At(blk) \subseteq Offset
  BY <1>1, <1>2, ChainIs
<1>4. \A x \in At(blk) : /\ x \in Nat /\ blk[x] \in Record
                         /\ blk[x].ino \in Nat /\ blk[x].len \in Nat
                         /\ blk[x].ino # 0 => blk[x].name \in Name \cup Dots
  <2>1. \A x \in At(blk) : x \in Nat
    BY <1>1, <1>2, ChainIs
  <2> QED BY <1>1, <1>3, <2>1, LenFacts
<1>5. \A x \in LiveAt(blk) : x \in At(blk) /\ x \in Offset /\ blk[x].ino # 0 /\ blk[x] # Sentinel
  BY <1>3, SentinelFields DEF LiveAt
<1> QED BY <1>1, <1>2, <1>3, <1>4, <1>5 DEF Laid

(* A block is an entry block when a chain of records with room for their   *)
(* names is in it, and nothing else is visited then.                       *)
LEMMA EntryBlockFrom ==
  ASSUME NEW b2 \in RawBlock, NEW S, Laid(b2, Tails, S)
  PROVE  EntryBlock(b2) /\ At(b2) = S
<1>1. Chain(b2, 0, S)
  BY DEF Laid
<1>2. At(b2) = S
  BY <1>1, ChainIsAt
<1> QED BY <1>2 DEF EntryBlock

(* A new entry is put behind the first record with room to spare, or in    *)
(* its place if it is free: what was in use stays.                         *)
LEMMA InsertedShows ==
  ASSUME NEW blk, EntryBlock(blk), NEW n \in Name, NEW i \in Nat \ {0}, Slots(blk, n) # {}
  PROVE  LET b2 == Inserted(blk, n, i) IN
         /\ EntryBlock(b2)
         /\ \E at \in Offset : /\ at \notin LiveAt(blk) /\ LiveAt(b2) = LiveAt(blk) \cup {at}
                               /\ b2[at].ino = i /\ b2[at].name = n
         /\ KeepsBut(blk, b2, {})
<1> DEFINE S == At(blk)
           o == Min(Slots(blk, n))
           u == Used(blk[o])
           at == o + u
           r == [blk[o] EXCEPT !.len = u]
           b1 == [blk EXCEPT ![o] = r]
           q == Rec(i, blk[o].len - u, n)
           b2 == [b1 EXCEPT ![at] = q]
<1>1. /\ blk \in RawBlock /\ Chain(blk, 0, S) /\ S \subseteq Offset
      /\ Tails => BlockSize - 3 \in S /\ blk[BlockSize - 3] = Sentinel
      /\ \A x \in S : blk[x].ino # 0 => EntrySize(blk[x].name) <= blk[x].len
      /\ \A x \in S : /\ x \in Nat /\ blk[x] \in Record
                      /\ blk[x].ino \in Nat /\ blk[x].len \in Nat
                      /\ blk[x].ino # 0 => blk[x].name \in Name \cup Dots
      /\ \A x \in LiveAt(blk) : x \in S
  BY EntryBlockIs
<1>2. o \in S /\ blk[o] # Sentinel /\ blk[o].len >= u + EntrySize(n)
  <2>1. Slots(blk, n) \subseteq S /\ Slots(blk, n) \in SUBSET Nat
    BY <1>1 DEF Slots, Records, At
  <2>2. o \in Slots(blk, n)
    <3> HIDE DEF o
    <3> QED BY <2>1, MinMax DEF o
  <2> QED BY <2>1, <2>2 DEF Slots, Records
<1>3. /\ o \in Nat /\ o \in Offset /\ blk[o] \in Record /\ blk[o].len \in Nat
      /\ blk[o].ino = 0 => u = 0
      /\ blk[o].ino # 0 => u \in Nat /\ u >= 3 /\ u = EntrySize(blk[o].name)
      /\ u \in Nat
  BY <1>1, <1>2, EntrySizeFacts DEF Used
<1>4. EntrySize(n) \in Nat /\ EntrySize(n) >= 3 /\ blk[o].len - u \in Nat
      /\ blk[o].len - u >= EntrySize(n) /\ o + blk[o].len <= BlockSize
  <2>1. o + blk[o].len <= BlockSize
    BY <1>1, <1>2, ChainIs
  <2>2. EntrySize(n) \in Nat /\ EntrySize(n) >= 3
    BY EntrySizeFacts
  <2> HIDE DEF o, u
  <2> QED BY <1>2, <1>3, <2>1, <2>2
<1>5. at \in Offset /\ at \in Nat /\ at + (blk[o].len - u) = o + blk[o].len
  <2> HIDE DEF o, u
  <2> QED BY <1>3, <1>4, SizeFacts DEF Offset
<1>6. /\ r \in Record /\ r.ino = blk[o].ino /\ r.len = u /\ r.name = blk[o].name
      /\ q \in Record /\ q.ino = i /\ q.len = blk[o].len - u /\ q.name = n
  <2> HIDE DEF o, u
  <2> QED BY <1>3, <1>4, RecFields
<1>7. o # BlockSize - 3 \/ ~Tails
  BY <1>1, <1>2
<1>8. Tails => at # BlockSize - 3
  <2> SUFFICES ASSUME Tails, at = BlockSize - 3 PROVE FALSE
    OBVIOUS
  <2>1. BlockSize - 3 \in S /\ o # BlockSize - 3 /\ o < BlockSize - 3
    BY <1>1, <1>3, <1>7, SizeFacts
  <2>2. o + blk[o].len <= BlockSize - 3
    BY <1>1, <1>2, <2>1, ChainIs
  <2> HIDE DEF o, u
  <2> QED BY <1>3, <1>4, <2>2, SizeFacts
<1>9. Inserted(blk, n, i) = Stamped(b2)
  <2>1. [blk EXCEPT ![o].len = u, ![at] = q] = b2
    BY <1>1
  <2> QED BY <2>1 DEF Inserted
<1> HIDE DEF o, u, at, r, q
<1>10. /\ b1 \in RawBlock /\ \A x \in Offset : b1[x] = IF x = o THEN r ELSE blk[x]
  <2>1. /\ r.ino # 0 => r.name \in Name \cup Dots
        /\ r.name = "tail" => o = BlockSize - 3
    BY <1>1, <1>2, <1>3, <1>6, LenFacts
  <2> QED BY <1>1, <1>3, <1>6, <2>1, RawEdit
<1> HIDE DEF b1
<1>11. b2 \in RawBlock /\ \A x \in Offset : b2[x] = IF x = at THEN q ELSE b1[x]
  <2>1. n \in Name \cup Dots /\ n # "tail"
    BY NameFacts
  <2> QED BY <1>5, <1>6, <1>10, <2>1, RawEdit
<1> HIDE DEF b2
<1>12. \A x \in Offset : b2[x] = IF x = at THEN q ELSE IF x = o THEN r ELSE blk[x]
  BY <1>10, <1>11
<1>13. at \notin S \ {o} /\ Chain(b2, 0, S \cup {at}) /\ (blk[o].ino = 0 => at = o)
       /\ (blk[o].ino # 0 => at \notin S)
  <2>1. CASE blk[o].ino = 0
    <3>1. at = o
      BY <1>3, <2>1 DEF at
    <3>2. b2[o].len = blk[o].len
      BY <1>3, <1>6, <1>12, <2>1, <3>1
    <3>3. \A x \in S : b2[x].len = blk[x].len
      BY <1>1, <1>12, <3>1, <3>2
    <3>4. S \cup {at} = S
      BY <1>2, <3>1
    <3> QED BY <1>1, <2>1, <3>1, <3>3, <3>4, ChainSame
  <2>2. CASE blk[o].ino # 0
    <3>1. u >= 2 /\ u + 2 <= blk[o].len /\ at # o /\ o + u = at
      BY <1>3, <1>4, <2>2 DEF at
    <3>2. b2[o].len = u /\ b2[at].len = blk[o].len - u
      BY <1>3, <1>5, <1>6, <1>12, <3>1
    <3>3. \A x \in S \ {o} : x # at => b2[x].len = blk[x].len
      BY <1>1, <1>12
    <3>4. at \notin S
      <4> SUFFICES ASSUME at \in S PROVE FALSE
        OBVIOUS
      <4>1. o + blk[o].len <= at
        <5>1. o < at
          BY <1>3, <1>5, <3>1
        <5> QED BY <1>1, <1>2, <5>1, ChainIs
      <4> QED BY <1>3, <1>5, <3>1, <4>1
    <3>5. \A x \in S \ {o} : b2[x].len = blk[x].len
      BY <3>3, <3>4
    <3>6. Chain(b2, 0, S \cup {o + u})
      BY <1>1, <1>2, <1>3, <1>11, <3>1, <3>2, <3>5, ChainSplit
    <3> QED BY <2>2, <3>1, <3>4, <3>6
  <2> QED BY <2>1, <2>2
<1>14. Laid(b2, Tails, S \cup {at})
  <2>1. Tails => BlockSize - 3 \in S \cup {at} /\ b2[BlockSize - 3] = Sentinel
    BY <1>1, <1>7, <1>8, <1>12
  <2>2. ASSUME NEW x \in S \cup {at}, b2[x].ino # 0
        PROVE  EntrySize(b2[x].name) <= b2[x].len
    <3>1. CASE x = at
      BY <1>4, <1>5, <1>6, <1>12, <3>1
    <3>2. CASE x = o /\ x # at
      <4>1. u \in Nat /\ EntrySize(blk[o].name) = u
        BY <1>3, <1>13, <3>2
      <4> QED BY <1>3, <1>6, <1>12, <3>2, <4>1
    <3>3. CASE x # o /\ x # at
      BY <1>1, <1>12, <2>2, <3>3
    <3> QED BY <3>1, <3>2, <3>3
  <2> QED BY <1>13, <2>1, <2>2 DEF Laid
<1>15. EntryBlock(b2) /\ At(b2) = S \cup {at}
  BY <1>11, <1>14, EntryBlockFrom
<1>16. Inserted(blk, n, i) = b2
  BY <1>9, <1>11, <1>1, <1>7, <1>8, <1>12, SizeFacts, StampedSame
<1>17. at \notin LiveAt(blk)
  BY <1>13, <1>1 DEF LiveAt
<1>18. KeepsBut(blk, b2, {}) /\ LiveAt(b2) = LiveAt(blk) \cup {at}
  <2>1. ASSUME NEW x \in LiveAt(blk) PROVE b2[x].ino = blk[x].ino /\ b2[x].name = blk[x].name /\ x \in S
    BY <1>1, <1>6, <1>12, <1>17
  <2>2. \A x \in LiveAt(blk) : x \in LiveAt(b2)
    BY <1>15, <2>1 DEF LiveAt
  <2>3. at \in LiveAt(b2)
    BY <1>5, <1>6, <1>12, <1>15 DEF LiveAt
  <2>4. ASSUME NEW x \in LiveAt(b2), x # at PROVE x \in LiveAt(blk)
    <3>1. x \in S /\ b2[x].ino # 0
      BY <1>15, <2>4 DEF LiveAt
    <3>2. blk[x].ino # 0
      BY <1>1, <1>6, <1>12, <2>4, <3>1
    <3> QED BY <3>1, <3>2 DEF LiveAt
  <2> QED BY <2>1, <2>2, <2>3, <2>4 DEF KeepsBut
<1>19. b2[at].ino = i /\ b2[at].name = n
  BY <1>5, <1>6, <1>12
<1> QED BY <1>5, <1>15, <1>16, <1>17, <1>18, <1>19

(* The one entry of an inode.                                              *)
Sole(blk, i, o) == o \in LiveAt(blk) /\ blk[o].ino = i /\ \A x \in LiveAt(blk) : blk[x].ino = i => x = o
(* It is what a call that looks for the inode finds.                       *)
LEMMA SoleFound ==
  ASSUME NEW blk, EntryBlock(blk), NEW i \in Nat \ {0}, NEW o, Sole(blk, i, o)
  PROVE  EntriesOf(blk, i) = {o} /\ Min(EntriesOf(blk, i)) = o
<1>1. EntriesOf(blk, i) = {o}
  <2>1. \A x \in EntriesOf(blk, i) : x \in LiveAt(blk) /\ blk[x].ino = i
    BY DEF EntriesOf, Records, LiveAt, At
  <2>2. o \in EntriesOf(blk, i)
    BY EntryBlockIs DEF Sole, EntriesOf, Records, LiveAt, At
  <2> QED BY <2>1, <2>2 DEF Sole
<1>2. {o} \in SUBSET Nat
  BY EntryBlockIs DEF Sole
<1> QED BY <1>1, <1>2, MinMax

(* An inode's entry is taken out and nothing else.                         *)
LEMMA RemovedShows ==
  ASSUME NEW blk, EntryBlock(blk), NEW i \in Nat \ {0}, NEW o, Sole(blk, i, o)
  PROVE  LET b2 == Removed(blk, i) IN
         /\ EntryBlock(b2) /\ LiveAt(b2) = LiveAt(blk) \ {o} /\ KeepsBut(blk, b2, {o})
<1> DEFINE S == At(blk)
           before == {p \in Records(blk) : p < o}
           r == [blk[o] EXCEPT !.ino = 0]
           p == Max(before)
           m == [blk[p] EXCEPT !.len = @ + blk[o].len]
<1>1. /\ blk \in RawBlock /\ Chain(blk, 0, S) /\ S \subseteq Offset
      /\ Tails => BlockSize - 3 \in S /\ blk[BlockSize - 3] = Sentinel
      /\ \A x \in S : blk[x].ino # 0 => EntrySize(blk[x].name) <= blk[x].len
      /\ \A x \in S : /\ x \in Nat /\ blk[x] \in Record
                      /\ blk[x].ino \in Nat /\ blk[x].len \in Nat
                      /\ blk[x].ino # 0 => blk[x].name \in Name \cup Dots
      /\ \A x \in LiveAt(blk) : x \in S
  BY EntryBlockIs
<1>2. o \in S /\ o \in LiveAt(blk) /\ blk[o].ino = i /\ blk[o] # Sentinel /\ o \in Nat
  BY <1>1, EntryBlockIs DEF Sole
<1>3. Removed(blk, i) = Stamped(IF before = {} THEN [blk EXCEPT ![o].ino = 0]
                                ELSE [blk EXCEPT ![p].len = @ + blk[o].len])
  <2>1. Min(EntriesOf(blk, i)) = o
    BY SoleFound
  <2> QED BY <2>1 DEF Removed
<1>4. \A x \in S : x < o => x \in before
  <2> SUFFICES ASSUME NEW x \in S, x < o, blk[x] = Sentinel PROVE FALSE
    BY DEF Records, At
  <2>1. x = BlockSize - 3 /\ blk[x].len = 3
    BY <1>1, LenFacts, SentinelFields
  <2>2. x + blk[x].len <= o /\ o < BlockSize
    BY <1>1, <1>2, ChainIs
  <2> QED BY <1>2, <2>1, <2>2, SizeFacts
<1>5. before = {x \in S : x < o}
  BY <1>4 DEF Records, At
<1>6. CASE before = {}
  <2> DEFINE b2 == [blk EXCEPT ![o] = r]
  <2>1. r \in Record /\ r.ino = 0 /\ r.len = blk[o].len /\ r.name = blk[o].name
    BY <1>1, <1>2, RecFields
  <2>2. Removed(blk, i) = Stamped(b2)
    BY <1>3, <1>6, <1>1
  <2>3. r.name # "tail"
    BY <1>1, <1>2, <2>1, NameFacts DEF Dots
  <2> HIDE DEF r
  <2>4. b2 \in RawBlock /\ \A x \in Offset : b2[x] = IF x = o THEN r ELSE blk[x]
    BY <1>1, <1>2, <2>1, <2>3, RawEdit
  <2> HIDE DEF b2
  <2>5. Chain(b2, 0, S)
    <3>1. \A x \in S : b2[x].len = blk[x].len
      BY <1>1, <2>1, <2>4
    <3> QED BY <1>1, <3>1, ChainSame
  <2>6. Tails => BlockSize - 3 \in S /\ b2[BlockSize - 3] = Sentinel
    BY <1>1, <1>2, <2>4
  <2>7. \A x \in S : b2[x].ino # 0 => EntrySize(b2[x].name) <= b2[x].len
    BY <1>1, <2>1, <2>4
  <2>8. EntryBlock(b2) /\ At(b2) = S
    <3>1. Laid(b2, Tails, S)
      BY <2>5, <2>6, <2>7 DEF Laid
    <3> QED BY <2>4, <3>1, EntryBlockFrom
  <2>9. Removed(blk, i) = b2
    BY <2>2, <2>4, <2>6, StampedSame
  <2>10. LiveAt(b2) = LiveAt(blk) \ {o}
    BY <1>1, <2>1, <2>4, <2>8 DEF LiveAt
  <2>11. KeepsBut(blk, b2, {o})
    BY <1>1, <2>4, <2>10 DEF KeepsBut
  <2> QED BY <2>8, <2>9, <2>10, <2>11
<1>7. CASE before # {}
  <2> DEFINE b2 == [blk EXCEPT ![p] = m]
  <2>1. o # 0
    <3>1. PICK x \in S : x < o
      BY <1>5, <1>7
    <3>2. x \in Nat /\ o \in Nat
      BY <1>1, <1>2
    <3> HIDE DEF S, before
    <3> QED BY <3>1, <3>2
  <2>2. p \in S /\ p < o /\ p + blk[p].len = o
    BY <1>1, <1>2, <1>5, <2>1, ChainBefore
  <2>3. Removed(blk, i) = Stamped(b2)
    BY <1>1, <1>3, <1>7, <2>2
  <2> HIDE DEF p, before
  <2>4. m \in Record /\ m.ino = blk[p].ino /\ m.len = blk[p].len + blk[o].len /\ m.name = blk[p].name
    <3>1. blk[p] \in Record /\ blk[p].len + blk[o].len \in Nat
      BY <1>1, <1>2, <2>2
    <3>2. m = [blk[p] EXCEPT !.len = blk[p].len + blk[o].len]
      OBVIOUS
    <3> HIDE DEF m
    <3> QED BY <3>1, <3>2, RecFields
  <2> HIDE DEF m
  <2>5. b2 \in RawBlock /\ \A x \in Offset : b2[x] = IF x = p THEN m ELSE blk[x]
    <3>1. (m.ino # 0 => m.name \in Name \cup Dots) /\ (m.name = "tail" => p = BlockSize - 3)
      BY <1>1, <2>2, <2>4, LenFacts
    <3> QED BY <1>1, <2>2, <2>4, <3>1, RawEdit
  <2> HIDE DEF b2
  <2>6. Chain(b2, 0, S \ {o})
    <3>1. b2[p].len = blk[p].len + blk[o].len /\ \A x \in S \ {p, o} : b2[x].len = blk[x].len
      BY <1>1, <2>2, <2>4, <2>5
    <3> QED BY <1>1, <1>2, <2>2, <2>5, <3>1, ChainMerge
  <2>7. p # BlockSize - 3 \/ ~Tails
    <3> SUFFICES ASSUME p = BlockSize - 3, Tails PROVE FALSE
      OBVIOUS
    <3>1. o = BlockSize /\ o < BlockSize
      BY <1>1, <1>2, <2>2, SentinelFields, SizeFacts, ChainIs
    <3> QED BY <3>1, SizeFacts
  <2>8. Tails => BlockSize - 3 \in S \ {o} /\ b2[BlockSize - 3] = Sentinel
    BY <1>1, <1>2, <2>5, <2>7
  <2>9. ASSUME NEW x \in S \ {o}, b2[x].ino # 0
        PROVE  EntrySize(b2[x].name) <= b2[x].len
    <3>1. CASE x = p
      <4>1. blk[p].ino # 0 /\ EntrySize(blk[p].name) <= blk[p].len
        BY <1>1, <2>2, <2>4, <2>5, <2>9, <3>1
      <4>2. EntrySize(blk[p].name) \in Nat /\ blk[p].len \in Nat /\ blk[o].len \in Nat
        BY <1>1, <1>2, <2>2, <4>1, EntrySizeFacts
      <4>3. b2[x] = m
        BY <1>1, <2>5, <3>1
      <4> QED BY <2>4, <4>1, <4>2, <4>3
    <3>2. CASE x # p
      BY <1>1, <2>5, <2>9, <3>2
    <3> QED BY <3>1, <3>2
  <2>10. EntryBlock(b2) /\ At(b2) = S \ {o}
    <3>1. Laid(b2, Tails, S \ {o})
      BY <2>6, <2>8, <2>9 DEF Laid
    <3> QED BY <2>5, <3>1, EntryBlockFrom
  <2>11. Removed(blk, i) = b2
    BY <2>3, <2>5, <2>8, StampedSame
  <2>12. \A x \in S : b2[x].ino = blk[x].ino /\ b2[x].name = blk[x].name
    BY <1>1, <2>4, <2>5
  <2>13. LiveAt(b2) = LiveAt(blk) \ {o}
    BY <2>10, <2>12 DEF LiveAt
  <2>14. KeepsBut(blk, b2, {o})
    BY <1>1, <2>12, <2>13 DEF KeepsBut
  <2> QED BY <2>10, <2>11, <2>13, <2>14
<1> QED BY <1>6, <1>7

\* a block in which the name in the record at o is n
BlockRenamed(blk, b2, i, o, n) ==
  /\ EntryBlock(b2) /\ LiveAt(b2) = LiveAt(blk) /\ KeepsBut(blk, b2, {o})
  /\ b2[o].ino = i /\ b2[o].name = n

(* An inode's entry gets another name that fits its record.                *)
LEMMA RenamedShows ==
  ASSUME NEW blk, EntryBlock(blk), NEW i \in Nat \ {0}, NEW o, Sole(blk, i, o),
         NEW n \in Name, Renamable(blk, i, n)
  PROVE  BlockRenamed(blk, Renamed(blk, i, n), i, o, n)
<1> DEFINE S == At(blk)
           r == [blk[o] EXCEPT !.name = n]
           b2 == [blk EXCEPT ![o] = r]
<1>1. /\ blk \in RawBlock /\ Chain(blk, 0, S) /\ S \subseteq Offset
      /\ Tails => BlockSize - 3 \in S /\ blk[BlockSize - 3] = Sentinel
      /\ \A x \in S : blk[x].ino # 0 => EntrySize(blk[x].name) <= blk[x].len
      /\ \A x \in S : /\ x \in Nat /\ blk[x] \in Record
                      /\ blk[x].ino \in Nat /\ blk[x].len \in Nat
                      /\ blk[x].ino # 0 => blk[x].name \in Name \cup Dots
      /\ \A x \in LiveAt(blk) : x \in S
  BY EntryBlockIs
<1>2. o \in S /\ o \in LiveAt(blk) /\ blk[o].ino = i /\ blk[o] # Sentinel /\ o \in Nat
  BY <1>1, EntryBlockIs DEF Sole
<1>3. Min(EntriesOf(blk, i)) = o
  BY SoleFound
<1>4. r \in Record /\ r.ino = i /\ r.len = blk[o].len /\ r.name = n /\ n # "tail"
  <2>1. n \in Name \cup Dots /\ n # "tail"
    BY NameFacts, Zenon
  <2> QED BY <1>1, <1>2, <2>1, RecFields
<1>5. Renamed(blk, i, n) = Stamped(b2) /\ EntrySize(n) <= blk[o].len
  BY <1>1, <1>3 DEF Renamed, Renamable
<1> HIDE DEF r
<1>6. b2 \in RawBlock /\ \A x \in Offset : b2[x] = IF x = o THEN r ELSE blk[x]
  BY <1>1, <1>2, <1>4, RawEdit
<1> HIDE DEF b2
<1>7. Chain(b2, 0, S)
  <2>1. \A x \in S : b2[x].len = blk[x].len
    BY <1>1, <1>4, <1>6
  <2> QED BY <1>1, <2>1, ChainSame
<1>8. Tails => BlockSize - 3 \in S /\ b2[BlockSize - 3] = Sentinel
  BY <1>1, <1>2, <1>6
<1>9. \A x \in S : b2[x].ino # 0 => EntrySize(b2[x].name) <= b2[x].len
  BY <1>1, <1>4, <1>5, <1>6
<1>10. EntryBlock(b2) /\ At(b2) = S
  <2>1. Laid(b2, Tails, S)
    BY <1>7, <1>8, <1>9 DEF Laid
  <2> QED BY <1>6, <2>1, EntryBlockFrom
<1>11. Renamed(blk, i, n) = b2
  BY <1>5, <1>6, <1>8, StampedSame
<1>12. LiveAt(b2) = LiveAt(blk)
  BY <1>1, <1>2, <1>4, <1>6, <1>10 DEF LiveAt
<1>13. KeepsBut(blk, b2, {o})
  BY <1>1, <1>6, <1>12 DEF KeepsBut
<1>14. b2[o].ino = i /\ b2[o].name = n
  BY <1>1, <1>2, <1>4, <1>6
<1> QED BY <1>10, <1>11, <1>12, <1>13, <1>14 DEF BlockRenamed

(* The inode of ".." changes, in a first block of either kind: the stamp   *)
(* hits no entry.                                                          *)
FirstBlock(blk, tail) ==
  /\ blk \in RawBlock /\ Laid(blk, tail, At(blk)) /\ 3 \in LiveAt(blk)
  /\ tail = Tails \/ LiveAt(blk) \subseteq {0, 3}
(* So it is for the records of the block.                                  *)
LEMMA RepointedShows ==
  ASSUME NEW blk, NEW tail \in {Tails, FALSE}, FirstBlock(blk, tail), NEW q \in Nat \ {0}
  PROVE  LET b2 == Stamped([blk EXCEPT ![3].ino = q]) IN
         /\ b2 \in RawBlock /\ Laid(b2, tail, At(b2))
         /\ LiveAt(b2) = LiveAt(blk) /\ KeepsBut(blk, b2, {3})
         /\ b2[3].ino = q /\ b2[3].name = blk[3].name
<1> DEFINE S == At(blk)
           r == [blk[3] EXCEPT !.ino = q]
           b1 == [blk EXCEPT ![3] = r]
           b2 == Stamped(b1)
<1>1. /\ blk \in RawBlock /\ Chain(blk, 0, S) /\ S \subseteq Offset
      /\ tail => BlockSize - 3 \in S /\ blk[BlockSize - 3] = Sentinel
      /\ \A x \in S : blk[x].ino # 0 => EntrySize(blk[x].name) <= blk[x].len
      /\ \A x \in S : blk[x] \in Record /\ blk[x].len \in Nat
  <2>1. blk \in RawBlock /\ Laid(blk, tail, S)
    BY DEF FirstBlock
  <2>2. Chain(blk, 0, S)
    BY <2>1 DEF Laid
  <2>3. S \subseteq Offset
    BY <2>1, <2>2, ChainIs
  <2> QED BY <2>1, <2>2, <2>3, LenFacts DEF Laid
<1>2. 3 \in S /\ blk[3].ino # 0 /\ 3 \in Offset /\ blk[3].name \in Name \cup Dots
  <2>1. 3 \in S /\ blk[3].ino # 0
    BY DEF FirstBlock, LiveAt
  <2> QED BY <1>1, <2>1, LenFacts
<1>3. r \in Record /\ r.ino = q /\ r.len = blk[3].len /\ r.name = blk[3].name
  BY <1>1, <1>2, RecFields
<1>4. Stamped([blk EXCEPT ![3].ino = q]) = b2 /\ r.name # "tail"
  BY <1>1, <1>2, <1>3, NameFacts DEF Dots
<1> HIDE DEF r
<1>5. b1 \in RawBlock /\ \A x \in Offset : b1[x] = IF x = 3 THEN r ELSE blk[x]
  <2>1. (r.ino # 0 => r.name \in Name \cup Dots) /\ (r.name = "tail" => 3 = BlockSize - 3)
    BY <1>2, <1>3, <1>4
  <2> QED BY <1>1, <1>2, <1>3, <2>1, RawEdit
<1> HIDE DEF b1
<1>6. BlockSize - 3 \in Offset /\ BlockSize - 3 # 3
  BY SizeFacts
<1>7. /\ b2 \in RawBlock
      /\ \A x \in Offset : b2[x] = IF Tails /\ x = BlockSize - 3 THEN Sentinel ELSE b1[x]
  <2>1. CASE Tails
    <3>1. Sentinel \in Record
      <4>1. "tail" \in Label
        BY Zenon DEF Label
      <4> QED BY <4>1 DEF Sentinel, Rec, Record
    <3>2. b2 = [b1 EXCEPT ![BlockSize - 3] = Sentinel]
      BY <2>1 DEF Stamped
    <3> HIDE DEF b2
    <3>3. /\ Sentinel.ino # 0 => Sentinel.name \in Name \cup Dots
          /\ Sentinel.name = "tail" => BlockSize - 3 = BlockSize - 3
      BY SentinelFields
    <3>4. /\ [b1 EXCEPT ![BlockSize - 3] = Sentinel] \in RawBlock
          /\ \A x \in Offset : [b1 EXCEPT ![BlockSize - 3] = Sentinel][x]
                               = IF x = BlockSize - 3 THEN Sentinel ELSE b1[x]
      BY <1>5, <1>6, <3>1, <3>3, RawEdit
    <3> QED BY <2>1, <3>2, <3>4
  <2>2. CASE ~Tails
    BY <1>5, <2>2 DEF Stamped
  <2> QED BY <2>1, <2>2
<1> HIDE DEF b2
<1>8. Tails /\ BlockSize - 3 \in S => blk[BlockSize - 3].ino = 0 /\ blk[BlockSize - 3].len = 3
  <2> SUFFICES ASSUME Tails, BlockSize - 3 \in S
               PROVE  blk[BlockSize - 3].ino = 0 /\ blk[BlockSize - 3].len = 3
    OBVIOUS
  <2>1. blk[BlockSize - 3].ino = 0
    <3>1. CASE tail
      BY <1>1, <3>1, SentinelFields
    <3>2. CASE ~tail
      <4>1. BlockSize - 3 \notin LiveAt(blk)
        <5>1. LiveAt(blk) \subseteq {0, 3}
          BY SizeFacts, <3>2 DEF FirstBlock
        <5>2. BlockSize - 3 # 0
          BY SizeFacts
        <5> QED BY <1>6, <5>1, <5>2
      <4> QED BY <4>1 DEF LiveAt
    <3> QED BY <3>1, <3>2
  <2>2. blk[BlockSize - 3].len = 3
    <3> DEFINE l == blk[BlockSize - 3].len
    <3>1. l \in Nat /\ l >= 2 /\ (BlockSize - 3) + l \in S \cup {BlockSize} /\ (BlockSize - 3) + l <= BlockSize
      BY <1>1, ChainIs
    <3>2. BlockSize - 1 \notin S
      <4> SUFFICES ASSUME BlockSize - 1 \in S PROVE FALSE
        OBVIOUS
      <4>1. blk[BlockSize - 1].len \in Nat /\ blk[BlockSize - 1].len >= 2
            /\ (BlockSize - 1) + blk[BlockSize - 1].len <= BlockSize
        BY <1>1, ChainIs
      <4> QED BY <4>1, SizeFacts
    <3> HIDE DEF l
    <3>3. l = 2 \/ l = 3
      BY <3>1, SizeFacts
    <3>4. l # 2
      <4>1. (BlockSize - 3) + 2 = BlockSize - 1 /\ BlockSize - 1 # BlockSize
        BY SizeFacts
      <4> QED BY <3>1, <3>2, <4>1
    <3> QED BY <3>3, <3>4 DEF l
  <2> QED BY <2>1, <2>2
<1>9. ASSUME NEW x \in S
      PROVE  /\ b2[x].len = blk[x].len /\ (b2[x].ino # 0 <=> blk[x].ino # 0)
             /\ x # 3 /\ blk[x].ino # 0 => b2[x].ino = blk[x].ino /\ b2[x].name = blk[x].name
             /\ x = 3 => b2[x].ino = q /\ b2[x].name = blk[x].name
  <2>1. x \in Offset
    BY <1>1
  <2>2. CASE Tails /\ x = BlockSize - 3
    BY <1>6, <1>7, <1>8, <2>1, <2>2, SentinelFields
  <2>3. CASE ~(Tails /\ x = BlockSize - 3)
    BY <1>2, <1>3, <1>5, <1>7, <2>1, <2>3
  <2> QED BY <2>2, <2>3
<1>10. Laid(b2, tail, S)
  <2>1. Chain(b2, 0, S)
    BY <1>1, <1>9, ChainSame
  <2>2. tail => BlockSize - 3 \in S /\ b2[BlockSize - 3] = Sentinel
    BY <1>1, <1>6, <1>7
  <2>3. \A x \in S : b2[x].ino # 0 => EntrySize(b2[x].name) <= b2[x].len
    BY <1>1, <1>9
  <2> QED BY <2>1, <2>2, <2>3 DEF Laid
<1>11. At(b2) = S
  BY <1>7, <1>10, ChainIsAt DEF Laid
<1>12. LiveAt(b2) = LiveAt(blk)
  BY <1>9, <1>11 DEF LiveAt
<1>13. KeepsBut(blk, b2, {3})
  BY <1>9, <1>12 DEF KeepsBut, LiveAt
<1> QED BY <1>2, <1>4, <1>7, <1>9, <1>10, <1>11, <1>12, <1>13

(* A new directory's block holds "." and "..".                             *)
LEMMA FreshShows ==
  ASSUME NEW i \in Nat \ {0}, NEW p \in Nat \ {0}
  PROVE  LET b2 == FreshBlock(i, p) IN
         /\ EntryBlock(b2) /\ LiveAt(b2) = {0, 3}
         /\ b2[0].ino = i /\ b2[0].name = "." /\ b2[3].ino = p /\ b2[3].name = ".."
<1> DEFINE l == BlockSize - 3 - TailSize
           b1 == [o \in Offset |-> CASE o = 0 -> Rec(i, 3, ".")
                                     [] o = 3 -> Rec(p, l, "..")
                                     [] OTHER -> Unwritten]
           b2 == FreshBlock(i, p)
           S == IF Tails THEN {0, 3, BlockSize - 3} ELSE {0, 3}
<1>1. TailSize = (IF Tails THEN 3 ELSE 0) /\ l \in Nat /\ l >= 3
  BY SizeFacts DEF TailSize
<1>2. /\ 0 \in Offset /\ 3 \in Offset /\ BlockSize - 3 \in Offset
      /\ BlockSize - 3 # 0 /\ BlockSize - 3 # 3 /\ BlockSize \in Nat /\ BlockSize >= 9
  BY SizeFacts DEF Offset
<1>3. Unwritten \in Record /\ Unwritten.ino = 0 /\ Unwritten.name # "tail"
  <2>1. "" \in Label
    BY Zenon DEF Label
  <2>2. Unwritten = Rec(0, 0, "")
    BY Zenon DEF Unwritten
  <2>3. \A n \in Label : Rec(0, 0, n) \in Record
    BY DEF Rec, Record
  <2>4. \A n : Rec(0, 0, n).ino = 0 /\ Rec(0, 0, n).name = n
    BY RecFields
  <2>5. Unwritten.ino = 0
    BY <2>2, <2>4, Zenon
  <2>6. Unwritten.name = ""
    BY <2>2, <2>4, Zenon
  <2>7. "" # "tail"
    BY Zenon
  <2>8. Unwritten.name # "tail"
    BY <2>6, <2>7, Zenon
  <2>9. Unwritten \in Record
    BY <2>1, <2>2, <2>3, Zenon
  <2> QED BY <2>5, <2>8, <2>9, Zenon
<1>4. /\ Rec(i, 3, ".") \in Record /\ Rec(p, l, "..") \in Record
      /\ Rec(i, 3, ".").ino = i /\ Rec(i, 3, ".").len = 3 /\ Rec(i, 3, ".").name = "."
      /\ Rec(p, l, "..").ino = p /\ Rec(p, l, "..").len = l /\ Rec(p, l, "..").name = ".."
  <2>1. "." \in Dots /\ ".." \in Dots
    BY DEF Dots
  <2> HIDE DEF l
  <2> QED BY <1>1, <2>1, RecFields
<1>5. /\ b1 \in [Offset -> Record] /\ b1[0] = Rec(i, 3, ".") /\ b1[3] = Rec(p, l, "..")
      /\ \A o \in Offset \ {0, 3} : b1[o] = Unwritten
  <2> HIDE DEF l
  <2> QED BY <1>2, <1>3, <1>4
<1>6. b2 = Stamped(b1)
  BY DEF FreshBlock
<1> HIDE DEF b1
<1>7. Sentinel \in Record
  <2>1. "tail" \in Label
    BY Zenon DEF Label
  <2> QED BY <2>1 DEF Sentinel, Rec, Record
<1>8. /\ b2 \in [Offset -> Record] /\ b2[0] = Rec(i, 3, ".") /\ b2[3] = Rec(p, l, "..")
      /\ Tails => b2[BlockSize - 3] = Sentinel
      /\ \A o \in Offset \ {0, 3} : (Tails /\ o = BlockSize - 3) \/ b2[o] = Unwritten
  <2>1. CASE Tails
    BY <1>2, <1>5, <1>6, <1>7, <2>1 DEF Stamped
  <2>2. CASE ~Tails
    BY <1>2, <1>5, <1>6, <2>2 DEF Stamped
  <2> QED BY <2>1, <2>2
<1> HIDE DEF b2
<1>9. b2 \in RawBlock
  <2> SUFFICES ASSUME NEW o \in Offset
               PROVE  /\ b2[o].ino # 0 => b2[o].name \in Name \cup Dots
                      /\ b2[o].name = "tail" => o = BlockSize - 3
    BY <1>8 DEF RawBlock
  <2>1. CASE o = 0 \/ o = 3
    BY <1>4, <1>8, <2>1 DEF Dots
  <2>2. CASE o \notin {0, 3}
    BY <1>3, <1>8, <2>2, SentinelFields
  <2> QED BY <2>1, <2>2
<1>10. /\ b2[0].ino = i /\ b2[0].len = 3 /\ b2[0].name = "."
       /\ b2[3].ino = p /\ b2[3].len = l /\ b2[3].name = ".."
  BY <1>4, <1>8
<1>11. Chain(b2, 0, S)
  <2>1. CASE Tails
    <3>1. S = {0, 3, BlockSize - 3} /\ 3 + l = BlockSize - 3 /\ b2[BlockSize - 3].len = 3
      BY <1>1, <1>2, <1>8, <2>1, SentinelFields
    <3> HIDE DEF l, S
    <3>2. S \subseteq 0 .. BlockSize - 1 /\ 0 \in S
      BY <1>2, <3>1
    <3>3. \A x \in S : b2[x].len >= 2 /\ x + b2[x].len \in S \cup {BlockSize}
      BY <1>1, <1>2, <1>10, <3>1
    <3>4. \A x, y \in S : x < y => x + b2[x].len <= y
      BY <1>1, <1>2, <1>10, <3>1
    <3> QED BY <3>2, <3>3, <3>4 DEF Chain
  <2>2. CASE ~Tails
    <3>1. S = {0, 3} /\ 3 + l = BlockSize
      BY <1>1, <1>2, <2>2
    <3> HIDE DEF l, S
    <3>2. S \subseteq 0 .. BlockSize - 1 /\ 0 \in S
      BY <1>2, <3>1
    <3>3. \A x \in S : b2[x].len >= 2 /\ x + b2[x].len \in S \cup {BlockSize}
      BY <1>1, <1>2, <1>10, <3>1
    <3>4. \A x, y \in S : x < y => x + b2[x].len <= y
      BY <1>1, <1>2, <1>10, <3>1
    <3> QED BY <3>2, <3>3, <3>4 DEF Chain
  <2> QED BY <2>1, <2>2
<1>12. Laid(b2, Tails, S)
  <2>1. EntrySize(".") = 3 /\ EntrySize("..") = 3
    BY DEF EntrySize, Dots
  <2>2. \A x \in S : b2[x].ino # 0 => EntrySize(b2[x].name) <= b2[x].len
    <3> HIDE DEF l
    <3> QED BY <1>1, <1>8, <1>10, <2>1, SentinelFields
  <2> QED BY <1>8, <1>11, <2>2 DEF Laid
<1>13. EntryBlock(b2) /\ At(b2) = S
  BY <1>9, <1>12, EntryBlockFrom
<1>14. LiveAt(b2) = {0, 3}
  BY <1>8, <1>10, <1>13, SentinelFields DEF LiveAt
<1> QED BY <1>10, <1>13, <1>14 DEF b2

(***************************************************************************)
(* The names of a block, and of a directory one block of which changed.    *)
(***************************************************************************)
(* A line is a name in use, with its place.                                *)
LEMMA LineFields ==
  ASSUME NEW p, NEW k, NEW o, NEW r
  PROVE  /\ Line(p, k, o, r).dir = p /\ Line(p, k, o, r).blk = k /\ Line(p, k, o, r).at = o
         /\ Line(p, k, o, r).name = r.name /\ Line(p, k, o, r).ino = r.ino
  BY DEF Line

(* What a line of a block says is there.                                   *)
LEMMA InBlockLines ==
  ASSUME NEW p, NEW k, NEW blk
  PROVE  /\ \A x \in BlockLines(p, k, blk) :
              /\ x.at \in LiveAt(blk) /\ blk[x.at].name \notin Dots
              /\ x = Line(p, k, x.at, blk[x.at])
              /\ x.dir = p /\ x.blk = k /\ x.name = blk[x.at].name /\ x.ino = blk[x.at].ino
         /\ \A o \in LiveAt(blk) : blk[o].name \notin Dots => Line(p, k, o, blk[o]) \in BlockLines(p, k, blk)
<1>1. ASSUME NEW x \in BlockLines(p, k, blk)
      PROVE  /\ x.at \in LiveAt(blk) /\ blk[x.at].name \notin Dots
             /\ x = Line(p, k, x.at, blk[x.at])
             /\ x.dir = p /\ x.blk = k /\ x.name = blk[x.at].name /\ x.ino = blk[x.at].ino
  <2>1. PICK o \in LiveAt(blk) : blk[o].name \notin Dots /\ x = Line(p, k, o, blk[o])
    BY DEF BlockLines
  <2>2. x.at = o
    BY <2>1, LineFields
  <2> QED BY <2>1, <2>2, LineFields
<1>2. \A o \in LiveAt(blk) : blk[o].name \notin Dots => Line(p, k, o, blk[o]) \in BlockLines(p, k, blk)
  BY DEF BlockLines
<1> QED BY <1>1, <1>2

(* And a line of a directory.                                              *)
LEMMA InDirLines ==
  ASSUME NEW p, NEW d
  PROVE  /\ \A x \in DirLines(p, d) :
              x.blk \in DOMAIN d.blks /\ x \in BlockLines(p, x.blk, d.blks[x.blk])
         /\ \A k \in DOMAIN d.blks : \A x \in BlockLines(p, k, d.blks[k]) : x \in DirLines(p, d)
<1>1. ASSUME NEW x \in DirLines(p, d)
      PROVE  x.blk \in DOMAIN d.blks /\ x \in BlockLines(p, x.blk, d.blks[x.blk])
  <2>1. PICK k \in DOMAIN d.blks : x \in BlockLines(p, k, d.blks[k])
    BY DEF DirLines
  <2>2. x.blk = k
    BY <2>1, InBlockLines
  <2> QED BY <2>1, <2>2
<1>2. \A k \in DOMAIN d.blks : \A x \in BlockLines(p, k, d.blks[k]) : x \in DirLines(p, d)
  BY DEF DirLines
<1> QED BY <1>1, <1>2

(* Outside X the same is in use in two blocks.                             *)
SameBut(blk, b2, X) == KeepsBut(blk, b2, X) /\ LiveAt(b2) \ X \subseteq LiveAt(blk)

(* Then their lines differ in X alone.                                     *)
LEMMA LinesChange ==
  ASSUME NEW p, NEW k, NEW blk, NEW b2, NEW X, SameBut(blk, b2, X)
  PROVE  BlockLines(p, k, b2) = {x \in BlockLines(p, k, blk) : x.at \notin X}
                                \cup {x \in BlockLines(p, k, b2) : x.at \in X}
<1>1. ASSUME NEW x \in BlockLines(p, k, b2), x.at \notin X PROVE x \in BlockLines(p, k, blk)
  <2>1. x.at \in LiveAt(b2) /\ b2[x.at].name \notin Dots /\ x = Line(p, k, x.at, b2[x.at])
    BY InBlockLines
  <2>2. x.at \in LiveAt(blk) /\ b2[x.at].ino = blk[x.at].ino /\ b2[x.at].name = blk[x.at].name
    BY <1>1, <2>1 DEF SameBut, KeepsBut
  <2>3. x = Line(p, k, x.at, blk[x.at])
    BY <2>1, <2>2 DEF Line
  <2> QED BY <2>1, <2>2, <2>3, InBlockLines
<1>2. ASSUME NEW x \in BlockLines(p, k, blk), x.at \notin X PROVE x \in BlockLines(p, k, b2)
  <2>1. x.at \in LiveAt(blk) /\ blk[x.at].name \notin Dots /\ x = Line(p, k, x.at, blk[x.at])
    BY InBlockLines
  <2>2. x.at \in LiveAt(b2) /\ b2[x.at].ino = blk[x.at].ino /\ b2[x.at].name = blk[x.at].name
    BY <1>2, <2>1 DEF SameBut, KeepsBut
  <2>3. x = Line(p, k, x.at, b2[x.at])
    BY <2>1, <2>2 DEF Line
  <2> QED BY <2>1, <2>2, <2>3, InBlockLines
<1> QED BY <1>1, <1>2

\* all of a directory but its blocks
SameShape(d, d2) ==
  /\ d2.hashed = d.hashed /\ d2.levels = d.levels /\ d2.index = d.index /\ d2.runs = d.runs
  /\ Len(d2.blks) = Len(d.blks) /\ DOMAIN d2.blks = DOMAIN d.blks

(* A directory another block was put into.                                 *)
LEMMA BlockPut ==
  ASSUME NEW d \in DirRecord, NEW k \in DOMAIN d.blks, NEW b2 \in RawBlock
  PROVE  LET d2 == [d EXCEPT !.blks[k] = b2] IN
         /\ d2 \in DirRecord /\ SameShape(d, d2)
         /\ d2.blks[k] = b2 /\ \A j \in DOMAIN d.blks \ {k} : d2.blks[j] = d.blks[j]
<1> DEFINE d2 == [d EXCEPT !.blks[k] = b2]
           s2 == [d.blks EXCEPT ![k] = b2]
<1>1. d.blks \in Seq(RawBlock) /\ d.blks # << >> /\ DOMAIN d.blks = 1 .. Len(d.blks)
  BY DEF DirRecord
<1>2. s2 \in Seq(RawBlock) /\ Len(s2) = Len(d.blks) /\ DOMAIN s2 = DOMAIN d.blks
      /\ s2[k] = b2 /\ \A j \in DOMAIN d.blks \ {k} : s2[j] = d.blks[j]
  BY <1>1
<1>3. s2 # << >>
  BY <1>1, <1>2
<1>4. d2 = [d EXCEPT !.blks = s2]
  OBVIOUS
<1> HIDE DEF s2
<1>5. d2 \in DirRecord /\ d2.blks = s2 /\ d2.hashed = d.hashed /\ d2.levels = d.levels
      /\ d2.index = d.index /\ d2.runs = d.runs
  BY <1>2, <1>3, <1>4 DEF DirRecord
<1> HIDE DEF d2
<1>6. SameShape(d, d2)
  BY <1>2, <1>5 DEF SameShape
<1> QED BY <1>2, <1>5, <1>6 DEF d2

(* Directories alike but for their blocks have the same leaves.            *)
LEMMA ShapeKept ==
  ASSUME NEW d, NEW d2, SameShape(d, d2)
  PROVE  /\ \A k : IndexBlock(d2, k) <=> IndexBlock(d, k)
         /\ LeavesThere(d) => LeavesThere(d2)
         /\ \A k, h : Covers(d2, k, h) <=> Covers(d, k, h)
  BY DEF SameShape, IndexBlock, LeavesThere, Covers

\* a block as it is to be laid out in its directory
Fits(d, k, blk) == blk \in RawBlock /\ Laid(blk, Tails /\ ~IndexBlock(d, k), At(blk))

(* The blocks of a directory are.                                          *)
LEMMA BlocksFit ==
  ASSUME NEW d \in DirRecord
  PROVE  Tiles(d) <=> \A k \in DOMAIN d.blks : Fits(d, k, d.blks[k])
<1>1. \A k \in DOMAIN d.blks : d.blks[k] \in RawBlock
  BY DEF DirRecord
<1>2. \A k \in DOMAIN d.blks : (Tails /\ ~IndexBlock(d, k)) \in BOOLEAN
  OBVIOUS
<1>3. ASSUME NEW k \in DOMAIN d.blks
      PROVE  Tiled(d.blks[k], Tails /\ ~IndexBlock(d, k)) <=> Fits(d, k, d.blks[k])
  BY <1>1, <1>2, TiledMeans DEF Fits
<1> QED BY <1>3 DEF Tiles

(* What a directory's shape says of its blocks.                            *)
LEMMA ShapedIs ==
  ASSUME NEW p, NEW d, DirShaped(p, d)
  PROVE  /\ d \in DirRecord /\ LeavesThere(d) /\ 1 \in DOMAIN d.blks /\ DOMAIN d.blks \subseteq Nat \ {0}
         /\ \A k \in DOMAIN d.blks : Fits(d, k, d.blks[k])
         /\ 0 \in LiveAt(d.blks[1]) /\ d.blks[1][0].ino = p /\ d.blks[1][0].name \in Dots
         /\ 3 \in LiveAt(d.blks[1]) /\ d.blks[1][3].ino = DotDot(d) /\ d.blks[1][3].name \in Dots
         /\ \A k \in DOMAIN d.blks : \A o \in LiveAt(d.blks[k]) :
              IF d.blks[k][o].name \in Dots THEN k = 1 /\ o \in {0, 3} ELSE ~IndexBlock(d, k)
<1>1. d \in DirRecord /\ LeavesThere(d) /\ Tiles(d) /\ Dotted(p, d)
  BY DEF DirShaped
<1>2. \A k \in DOMAIN d.blks : Fits(d, k, d.blks[k])
  BY <1>1, BlocksFit
<1>3. 1 \in DOMAIN d.blks /\ DOMAIN d.blks \subseteq Nat \ {0}
  <2>1. d.blks \in Seq(RawBlock) /\ d.blks # << >> /\ Len(d.blks) \in Nat /\ DOMAIN d.blks = 1 .. Len(d.blks)
    BY <1>1 DEF DirRecord
  <2> QED BY <2>1
<1> QED BY <1>1, <1>2, <1>3 DEF Dotted, DotDot, Dots

(* A block that is not an index is a block of entries.                     *)
LEMMA FitsEntry ==
  ASSUME NEW d, NEW k, ~IndexBlock(d, k), NEW blk
  PROVE  Fits(d, k, blk) <=> EntryBlock(blk)
  BY DEF Fits, EntryBlock, Laid

\* a directory that differs in the lines it loses and those it gains
Edited(p, d, d2, X, Y) ==
  /\ DirShaped(p, d2) /\ SameShape(d, d2) /\ DotDot(d2) = DotDot(d)
  /\ DirLines(p, d2) = (DirLines(p, d) \ X) \cup Y

\* a block of which entries in X changed, not the dots
Change(p, d, k, b2, X, d2, gone, come) ==
  /\ k \in DOMAIN d.blks /\ ~IndexBlock(d, k) /\ EntryBlock(b2) /\ SameBut(d.blks[k], b2, X)
  /\ \A o \in X : o \in LiveAt(d.blks[k]) => d.blks[k][o].name \notin Dots
  /\ \A o \in X : o \in LiveAt(b2) => b2[o].name \notin Dots
  /\ d2 = [d EXCEPT !.blks[k] = b2]
  /\ gone = {x \in DirLines(p, d) : x.blk = k /\ x.at \in X}
  /\ come = {x \in BlockLines(p, k, b2) : x.at \in X}

(* That is all that changes of its directory.                              *)
LEMMA DirChanged ==
  ASSUME NEW p, NEW d, DirShaped(p, d), NEW k, NEW b2, NEW X, NEW d2, NEW gone, NEW come,
         Change(p, d, k, b2, X, d2, gone, come)
  PROVE  Edited(p, d, d2, gone, come)
<1> USE DEF Change
<1> DEFINE blk == d.blks[k]
<1>1. /\ d \in DirRecord /\ LeavesThere(d) /\ 1 \in DOMAIN d.blks
      /\ \A j \in DOMAIN d.blks : Fits(d, j, d.blks[j])
      /\ 0 \in LiveAt(d.blks[1]) /\ d.blks[1][0].ino = p /\ d.blks[1][0].name \in Dots
      /\ 3 \in LiveAt(d.blks[1]) /\ d.blks[1][3].ino = DotDot(d) /\ d.blks[1][3].name \in Dots
      /\ \A j \in DOMAIN d.blks : \A o \in LiveAt(d.blks[j]) :
           IF d.blks[j][o].name \in Dots THEN j = 1 /\ o \in {0, 3} ELSE ~IndexBlock(d, j)
  BY ShapedIs
<1>2. /\ d2 \in DirRecord /\ SameShape(d, d2)
      /\ d2.blks[k] = b2 /\ \A j \in DOMAIN d.blks \ {k} : d2.blks[j] = d.blks[j]
  <2>1. b2 \in RawBlock
    BY DEF EntryBlock
  <2> QED BY <1>1, <2>1, BlockPut
<1>3. DOMAIN d2.blks = DOMAIN d.blks /\ (\A j : IndexBlock(d2, j) <=> IndexBlock(d, j)) /\ LeavesThere(d2)
  <2>1. SameShape(d, d2) /\ LeavesThere(d)
    BY <1>1, <1>2
  <2> HIDE DEF Change
  <2>2. (\A j : IndexBlock(d2, j) <=> IndexBlock(d, j)) /\ LeavesThere(d2)
    BY <2>1, ShapeKept
  <2> QED BY <2>1, <2>2 DEF SameShape
<1>4. Tiles(d2)
  <2>1. Fits(d2, k, b2)
    BY <1>3, FitsEntry
  <2>2. \A j \in DOMAIN d.blks \ {k} : Fits(d2, j, d2.blks[j])
    BY <1>1, <1>2, <1>3 DEF Fits, Laid
  <2> QED BY <1>2, <1>3, <2>1, <2>2, BlocksFit
<1>5. \A o \in LiveAt(blk) : blk[o].name \in Dots =>
        o \in LiveAt(b2) /\ b2[o].ino = blk[o].ino /\ b2[o].name = blk[o].name
  BY DEF SameBut, KeepsBut
<1>6. \A o \in LiveAt(b2) : IF b2[o].name \in Dots THEN k = 1 /\ o \in {0, 3} ELSE ~IndexBlock(d, k)
  <2> SUFFICES ASSUME NEW o \in LiveAt(b2), b2[o].name \in Dots PROVE k = 1 /\ o \in {0, 3}
    OBVIOUS
  <2>1. o \notin X
    OBVIOUS
  <2>2. o \in LiveAt(blk) /\ blk[o].name = b2[o].name
    BY <2>1 DEF SameBut, KeepsBut
  <2> QED BY <1>1, <2>2
<1>7. /\ 0 \in LiveAt(d2.blks[1]) /\ 3 \in LiveAt(d2.blks[1])
      /\ d2.blks[1][0].ino = p /\ d2.blks[1][0].name = d.blks[1][0].name
      /\ d2.blks[1][3].ino = DotDot(d) /\ d2.blks[1][3].name = d.blks[1][3].name
  <2>1. CASE k = 1
    BY <1>1, <1>2, <1>5, <2>1
  <2>2. CASE k # 1
    BY <1>1, <1>2, <2>2
  <2> QED BY <2>1, <2>2
<1>8. \A j \in DOMAIN d.blks : \A o \in LiveAt(d2.blks[j]) :
        IF d2.blks[j][o].name \in Dots THEN j = 1 /\ o \in {0, 3} ELSE ~IndexBlock(d2, j)
  BY <1>1, <1>2, <1>3, <1>6
<1>9. DirShaped(p, d2) /\ DotDot(d2) = DotDot(d)
  <2>1. d.blks[1][0].name = "." /\ d.blks[1][3].name = ".."
    BY DEF DirShaped, Dotted
  <2>2. Dotted(p, d2)
    BY <1>3, <1>7, <1>8, <2>1 DEF Dotted
  <2> QED BY <1>2, <1>3, <1>4, <1>7, <2>2 DEF DirShaped, DotDot
<1>10. ASSUME NEW x \in DirLines(p, d2)
       PROVE  \/ x \in DirLines(p, d) /\ ~(x.blk = k /\ x.at \in X)
              \/ x \in BlockLines(p, k, b2) /\ x.at \in X
  <2>1. x.blk \in DOMAIN d.blks /\ x \in BlockLines(p, x.blk, d2.blks[x.blk])
    BY <1>3, InDirLines
  <2>2. CASE x.blk # k
    <3>1. x \in BlockLines(p, x.blk, d.blks[x.blk])
      BY <1>2, <2>1, <2>2
    <3> QED BY <2>1, <2>2, <3>1, InDirLines
  <2>3. CASE x.blk = k
    <3>1. x \in BlockLines(p, k, b2)
      BY <1>2, <2>1, <2>3
    <3>2. x.at \notin X => x \in BlockLines(p, k, blk)
      BY <3>1, LinesChange
    <3> QED BY <3>1, <3>2, InDirLines
  <2> QED BY <2>2, <2>3
<1>11. ASSUME NEW x \in DirLines(p, d), ~(x.blk = k /\ x.at \in X) PROVE x \in DirLines(p, d2)
  <2>1. x.blk \in DOMAIN d.blks /\ x \in BlockLines(p, x.blk, d.blks[x.blk])
    BY InDirLines
  <2>2. CASE x.blk # k
    <3>1. x \in BlockLines(p, x.blk, d2.blks[x.blk])
      BY <1>2, <2>1, <2>2
    <3> QED BY <1>3, <2>1, <3>1, InDirLines
  <2>3. CASE x.blk = k
    <3>1. x \in BlockLines(p, k, b2)
      BY <1>11, <2>1, <2>3, LinesChange
    <3> QED BY <1>2, <1>3, <3>1, InDirLines
  <2> QED BY <2>2, <2>3
<1>12. ASSUME NEW x \in BlockLines(p, k, b2) PROVE x \in DirLines(p, d2)
  BY <1>2, <1>3, InDirLines
<1>13. DirLines(p, d2) = (DirLines(p, d) \ {x \in DirLines(p, d) : x.blk = k /\ x.at \in X})
                        \cup {x \in BlockLines(p, k, b2) : x.at \in X}
  <2> DEFINE A == DirLines(p, d2)
             B == DirLines(p, d)
             C == BlockLines(p, k, b2)
  <2>1. /\ \A x \in A : (x \in B /\ ~(x.blk = k /\ x.at \in X)) \/ (x \in C /\ x.at \in X)
        /\ \A x \in B : ~(x.blk = k /\ x.at \in X) => x \in A
        /\ C \subseteq A
    BY <1>10, <1>11, <1>12
  <2> HIDE DEF A, B, C
  <2>2. A = (B \ {x \in B : x.blk = k /\ x.at \in X}) \cup {x \in C : x.at \in X}
    BY <2>1
  <2> QED BY <2>2 DEF A, B, C
<1> QED BY <1>2, <1>9, <1>13 DEF Edited

(* The elements of a sequence.                                             *)
LEMMA SeqElements ==
  ASSUME NEW A, NEW s \in Seq(A)
  PROVE  Len(s) \in Nat /\ DOMAIN s = 1 .. Len(s) /\ \A m \in DOMAIN s : s[m] \in A
  OBVIOUS

(* A leaf a name may go to covers its hash.                                *)
LEMMA LeafCovers ==
  ASSUME NEW d \in DirRecord, d.hashed, LeavesThere(d), NEW n \in Name, NEW k \in Leaf(d, n)
  PROVE  d.levels = 0 /\ k \in DOMAIN d.blks \ {1} /\ Covers(d, k, Hash[n])
<1> DEFINE L == Len(d.index)
           past == {j \in 2 .. L : d.index[j].hash > Hash[n]}
           j == IF past = {} THEN L ELSE Min(past) - 1
<1>1. /\ d.levels \in Nat /\ d.index \in Seq([hash : Nat, leaf : Nat]) /\ Hash[n] \in Nat
      /\ d.blks \in Seq(RawBlock)
  BY DirectoryAssumption DEF DirRecord
<1>2. d.levels = 0 /\ k = d.index[j].leaf + 1
  <2>1. d.levels = 0
    BY <1>1 DEF Leaf
  <2>2. Leaf(d, n) = {d.index[j].leaf + 1}
    BY <2>1 DEF Leaf
  <2> QED BY <2>1, <2>2
<1>3. L \in Nat /\ L >= 1 /\ DOMAIN d.index = 1 .. L
      /\ \A m \in DOMAIN d.index : d.index[m].leaf + 1 \in DOMAIN d.blks \ {1}
  <2> HIDE DEF j
  <2>1. d.index # << >> /\ \A m \in DOMAIN d.index : d.index[m].leaf + 1 \in DOMAIN d.blks \ {1}
    BY <1>2 DEF LeavesThere
  <2>2. L \in Nat /\ DOMAIN d.index = 1 .. L /\ (L = 0 => d.index = << >>)
    BY <1>1
  <2> QED BY <2>1, <2>2
<1>4. /\ j \in 1 .. L /\ (j > 1 => j \notin past) /\ (j < L => j + 1 \in past)
  <2>1. CASE past = {}
    BY <1>3, <2>1
  <2>2. CASE past # {}
    <3> DEFINE m == Min(past)
    <3>1. m \in past /\ \A x \in past : m <= x
      <4>1. past \in SUBSET Nat
        OBVIOUS
      <4> QED BY <2>2, <4>1, MinMax
    <3>2. j = m - 1 /\ m \in 2 .. L
      BY <2>2, <3>1
    <3> HIDE DEF m, j
    <3>3. m - 1 \notin past
      <4> HIDE DEF past
      <4> QED BY <1>3, <3>1, <3>2
    <3>4. j \in 1 .. L /\ j + 1 = m
      BY <1>3, <3>2
    <3> HIDE DEF past
    <3> QED BY <3>1, <3>2, <3>3, <3>4
  <2> QED BY <2>1, <2>2
<1> HIDE DEF j
<1>5. d.index[j].leaf \in Nat /\ \A m \in 1 .. L : d.index[m].hash \in Nat
  <2>1. \A m \in DOMAIN d.index : d.index[m] \in [hash : Nat, leaf : Nat]
    BY <1>1, SeqElements
  <2>2. \A m \in 1 .. L : d.index[m].hash \in Nat /\ d.index[m].leaf \in Nat
    BY <1>3, <2>1
  <2> QED BY <1>4, <2>2
<1>6. d.index[j].leaf = k - 1
  BY <1>2, <1>5
<1>7. j > 1 => d.index[j].hash <= Hash[n]
  <2> SUFFICES ASSUME j > 1 PROVE d.index[j].hash <= Hash[n]
    OBVIOUS
  <2>1. j \in 2 .. L
    BY <1>3, <1>4
  <2>2. ~(d.index[j].hash > Hash[n])
    BY <1>4, <2>1
  <2> QED BY <1>1, <1>4, <1>5, <2>2
<1>8. j < L => Hash[n] < d.index[j + 1].hash
  BY <1>1, <1>3, <1>4, <1>5
<1>9. Covers(d, k, Hash[n])
  BY <1>3, <1>4, <1>6, <1>7, <1>8 DEF Covers
<1> QED BY <1>2, <1>3, <1>4, <1>9

AnyPlace(d, n) == NewPlaces(d, n) \cup MovePlaces(d, n)

(* Where a name may be put is a block of entries, and its leaf.            *)
LEMMA PlaceFacts ==
  ASSUME NEW p, NEW d, DirShaped(p, d), NEW n \in Name, NEW k \in AnyPlace(d, n)
  PROVE  /\ k \in DOMAIN d.blks /\ ~IndexBlock(d, k) /\ Slots(d.blks[k], n) # {}
         /\ EntryBlock(d.blks[k])
         /\ d.hashed => d.levels = 0 /\ Covers(d, k, Hash[n])
<1>1. /\ d \in DirRecord /\ LeavesThere(d) /\ 1 \in DOMAIN d.blks
      /\ \A j \in DOMAIN d.blks : Fits(d, j, d.blks[j])
  BY ShapedIs
<1>2. Slots(d.blks[k], n) # {} /\ k \in (IF d.hashed THEN Leaf(d, n) ELSE DOMAIN d.blks)
  BY <1>1 DEF AnyPlace, NewPlaces, MovePlaces
<1>3. CASE d.hashed
  <2>1. d.levels = 0 /\ k \in DOMAIN d.blks \ {1} /\ Covers(d, k, Hash[n])
    BY <1>1, <1>2, <1>3, LeafCovers
  <2>2. k \in Nat \ {0}
    BY <2>1, ShapedIs
  <2>3. ~IndexBlock(d, k)
    BY <2>1, <2>2 DEF IndexBlock
  <2> QED BY <1>1, <1>2, <2>1, <2>3, FitsEntry
<1>4. CASE ~d.hashed
  <2>1. ~IndexBlock(d, k)
    BY <1>4 DEF IndexBlock
  <2> QED BY <1>1, <1>2, <1>4, <2>1, FitsEntry
<1> QED BY <1>3, <1>4

(* A new name is one more line.                                            *)
LEMMA PutShows ==
  ASSUME NEW p, NEW d, DirShaped(p, d), NEW n \in Name, NEW k \in AnyPlace(d, n),
         NEW i \in Nat \ {0}
  PROVE  \E x : /\ Edited(p, d, Put(d, k, n, i), {}, {x})
                /\ x.dir = p /\ x.blk = k /\ x.name = n /\ x.ino = i
<1> DEFINE blk == d.blks[k]
           b2 == Inserted(blk, n, i)
<1>1. k \in DOMAIN d.blks /\ ~IndexBlock(d, k) /\ Slots(blk, n) # {} /\ EntryBlock(blk)
  BY PlaceFacts
<1>2. Put(d, k, n, i) = [d EXCEPT !.blks[k] = b2]
  BY DEF Put
<1> HIDE DEF b2
<1>3. PICK at \in Offset : /\ EntryBlock(b2) /\ KeepsBut(blk, b2, {})
                           /\ at \notin LiveAt(blk) /\ LiveAt(b2) = LiveAt(blk) \cup {at}
                           /\ b2[at].ino = i /\ b2[at].name = n
  <2> HIDE DEF blk
  <2> QED BY <1>1, InsertedShows DEF b2
<1> DEFINE x == Line(p, k, at, b2[at])
<1>4. n \notin Dots
  BY NameFacts, Zenon
<1>5. SameBut(blk, b2, {at})
  BY <1>3 DEF SameBut, KeepsBut
<1>6. x.dir = p /\ x.blk = k /\ x.name = n /\ x.ino = i /\ x.at = at
  BY <1>3, LineFields
<1>7. {y \in BlockLines(p, k, b2) : y.at \in {at}} = {x}
  <2>1. x \in BlockLines(p, k, b2)
    BY <1>3, <1>4, InBlockLines
  <2>2. \A y \in BlockLines(p, k, b2) : y.at = at => y = x
    BY InBlockLines
  <2> HIDE DEF x
  <2> QED BY <1>6, <2>1, <2>2
<1>8. {y \in DirLines(p, d) : y.blk = k /\ y.at \in {at}} = {}
  <2> SUFFICES ASSUME NEW y \in DirLines(p, d), y.blk = k, y.at = at PROVE FALSE
    OBVIOUS
  <2>1. y \in BlockLines(p, k, blk)
    BY InDirLines
  <2>2. at \in LiveAt(blk)
    BY <2>1, InBlockLines
  <2> QED BY <1>3, <2>2
<1>9. Edited(p, d, [d EXCEPT !.blks[k] = b2], {}, {x})
  <2> HIDE DEF x, blk
  <2>1. \A o \in {at} : (o \in LiveAt(blk) => blk[o].name \notin Dots) /\ (o \in LiveAt(b2) => b2[o].name \notin Dots)
    BY <1>3, <1>4
  <2>2. Edited(p, d, [d EXCEPT !.blks[k] = b2],
               {y \in DirLines(p, d) : y.blk = k /\ y.at \in {at}},
               {y \in BlockLines(p, k, b2) : y.at \in {at}})
    <3>1. /\ SameBut(d.blks[k], b2, {at})
          /\ \A o \in {at} : o \in LiveAt(d.blks[k]) => d.blks[k][o].name \notin Dots
          /\ \A o \in {at} : o \in LiveAt(b2) => b2[o].name \notin Dots
      BY <1>5, <2>1 DEF blk
    <3>2. EntryBlock(b2) /\ k \in DOMAIN d.blks /\ ~IndexBlock(d, k)
      BY <1>1, <1>3
    <3> DEFINE X == {at}
    <3>3. /\ SameBut(d.blks[k], b2, X)
          /\ \A o \in X : o \in LiveAt(d.blks[k]) => d.blks[k][o].name \notin Dots
          /\ \A o \in X : o \in LiveAt(b2) => b2[o].name \notin Dots
      BY <3>1
    <3> DEFINE d2 == [d EXCEPT !.blks[k] = b2]
               gone == {y \in DirLines(p, d) : y.blk = k /\ y.at \in X}
               come == {y \in BlockLines(p, k, b2) : y.at \in X}
    <3> HIDE DEF X
    <3>4. /\ d2 = [d EXCEPT !.blks[k] = b2]
          /\ gone = {y \in DirLines(p, d) : y.blk = k /\ y.at \in X}
          /\ come = {y \in BlockLines(p, k, b2) : y.at \in X}
      OBVIOUS
    <3> HIDE DEF d2, gone, come
    <3>5. Change(p, d, k, b2, X, d2, gone, come)
      BY <3>2, <3>3, <3>4 DEF Change
    <3>6. Edited(p, d, d2, gone, come)
      BY <3>5, DirChanged
    <3> QED BY <3>6 DEF X, d2, gone, come
  <2> QED BY <1>7, <1>8, <2>2
<1> QED BY <1>2, <1>6, <1>9

\* the one line of its inode, in a directory that is neither it nor below it
OnlyLine(p, d, x) ==
  /\ x \in DirLines(p, d) /\ x.ino \notin {p, DotDot(d)}
  /\ \A y \in DirLines(p, d) : y.ino = x.ino => y = x

(* A call that looks for its inode finds that line's record and no other.  *)
LEMMA HoldingIs ==
  ASSUME NEW p, NEW d, DirShaped(p, d), NEW x, OnlyLine(p, d, x), x.ino \in Nat \ {0}
  PROVE  /\ Holding(d, x.ino) = {x.blk} /\ x.blk \in DOMAIN d.blks /\ ~IndexBlock(d, x.blk)
         /\ EntryBlock(d.blks[x.blk]) /\ Sole(d.blks[x.blk], x.ino, x.at)
         /\ d.blks[x.blk][x.at].name \notin Dots
<1> DEFINE i == x.ino
<1>1. /\ d \in DirRecord
      /\ \A k \in DOMAIN d.blks : Fits(d, k, d.blks[k])
      /\ d.blks[1][0].ino = p /\ d.blks[1][3].ino = DotDot(d)
      /\ \A k \in DOMAIN d.blks : \A o \in LiveAt(d.blks[k]) :
           IF d.blks[k][o].name \in Dots THEN k = 1 /\ o \in {0, 3} ELSE ~IndexBlock(d, k)
  BY ShapedIs
<1>2. /\ x.blk \in DOMAIN d.blks /\ x.at \in LiveAt(d.blks[x.blk])
      /\ d.blks[x.blk][x.at].name \notin Dots /\ d.blks[x.blk][x.at].ino = i
  BY InDirLines, InBlockLines DEF OnlyLine
<1>3. ASSUME NEW k \in DOMAIN d.blks, NEW o \in LiveAt(d.blks[k]), d.blks[k][o].ino = i
      PROVE  k = x.blk /\ o = x.at
  <2>1. d.blks[k][o].name \notin Dots
    BY <1>1, <1>3 DEF OnlyLine
  <2> DEFINE y == Line(p, k, o, d.blks[k][o])
  <2>2. y \in DirLines(p, d)
    BY <2>1, InBlockLines, InDirLines
  <2>3. y.ino = i /\ y.blk = k /\ y.at = o
    BY <1>3, LineFields
  <2> HIDE DEF y
  <2> QED BY <2>2, <2>3 DEF OnlyLine
<1>4. ~IndexBlock(d, x.blk)
  BY <1>1, <1>2
<1>5. EntryBlock(d.blks[x.blk])
  BY <1>1, <1>2, <1>4, FitsEntry
<1>6. Sole(d.blks[x.blk], i, x.at)
  BY <1>2, <1>3 DEF Sole
<1>7. ASSUME NEW k \in Holding(d, i) PROVE k = x.blk
  <2>1. PICK o : k \in DOMAIN d.blks /\ o \in EntriesOf(d.blks[k], i)
    BY DEF Holding
  <2>2. o \in LiveAt(d.blks[k]) /\ d.blks[k][o].ino = i
    BY <2>1 DEF EntriesOf, Records, LiveAt, At
  <2> QED BY <1>3, <2>1, <2>2
<1>8. x.blk \in Holding(d, i)
  <2>1. EntriesOf(d.blks[x.blk], i) = {x.at}
    BY <1>5, <1>6, SoleFound
  <2> QED BY <1>2, <2>1 DEF Holding
<1> QED BY <1>2, <1>4, <1>5, <1>6, <1>7, <1>8

(* A block in which only that line's record changed.                       *)
LEMMA LineChanged ==
  ASSUME NEW p, NEW d, DirShaped(p, d), NEW x, OnlyLine(p, d, x), x.ino \in Nat \ {0},
         NEW b2, EntryBlock(b2), KeepsBut(d.blks[x.blk], b2, {x.at}),
         LiveAt(b2) \subseteq LiveAt(d.blks[x.blk]),
         x.at \in LiveAt(b2) => b2[x.at].name \notin Dots,
         NEW d2, d2 = [d EXCEPT !.blks[x.blk] = b2],
         NEW come, come = {y \in BlockLines(p, x.blk, b2) : y.at = x.at}
  PROVE  Edited(p, d, d2, {x}, come)
<1> DEFINE k == x.blk
           X == {x.at}
           gone == {y \in DirLines(p, d) : y.blk = k /\ y.at \in X}
<1>1. k \in DOMAIN d.blks /\ ~IndexBlock(d, k) /\ d.blks[k][x.at].name \notin Dots
  BY HoldingIs
<1>2. gone = {x}
  <2>1. x \in DirLines(p, d)
    BY DEF OnlyLine
  <2>2. ASSUME NEW y \in DirLines(p, d), y.blk = k, y.at = x.at PROVE y = x
    <3>1. x = Line(p, k, x.at, d.blks[k][x.at])
      BY <2>1, InDirLines, InBlockLines
    <3>2. y = Line(p, k, x.at, d.blks[k][x.at])
      BY <2>2, InDirLines, InBlockLines
    <3> QED BY <3>1, <3>2
  <2> QED BY <2>1, <2>2
<1>3. come = {y \in BlockLines(p, k, b2) : y.at \in X}
  OBVIOUS
<1>4. /\ SameBut(d.blks[k], b2, X)
      /\ \A o \in X : o \in LiveAt(d.blks[k]) => d.blks[k][o].name \notin Dots
      /\ \A o \in X : o \in LiveAt(b2) => b2[o].name \notin Dots
  BY <1>1 DEF SameBut
<1>5. gone = {y \in DirLines(p, d) : y.blk = k /\ y.at \in X} /\ d2 = [d EXCEPT !.blks[k] = b2]
  OBVIOUS
<1> HIDE DEF X, gone, k
<1>6. Change(p, d, k, b2, X, d2, gone, come)
  BY <1>1, <1>3, <1>4, <1>5 DEF Change
<1>7. Edited(p, d, d2, gone, come)
  BY <1>6, DirChanged
<1> QED BY <1>2, <1>7

(* Taking it out is one line less.                                         *)
LEMMA TakeOutShows ==
  ASSUME NEW p, NEW d, DirShaped(p, d), NEW x, OnlyLine(p, d, x), x.ino \in Nat \ {0}
  PROVE  Edited(p, d, TakeOut(d, x.blk, x.ino), {x}, {})
<1> DEFINE blk == d.blks[x.blk]
           i == x.ino
           b2 == Removed(blk, i)
           d2 == TakeOut(d, x.blk, i)
           come == {y \in BlockLines(p, x.blk, b2) : y.at = x.at}
<1>1. EntryBlock(blk) /\ Sole(blk, i, x.at)
  BY HoldingIs
<1>2. d2 = [d EXCEPT !.blks[x.blk] = b2] /\ come = {y \in BlockLines(p, x.blk, b2) : y.at = x.at}
  BY DEF TakeOut
<1>3. EntryBlock(b2) /\ LiveAt(b2) = LiveAt(blk) \ {x.at} /\ KeepsBut(blk, b2, {x.at})
  <2> HIDE DEF blk
  <2> QED BY <1>1, RemovedShows
<1>4. come = {}
  BY <1>3, InBlockLines
<1>5. KeepsBut(d.blks[x.blk], b2, {x.at}) /\ LiveAt(b2) \subseteq LiveAt(d.blks[x.blk]) /\ x.at \notin LiveAt(b2)
  BY <1>3
<1> HIDE DEF b2, d2, come
<1>6. Edited(p, d, d2, {x}, come)
  BY <1>2, <1>3, <1>5, LineChanged
<1> QED BY <1>4, <1>6 DEF d2

\* a line's name changes in its record
LineRenamed(d, x, m, d2) ==
  /\ Renamable(d.blks[x.blk], x.ino, m)
  /\ d2 = [d EXCEPT !.blks[x.blk] = Renamed(d.blks[x.blk], x.ino, m)]
SamePlace(x, y) == y.blk = x.blk /\ y.at = x.at
RenamedAs(p, d, x, m, d2, y) ==
  /\ Edited(p, d, d2, {x}, {y})
  /\ y.dir = p /\ y.name = m /\ y.ino = x.ino /\ SamePlace(x, y)

(* Renaming it is another line in its place.                               *)
LEMMA RenameShows ==
  ASSUME NEW p, NEW d, DirShaped(p, d), NEW x, OnlyLine(p, d, x), x.ino \in Nat \ {0},
         NEW m \in Name, NEW d2, LineRenamed(d, x, m, d2)
  PROVE  \E y : RenamedAs(p, d, x, m, d2, y)
<1> DEFINE blk == d.blks[x.blk]
           i == x.ino
           b2 == Renamed(blk, i, m)
           y == Line(p, x.blk, x.at, b2[x.at])
           come == {z \in BlockLines(p, x.blk, b2) : z.at = x.at}
<1>1. EntryBlock(blk) /\ Sole(blk, i, x.at)
  BY HoldingIs
<1>2. m \notin Dots
  BY NameFacts, Zenon
<1>3. /\ EntryBlock(b2) /\ LiveAt(b2) = LiveAt(blk) /\ KeepsBut(blk, b2, {x.at})
      /\ b2[x.at].ino = i /\ b2[x.at].name = m
  <2>1. Renamable(blk, i, m) /\ i \in Nat \ {0}
    BY DEF LineRenamed
  <2> HIDE DEF blk, i
  <2>2. BlockRenamed(blk, b2, i, x.at, m)
    BY <1>1, <2>1, RenamedShows
  <2> QED BY <2>2 DEF BlockRenamed
<1>4. x.at \in LiveAt(b2)
  BY <1>1, <1>3 DEF Sole
<1>5. come = {y}
  <2>1. y \in BlockLines(p, x.blk, b2) /\ y.at = x.at
    BY <1>2, <1>3, <1>4, InBlockLines, LineFields
  <2>2. \A z \in BlockLines(p, x.blk, b2) : z.at = x.at => z = y
    BY InBlockLines
  <2> HIDE DEF y, b2
  <2> QED BY <2>1, <2>2
<1>6. y.dir = p /\ y.name = m /\ y.ino = i /\ SamePlace(x, y)
  BY <1>3, LineFields DEF SamePlace
<1>7. /\ d2 = [d EXCEPT !.blks[x.blk] = b2] /\ come = {z \in BlockLines(p, x.blk, b2) : z.at = x.at}
      /\ KeepsBut(d.blks[x.blk], b2, {x.at}) /\ LiveAt(b2) \subseteq LiveAt(d.blks[x.blk])
      /\ b2[x.at].name \notin Dots
  BY <1>2, <1>3 DEF LineRenamed
<1> HIDE DEF b2, come, y
<1>8. Edited(p, d, d2, {x}, come)
  BY <1>3, <1>7, LineChanged
<1> QED BY <1>5, <1>6, <1>8 DEF RenamedAs

(* Another ".." is no other line.                                          *)
LEMMA RepointShows ==
  ASSUME NEW p, NEW d, DirShaped(p, d), NEW q \in Nat \ {0}
  PROVE  LET d2 == Repointed(d, q) IN
         DirShaped(p, d2) /\ SameShape(d, d2) /\ DotDot(d2) = q /\ DirLines(p, d2) = DirLines(p, d)
<1> DEFINE blk == d.blks[1]
           b2 == Stamped([blk EXCEPT ![3].ino = q])
           d2 == Repointed(d, q)
           tail == Tails /\ ~IndexBlock(d, 1)
<1>1. /\ d \in DirRecord /\ LeavesThere(d) /\ 1 \in DOMAIN d.blks
      /\ \A j \in DOMAIN d.blks : Fits(d, j, d.blks[j])
      /\ 0 \in LiveAt(d.blks[1]) /\ d.blks[1][0].ino = p /\ d.blks[1][0].name \in Dots
      /\ 3 \in LiveAt(d.blks[1]) /\ d.blks[1][3].ino = DotDot(d) /\ d.blks[1][3].name \in Dots
      /\ \A j \in DOMAIN d.blks : \A o \in LiveAt(d.blks[j]) :
           IF d.blks[j][o].name \in Dots THEN j = 1 /\ o \in {0, 3} ELSE ~IndexBlock(d, j)
  BY ShapedIs
<1>2. d.blks[1][0].name = "." /\ d.blks[1][3].name = ".."
  BY DEF DirShaped, Dotted
<1>3. d2 = [d EXCEPT !.blks[1] = b2]
  BY DEF Repointed
<1>4. tail \in {Tails, FALSE} /\ FirstBlock(blk, tail)
  <2>1. tail \in BOOLEAN
    OBVIOUS
  <2>2. CASE IndexBlock(d, 1)
    BY <1>1, <2>2 DEF FirstBlock, Fits
  <2>3. CASE ~IndexBlock(d, 1)
    BY <1>1, <2>3, SizeFacts DEF FirstBlock, Fits
  <2> QED BY <2>2, <2>3
<1>5. /\ b2 \in RawBlock /\ Laid(b2, tail, At(b2))
      /\ LiveAt(b2) = LiveAt(blk) /\ KeepsBut(blk, b2, {3})
      /\ b2[3].ino = q /\ b2[3].name = blk[3].name
  <2> HIDE DEF blk, tail
  <2> QED BY <1>4, RepointedShows
<1> HIDE DEF b2, d2
<1>6. /\ d2 \in DirRecord /\ SameShape(d, d2)
      /\ d2.blks[1] = b2 /\ \A j \in DOMAIN d.blks \ {1} : d2.blks[j] = d.blks[j]
  BY <1>1, <1>3, <1>5, BlockPut
<1>7. DOMAIN d2.blks = DOMAIN d.blks /\ (\A j : IndexBlock(d2, j) <=> IndexBlock(d, j)) /\ LeavesThere(d2)
  BY <1>1, <1>6, ShapeKept DEF SameShape
<1>8. Tiles(d2)
  <2>1. Fits(d2, 1, b2)
    BY <1>5, <1>7 DEF Fits, Laid
  <2>2. \A j \in DOMAIN d.blks \ {1} : Fits(d2, j, d2.blks[j])
    BY <1>1, <1>6, <1>7 DEF Fits, Laid
  <2> QED BY <1>6, <1>7, <2>1, <2>2, BlocksFit
<1>9. \A o \in LiveAt(blk) : o # 3 => b2[o].ino = blk[o].ino /\ b2[o].name = blk[o].name
  BY <1>5 DEF KeepsBut
<1>10. /\ 0 \in LiveAt(b2) /\ 3 \in LiveAt(b2) /\ b2[0].ino = p /\ b2[0].name = "." /\ b2[3].name = ".."
  BY <1>1, <1>2, <1>5, <1>9
<1>11. \A o \in LiveAt(b2) : b2[o].name = blk[o].name
  BY <1>5, <1>9
<1>12. Dotted(p, d2)
  <2>1. \A j \in DOMAIN d.blks : \A o \in LiveAt(d2.blks[j]) :
          IF d2.blks[j][o].name \in Dots THEN j = 1 /\ o \in {0, 3} ELSE ~IndexBlock(d2, j)
    BY <1>1, <1>5, <1>6, <1>7, <1>11
  <2> QED BY <1>6, <1>7, <1>10, <2>1 DEF Dotted
<1>13. ASSUME NEW j \in DOMAIN d.blks PROVE BlockLines(p, j, d2.blks[j]) = BlockLines(p, j, d.blks[j])
  <2>1. CASE j # 1
    BY <1>6, <2>1
  <2>2. CASE j = 1
    <3> DEFINE X == {3}
    <3>1. SameBut(blk, b2, X)
      BY <1>5 DEF SameBut
    <3>2. 3 \in X /\ \A o \in X : o = 3
      OBVIOUS
    <3> HIDE DEF X
    <3>3. BlockLines(p, 1, b2) = {x \in BlockLines(p, 1, blk) : x.at \notin X}
                                 \cup {x \in BlockLines(p, 1, b2) : x.at \in X}
      BY <3>1, LinesChange
    <3>4. ".." \in Dots
      BY DEF Dots
    <3>5. \A x \in BlockLines(p, 1, blk) : x.at \notin X
      BY <1>2, <3>2, <3>4, InBlockLines
    <3>6. \A x \in BlockLines(p, 1, b2) : x.at \notin X
      BY <1>10, <3>2, <3>4, InBlockLines
    <3> QED BY <1>6, <2>2, <3>3, <3>5, <3>6
  <2> QED BY <2>1, <2>2
<1>14. DirLines(p, d2) = DirLines(p, d)
  BY <1>7, <1>13 DEF DirLines
<1> QED BY <1>5, <1>6, <1>7, <1>8, <1>12, <1>14 DEF DirShaped, DotDot, d2

(* A new directory's record.                                               *)
NewDir(i, p) ==
  [hashed |-> FALSE, levels |-> 0, index |-> << >>, runs |-> 1, blks |-> << FreshBlock(i, p) >>]

(* It has the shape of one, and holds no name.                             *)
LEMMA NewDirShows ==
  ASSUME NEW i \in Nat \ {0}, NEW p \in Nat \ {0}
  PROVE  LET d == NewDir(i, p) IN
         /\ DirShaped(i, d) /\ DotDot(d) = p /\ DirLines(i, d) = {}
         /\ ~d.hashed /\ Len(d.blks) = 1
<1> DEFINE b == FreshBlock(i, p)
           d == NewDir(i, p)
<1>1. /\ EntryBlock(b) /\ LiveAt(b) = {0, 3}
      /\ b[0].ino = i /\ b[0].name = "." /\ b[3].ino = p /\ b[3].name = ".."
  BY FreshShows
<1>2. d.hashed = FALSE /\ d.levels = 0 /\ d.index = << >> /\ d.runs = 1 /\ d.blks = << b >>
  BY DEF NewDir
<1> HIDE DEF b
<1>3. << b >> \in Seq(RawBlock) /\ << b >> # << >> /\ DOMAIN << b >> = {1} /\ << b >>[1] = b /\ Len(<< b >>) = 1
  BY <1>1 DEF EntryBlock
<1>4. d \in DirRecord
  <2>1. << >> \in Seq([hash : Nat, leaf : Nat])
    OBVIOUS
  <2> QED BY <1>3, <2>1 DEF NewDir, DirRecord, b
<1> HIDE DEF d
<1>5. \A k : ~IndexBlock(d, k)
  BY <1>2 DEF IndexBlock
<1>6. Tiles(d)
  <2>1. Fits(d, 1, b)
    BY <1>1, <1>5, FitsEntry
  <2> QED BY <1>2, <1>3, <1>4, <2>1, BlocksFit
<1>7. Dotted(i, d)
  BY <1>1, <1>2, <1>3, <1>5 DEF Dotted
<1>8. DirLines(i, d) = {}
  <2>1. \A x \in BlockLines(i, 1, b) : FALSE
    BY <1>1, InBlockLines DEF Dots
  <2> QED BY <1>2, <1>3, <2>1 DEF DirLines
<1>9. LeavesThere(d)
  BY <1>2 DEF LeavesThere
<1> QED BY <1>1, <1>2, <1>3, <1>4, <1>6, <1>7, <1>8, <1>9 DEF DirShaped, DotDot, d

(***************************************************************************)
(* The tree of names.                                                      *)
(***************************************************************************)
(* The way up from what names a directory is the way up from it.           *)
LEMMA ParentIs ==
  ASSUME NEW D, NEW L, NEW up, TreeOf(D, L, up), NEW x \in L, x.ino \in D
  PROVE  x.ino # Root /\ up[x.ino] = x.dir
<1>1. x.ino \in D \ {Root}
  BY DEF TreeOf
<1>2. PICK y \in L : y.ino = x.ino /\ y.dir = up[x.ino]
  BY <1>1 DEF TreeOf
<1>3. y = x
  BY <1>2 DEF TreeOf, Unique
<1> QED BY <1>1, <1>2, <1>3

(* What a directory names is neither it nor what names it.                 *)
LEMMA ChildFacts ==
  ASSUME NEW D, NEW L, NEW up, TreeOf(D, L, up), NEW x \in L
  PROVE  x.ino # x.dir /\ x.ino # up[x.dir]
<1>1. x.ino # Root /\ x.dir \in D /\ up[Root] = Root /\ LeadUp(D, up)
  BY DEF TreeOf
<1>2. x.ino # x.dir
  <2> SUFFICES ASSUME x.ino = x.dir PROVE FALSE
    OBVIOUS
  <2>1. up[x.ino] = x.ino /\ x.ino \in D \ {Root}
    BY <1>1, ParentIs
  <2>2. \E z \in {x.ino} : up[z] \notin {x.ino}
    <3>1. {x.ino} \in SUBSET (D \ {Root}) /\ {x.ino} # {}
      BY <2>1
    <3> QED BY <1>1, <3>1 DEF LeadUp
  <2> QED BY <2>1, <2>2
<1>3. x.ino # up[x.dir]
  <2> SUFFICES ASSUME x.ino = up[x.dir] PROVE FALSE
    OBVIOUS
  <2>1. x.dir # Root
    BY <1>1
  <2>2. x.ino \in D
    BY <1>1 DEF TreeOf
  <2>3. up[x.ino] = x.dir
    BY <2>2, ParentIs
  <2>4. \E z \in {x.ino, x.dir} : up[z] \notin {x.ino, x.dir}
    <3>1. {x.ino, x.dir} \in SUBSET (D \ {Root}) /\ {x.ino, x.dir} # {}
      BY <1>1, <2>1, <2>2
    <3> QED BY <1>1, <3>1 DEF LeadUp
  <2> QED BY <2>3, <2>4
<1> QED BY <1>2, <1>3

\* a line that can be one more
NewLine(D, L, x) ==
  /\ x.dir \in D /\ x.ino \in Ino \ {Root} /\ x.name \in Name
  /\ \A y \in L : x.ino # y.ino /\ ~(x.dir = y.dir /\ x.name = y.name)

(* A new name for a new file.                                              *)
LEMMA TreeAdd ==
  ASSUME NEW D, NEW L, NEW up, TreeOf(D, L, up), NEW x, NewLine(D, L, x)
  PROVE  TreeOf(D, L \cup {x}, up)
<1>1. Unique(L \cup {x})
  BY DEF TreeOf, NewLine, Unique
<1> QED BY <1>1 DEF TreeOf, NewLine

(* And for a new directory.                                                *)
LEMMA TreeAddDir ==
  ASSUME NEW D, NEW L, NEW up, TreeOf(D, L, up), NEW x, NewLine(D, L, x),
         NEW up2, up2[x.ino] = x.dir, \A j \in D : up2[j] = up[j]
  PROVE  TreeOf(D \cup {x.ino}, L \cup {x}, up2)
<1> DEFINE i == x.ino
<1>1. Unique(L \cup {x})
  BY DEF TreeOf, NewLine, Unique
<1>2. i \notin D /\ i \in Ino \ {Root} /\ x.dir \in D
  BY DEF TreeOf, NewLine
<1>3. LeadUp(D \cup {i}, up2)
  <2> SUFFICES ASSUME NEW X \in SUBSET ((D \cup {i}) \ {Root}), X # {}
               PROVE  \E z \in X : up2[z] \notin X
    BY DEF LeadUp
  <2>1. CASE X \ {i} = {}
    BY <1>2, <2>1
  <2>2. CASE X \ {i} # {}
    <3>1. X \ {i} \in SUBSET (D \ {Root})
      OBVIOUS
    <3>2. PICK z \in X \ {i} : up[z] \notin X \ {i}
      BY <2>2, <3>1 DEF TreeOf, LeadUp
    <3>3. z \in D /\ up[z] \in D
      BY <3>1 DEF TreeOf
    <3> QED BY <1>2, <3>2, <3>3
  <2> QED BY <2>1, <2>2
<1>4. /\ D \cup {i} \subseteq Ino /\ Root \in D \cup {i} /\ up2[Root] = Root
      /\ \A p \in D \cup {i} : up2[p] \in D \cup {i}
  BY <1>2 DEF TreeOf
<1>5. \A y \in L \cup {x} : y.dir \in D \cup {i} /\ y.ino \in Ino \ {Root} /\ y.name \in Name
  BY DEF TreeOf, NewLine
<1>6. \A j \in (D \cup {i}) \ {Root} : \E y \in L \cup {x} : y.ino = j /\ y.dir = up2[j]
  BY <1>2 DEF TreeOf
<1> QED BY <1>1, <1>3, <1>4, <1>5, <1>6 DEF TreeOf

(* A file's name goes.                                                     *)
LEMMA TreeDrop ==
  ASSUME NEW D, NEW L, NEW up, TreeOf(D, L, up), NEW x \in L, x.ino \notin D
  PROVE  TreeOf(D, L \ {x}, up)
<1>1. Unique(L \ {x})
  BY DEF TreeOf, Unique
<1> QED BY <1>1 DEF TreeOf

(* So does a directory's that holds none.                                  *)
LEMMA TreeDropDir ==
  ASSUME NEW D, NEW L, NEW up, TreeOf(D, L, up), NEW x \in L, x.ino \in D,
         \A y \in L : y.dir # x.ino,
         NEW up2, \A j \in D \ {x.ino} : up2[j] = up[j]
  PROVE  TreeOf(D \ {x.ino}, L \ {x}, up2)
<1> DEFINE i == x.ino
<1>1. Unique(L \ {x})
  BY DEF TreeOf, Unique
<1>2. i # Root
  BY DEF TreeOf
<1>3. ASSUME NEW j \in D \ {i} PROVE up2[j] \in D \ {i}
  <2>1. CASE j = Root
    BY <1>2, <2>1 DEF TreeOf
  <2>2. CASE j # Root
    <3>1. PICK y \in L : y.ino = j /\ y.dir = up[j]
      BY <2>2 DEF TreeOf
    <3> QED BY <3>1 DEF TreeOf
  <2> QED BY <2>1, <2>2
<1>4. LeadUp(D \ {i}, up2)
  <2> SUFFICES ASSUME NEW X \in SUBSET ((D \ {i}) \ {Root}), X # {}
               PROVE  \E z \in X : up2[z] \notin X
    BY DEF LeadUp
  <2>1. X \in SUBSET (D \ {Root})
    OBVIOUS
  <2>2. PICK z \in X : up[z] \notin X
    BY <2>1 DEF TreeOf, LeadUp
  <2> QED BY <2>2
<1>5. \A j \in (D \ {i}) \ {Root} : \E y \in L \ {x} : y.ino = j /\ y.dir = up2[j]
  <2> SUFFICES ASSUME NEW j \in (D \ {i}) \ {Root} PROVE \E y \in L \ {x} : y.ino = j /\ y.dir = up2[j]
    OBVIOUS
  <2>1. PICK y \in L : y.ino = j /\ y.dir = up[j]
    BY DEF TreeOf
  <2> QED BY <2>1
<1>6. \A y \in L \ {x} : y.dir \in D \ {i} /\ y.ino \in Ino \ {Root} /\ y.name \in Name
  BY DEF TreeOf
<1>7. D \ {i} \subseteq Ino /\ Root \in D \ {i} /\ up2[Root] = Root
  BY <1>2 DEF TreeOf
<1> QED BY <1>1, <1>3, <1>4, <1>5, <1>6, <1>7 DEF TreeOf

(* A name changes, and perhaps the directory it is in.                     *)
LEMMA TreeMove ==
  ASSUME NEW D, NEW L, NEW up, TreeOf(D, L, up), NEW x \in L,
         NEW y, y.ino = x.ino, y.dir \in D, y.name \in Name,
         \A z \in L : ~(z.dir = y.dir /\ z.name = y.name),
         NEW up2, \A j \in D : up2[j] = IF j = x.ino THEN y.dir ELSE up[j],
         LeadUp(D, up2)
  PROVE  TreeOf(D, (L \ {x}) \cup {y}, up2)
<1> DEFINE M == (L \ {x}) \cup {y}
<1>1. Unique(M)
  BY DEF TreeOf, Unique
<1>2. x.ino # Root
  BY DEF TreeOf
<1>3. up2[Root] = Root /\ \A j \in D : up2[j] \in D
  BY <1>2 DEF TreeOf
<1>4. \A z \in M : z.dir \in D /\ z.ino \in Ino \ {Root} /\ z.name \in Name
  BY DEF TreeOf
<1>5. ASSUME NEW j \in D \ {Root} PROVE \E z \in M : z.ino = j /\ z.dir = up2[j]
  <2>1. CASE j = x.ino
    BY <2>1
  <2>2. CASE j # x.ino
    <3>1. PICK z \in L : z.ino = j /\ z.dir = up[j]
      BY DEF TreeOf
    <3> QED BY <2>2, <3>1
  <2> QED BY <2>1, <2>2
<1> HIDE DEF M
<1>6. TreeOf(D, M, up2)
  BY <1>1, <1>3, <1>4, <1>5 DEF TreeOf
<1> QED BY <1>6 DEF M

\* the walk up from q that stops at i
WalksUp(D, up, i, q, n, g) ==
  /\ g[0] = q
  /\ \A k \in 1 .. n : g[k] = IF g[k - 1] \in D \ {i, Root} THEN up[g[k - 1]] ELSE g[k - 1]

(* A directory can take below it what it does not come to on its way up.   *)
LEMMA MoveLeadsUp ==
  ASSUME NEW D, NEW L, NEW up, TreeOf(D, L, up), NEW i \in D \ {Root}, NEW q \in D,
         NEW n \in Nat, NEW g, WalksUp(D, up, i, q, n, g), g[n] \in {Root, 0},
         NEW up2, \A j \in D : up2[j] = IF j = i THEN q ELSE up[j]
  PROVE  LeadUp(D, up2)
<1> SUFFICES ASSUME NEW X \in SUBSET (D \ {Root}), X # {}, \A z \in X : up2[z] \in X
             PROVE  FALSE
  BY DEF LeadUp
<1>1. \A z \in X : z # i => up[z] \in X
  OBVIOUS
<1>2. i \in X
  BY <1>1 DEF TreeOf, LeadUp
<1>3. q \in X
  BY <1>2
<1>4. \A k \in 1 .. n : g[k - 1] \in X => g[k] \in X
  BY <1>1 DEF WalksUp
<1>5. g[0] \in X
  BY <1>3 DEF WalksUp
<1>6. g[n] \in X
  BY <1>4, <1>5, PathStays
<1>7. 0 \notin D
  BY DirectoryAssumption DEF TreeOf
<1> QED BY <1>6, <1>7

(* What leads up from a directory does not lead to what is below it.       *)
LEMMA NotUnder ==
  ASSUME NEW D, NEW L, NEW up, TreeOf(D, L, up), NEW i, i # Root, NEW q \in D,
         i \in D => up[i] = q
  PROVE  \E C \in SUBSET D : q \in C /\ i \notin C /\ \A z \in C : up[z] \in C
<1>1. CASE i \notin D
  BY <1>1 DEF TreeOf
<1>2. CASE i \in D
  <2> SUFFICES ASSUME \A C \in SUBSET D : q \in C /\ (\A z \in C : up[z] \in C) => i \in C
               PROVE  FALSE
    OBVIOUS
  <2> DEFINE Closed(C) == \A z \in C : up[z] \in C
             X == {z \in D : \A C \in SUBSET D : Closed(C) /\ z \in C => i \in C}
  <2>1. i \in X /\ q \in X
    BY <1>2
  <2>2. \A z \in D : up[z] \in D
    BY DEF TreeOf
  <2>3. ASSUME NEW z \in X PROVE up[z] \in X
    <3>1. CASE z = i
      BY <1>2, <2>1, <3>1
    <3>2. CASE z # i
      <4> SUFFICES ASSUME NEW C \in SUBSET D, Closed(C), up[z] \in C PROVE i \in C
        BY <2>2
      <4>1. C \cup {z} \in SUBSET D /\ Closed(C \cup {z})
        OBVIOUS
      <4>2. i \in C \cup {z}
        BY <4>1
      <4> QED BY <3>2, <4>2
    <3> QED BY <3>1, <3>2
  <2>4. Root \notin X
    <3>1. {Root} \in SUBSET D /\ Closed({Root})
      BY DEF TreeOf
    <3> QED BY <3>1
  <2>5. X \in SUBSET (D \ {Root}) /\ X # {}
    BY <2>1, <2>4
  <2> HIDE DEF X
  <2> QED BY <2>3, <2>5 DEF TreeOf, LeadUp
<1> QED BY <1>1, <1>2

(***************************************************************************)
(* What the listings of a volume's directories say.                        *)
(***************************************************************************)
\* directories as they should be, each for itself
ShapedDirs(ds) == ds = [p \in DOMAIN ds |-> ds[p]] /\ \A p \in DOMAIN ds : DirShaped(p, ds[p])

(* The lines of all directories are those of each.                         *)
LEMMA LinesIn ==
  ASSUME NEW ds
  PROVE  /\ \A x \in Lines(ds) : x.dir \in DOMAIN ds /\ x \in DirLines(x.dir, ds[x.dir])
         /\ \A p \in DOMAIN ds : \A x \in DirLines(p, ds[p]) : x \in Lines(ds) /\ x.dir = p
<1>1. ASSUME NEW p \in DOMAIN ds, NEW x \in DirLines(p, ds[p]) PROVE x \in Lines(ds) /\ x.dir = p
  <2>1. x.dir = p
    BY InDirLines, InBlockLines
  <2> QED BY <2>1 DEF Lines
<1>2. ASSUME NEW x \in Lines(ds) PROVE x.dir \in DOMAIN ds /\ x \in DirLines(x.dir, ds[x.dir])
  <2>1. PICK p \in DOMAIN ds : x \in DirLines(p, ds[p])
    BY DEF Lines
  <2> QED BY <1>1, <2>1
<1> QED BY <1>1, <1>2

\* a listing of a directory's records in use
ListsLive(d, s) ==
  /\ \A c \in Range(s) : \E k \in DOMAIN d.blks : \E o \in LiveAt(d.blks[k]) : c = d.blks[k][o]
  /\ \A k \in DOMAIN d.blks : \A o \in LiveAt(d.blks[k]) : d.blks[k][o] \in Range(s)

(* Every directory has one.                                                *)
LEMMA ListingShows ==
  ASSUME NEW ds, ShapedDirs(ds), NEW p \in DOMAIN ds
  PROVE  Listings(ds)[p] \in Seq(Record) /\ ListsLive(ds[p], Listings(ds)[p])
<1> DEFINE d == ds[p]
           ss == [k \in DOMAIN d.blks |-> Listed(d.blks[k])]
<1>1. Listings(ds)[p] = FlattenSeq(ss)
  BY DEF Listings
<1>2. d \in DirRecord /\ \A k \in DOMAIN d.blks : Fits(d, k, d.blks[k])
  BY ShapedIs DEF ShapedDirs
<1>3. \A k \in DOMAIN d.blks :
        /\ Listed(d.blks[k]) \in Seq(Record)
        /\ \A c : c \in Range(Listed(d.blks[k])) <=> \E o \in LiveAt(d.blks[k]) : c = d.blks[k][o]
  BY <1>2, ListedShows DEF Fits
<1>4. ss \in Seq(Seq(Record)) /\ DOMAIN ss = DOMAIN d.blks
  <2>1. d.blks \in Seq(RawBlock)
    BY <1>2 DEF DirRecord
  <2>2. Len(d.blks) \in Nat /\ DOMAIN d.blks = 1 .. Len(d.blks)
    BY <2>1, SeqElements
  <2> QED BY <1>3, <2>2
<1>5. \A k \in DOMAIN d.blks : ss[k] = Listed(d.blks[k])
  OBVIOUS
<1> HIDE DEF ss
<1>6. FlattenSeq(ss) \in Seq(Record) /\ \A c : c \in Range(FlattenSeq(ss)) <=> \E k \in DOMAIN ss : c \in Range(ss[k])
  BY <1>4, FlattenShows
<1>7. ASSUME NEW c
      PROVE  c \in Range(FlattenSeq(ss)) <=>
               \E k \in DOMAIN d.blks : \E o \in LiveAt(d.blks[k]) : c = d.blks[k][o]
  <2>1. c \in Range(FlattenSeq(ss)) <=> \E k \in DOMAIN d.blks : c \in Range(Listed(d.blks[k]))
    BY <1>4, <1>5, <1>6
  <2>2. ASSUME NEW k \in DOMAIN d.blks
        PROVE  c \in Range(Listed(d.blks[k])) <=> \E o \in LiveAt(d.blks[k]) : c = d.blks[k][o]
    BY <1>3
  <2> HIDE DEF d
  <2> QED BY <2>1, <2>2
<1>8. ListsLive(d, FlattenSeq(ss))
  <2> HIDE DEF d
  <2> QED BY <1>7 DEF ListsLive
<1> QED BY <1>1, <1>6, <1>8

\* what the lines of p say of a name
NameIn(L, p, n) == \E x \in L : x.dir = p /\ x.name = n

(* The names it lists are its lines.                                       *)
LEMMA ListedNames ==
  ASSUME NEW ds, ShapedDirs(ds), NEW p \in DOMAIN ds
  PROVE  /\ \A c \in Range(Listings(ds)[p]) : c.name \notin Dots =>
              \E x \in Lines(ds) : x.dir = p /\ x.name = c.name /\ x.ino = c.ino
         /\ \A x \in Lines(ds) : x.dir = p =>
              \E c \in Range(Listings(ds)[p]) : c.name = x.name /\ c.ino = x.ino /\ c.name \notin Dots
<1> DEFINE d == ds[p]
<1>1. /\ \A c \in Range(Listings(ds)[p]) :
           \E k \in DOMAIN d.blks : \E o \in LiveAt(d.blks[k]) : c = d.blks[k][o]
      /\ \A k \in DOMAIN d.blks : \A o \in LiveAt(d.blks[k]) : d.blks[k][o] \in Range(Listings(ds)[p])
  <2>1. Listings(ds)[p] \in Seq(Record) /\ ListsLive(d, Listings(ds)[p])
    BY ListingShows, Zenon
  <2> QED BY <2>1 DEF ListsLive
<1>2. ASSUME NEW c \in Range(Listings(ds)[p]), c.name \notin Dots
      PROVE  \E x \in Lines(ds) : x.dir = p /\ x.name = c.name /\ x.ino = c.ino
  <2>1. PICK k \in DOMAIN d.blks : \E o \in LiveAt(d.blks[k]) : c = d.blks[k][o]
    BY <1>1
  <2>2. PICK o \in LiveAt(d.blks[k]) : c = d.blks[k][o]
    BY <2>1
  <2> DEFINE x == Line(p, k, o, d.blks[k][o])
  <2>3. x \in DirLines(p, d)
    BY <1>2, <2>2, InBlockLines, InDirLines
  <2>4. x.dir = p /\ x.name = c.name /\ x.ino = c.ino
    BY <2>2, LineFields
  <2> HIDE DEF x
  <2> QED BY <2>3, <2>4, LinesIn
<1>3. ASSUME NEW x \in Lines(ds), x.dir = p
      PROVE  \E c \in Range(Listings(ds)[p]) : c.name = x.name /\ c.ino = x.ino /\ c.name \notin Dots
  <2>1. x \in DirLines(p, d)
    BY <1>3, LinesIn
  <2>2. x.blk \in DOMAIN d.blks /\ x \in BlockLines(p, x.blk, d.blks[x.blk])
    BY <2>1, InDirLines
  <2> DEFINE c == d.blks[x.blk][x.at]
  <2>3. x.at \in LiveAt(d.blks[x.blk]) /\ c.name \notin Dots /\ x.name = c.name /\ x.ino = c.ino
    BY <2>2, InBlockLines
  <2>4. c \in Range(Listings(ds)[p])
    BY <1>1, <2>2, <2>3
  <2> HIDE DEF c
  <2> QED BY <2>3, <2>4
<1> QED BY <1>2, <1>3

(* The first entry with one of some names.                                 *)
LEMMA FirstInoIs ==
  ASSUME NEW s \in Seq(Record), NEW names
  PROVE  IF \E c \in Range(s) : c.name \in names
         THEN \E c \in Range(s) : c.name \in names /\ FirstIno(s, names) = c.ino
         ELSE FirstIno(s, names) = 0
<1> DEFINE at == {k \in DOMAIN s : s[k].name \in names}
<1>1. FirstIno(s, names) = IF at = {} THEN 0 ELSE s[Min(at)].ino
  BY DEF FirstIno
<1>2. \A k \in DOMAIN s : s[k] \in Range(s) /\ k \in Nat
  BY DEF Range
<1>3. \A c \in Range(s) : \E k \in DOMAIN s : c = s[k]
  BY DEF Range
<1>4. CASE at = {}
  <2>1. \A c \in Range(s) : c.name \notin names
    BY <1>3, <1>4
  <2> QED BY <1>1, <1>4, <2>1
<1>5. CASE at # {}
  <2>1. Min(at) \in at
    <3>1. at \in SUBSET Nat
      BY <1>2
    <3> QED BY <1>5, <3>1, MinMax
  <2>2. s[Min(at)] \in Range(s) /\ s[Min(at)].name \in names
    BY <1>2, <2>1
  <2> HIDE DEF at
  <2> QED BY <1>1, <1>5, <2>2
<1> QED BY <1>4, <1>5

\* what a call with the path n takes in p, and when n is new there
Asked(L, x, n) == IF NameIn(L, x.dir, n) THEN x.name = n ELSE Alias[x.name] = Alias[n]
Fresh(L, p, n) == \A y \in L : y.dir = p => y.name # n /\ Alias[y.name] # Alias[n]

(* What the redirector's lookup finds is asked for, and what it does not   *)
(* find is new.                                                            *)
LEMMA ResolveIs ==
  ASSUME ShapedDirs(dirs), listing = Listings(dirs), NEW p \in DOMAIN dirs, NEW n \in Name,
         \A x \in Lines(dirs) : x.ino # 0 /\ x.name \in Name
  PROVE  /\ Resolve(p, n) # 0 =>
              \E x \in Lines(dirs) : x.dir = p /\ x.ino = Resolve(p, n) /\ Asked(Lines(dirs), x, n)
         /\ Resolve(p, n) = 0 => Fresh(Lines(dirs), p, n)
<1> DEFINE s == listing[p]
           L == Lines(dirs)
           aliases == {m \in Name : Alias[m] = Alias[n]}
<1>1. s \in Seq(Record)
  BY ListingShows
<1>2. /\ \A c \in Range(s) : c.name \notin Dots =>
           \E x \in L : x.dir = p /\ x.name = c.name /\ x.ino = c.ino
      /\ \A x \in L : x.dir = p =>
           \E c \in Range(s) : c.name = x.name /\ c.ino = x.ino /\ c.name \notin Dots
  BY ListedNames
<1>3. /\ Exact(p, n) = FirstIno(s, {n}) /\ ByAlias(p, n) = FirstIno(s, aliases)
      /\ Resolve(p, n) = IF Exact(p, n) # 0 THEN Exact(p, n) ELSE ByAlias(p, n)
  BY DEF Exact, ByAlias, Resolve
<1>4. /\ IF \E c \in Range(s) : c.name \in {n}
         THEN \E c \in Range(s) : c.name \in {n} /\ FirstIno(s, {n}) = c.ino
         ELSE FirstIno(s, {n}) = 0
      /\ IF \E c \in Range(s) : c.name \in aliases
         THEN \E c \in Range(s) : c.name \in aliases /\ FirstIno(s, aliases) = c.ino
         ELSE FirstIno(s, aliases) = 0
  <2> HIDE DEF s, aliases
  <2> QED BY <1>1, FirstInoIs
<1>5. \A m \in Name : m \notin Dots
  BY NameFacts, Zenon
<1>6. n \in aliases /\ \A m \in aliases : m \in Name /\ Alias[m] = Alias[n]
  OBVIOUS
<1>7. ASSUME NEW x \in L, x.dir = p, x.name \in aliases
      PROVE  /\ ByAlias(p, n) # 0
             /\ \E y \in L : y.dir = p /\ y.ino = ByAlias(p, n) /\ Alias[y.name] = Alias[n]
  <2> HIDE DEF s, aliases, L
  <2>1. \E c \in Range(s) : c.name \in aliases
    BY <1>2, <1>7
  <2>2. PICK c \in Range(s) : c.name \in aliases /\ ByAlias(p, n) = c.ino
    BY <1>3, <1>4, <2>1
  <2>3. PICK y \in L : y.dir = p /\ y.name = c.name /\ y.ino = c.ino
    BY <1>2, <1>5, <1>6, <2>2
  <2> QED BY <1>6, <2>2, <2>3 DEF L
<1>8. ASSUME NEW x \in L, x.dir = p, x.name = n
      PROVE  /\ Exact(p, n) # 0
             /\ \E y \in L : y.dir = p /\ y.ino = Exact(p, n) /\ y.name = n
  <2> HIDE DEF s, aliases, L
  <2>1. \E c \in Range(s) : c.name \in {n}
    BY <1>2, <1>8
  <2>2. PICK c \in Range(s) : c.name \in {n} /\ Exact(p, n) = c.ino
    BY <1>3, <1>4, <2>1
  <2>3. PICK y \in L : y.dir = p /\ y.name = c.name /\ y.ino = c.ino
    BY <1>2, <1>5, <2>2
  <2> QED BY <2>2, <2>3 DEF L
<1>9. ASSUME NEW c \in Range(s), c.name \in aliases
      PROVE  \E x \in L : x.dir = p /\ x.name \in aliases
  <2> HIDE DEF s, aliases, L
  <2> QED BY <1>2, <1>5, <1>6, <1>9
<1>10. ASSUME NEW c \in Range(s), c.name = n
       PROVE  \E x \in L : x.dir = p /\ x.name = n
  <2> HIDE DEF s, aliases, L
  <2> QED BY <1>2, <1>5, <1>10
<1>11. CASE NameIn(L, p, n)
  <2>1. PICK x \in L : x.dir = p /\ x.name = n
    BY <1>11 DEF NameIn
  <2>2. PICK y \in L : y.dir = p /\ y.ino = Exact(p, n) /\ y.name = n
    BY <1>8, <2>1
  <2>3. Exact(p, n) # 0
    BY <1>8, <2>1
  <2> QED BY <1>3, <1>11, <2>2, <2>3 DEF Asked
<1>12. CASE ~NameIn(L, p, n)
  <2>1. Exact(p, n) = 0
    BY <1>3, <1>4, <1>10, <1>12 DEF NameIn
  <2>2. CASE \E x \in L : x.dir = p /\ x.name \in aliases
    <3>1. PICK y \in L : y.dir = p /\ y.ino = ByAlias(p, n) /\ Alias[y.name] = Alias[n]
      BY <1>7, <2>2
    <3>2. ByAlias(p, n) # 0
      BY <1>7, <2>2
    <3> QED BY <1>3, <1>12, <2>1, <3>1, <3>2 DEF Asked
  <2>3. CASE \A x \in L : x.dir = p => x.name \notin aliases
    <3>1. ByAlias(p, n) = 0
      BY <1>3, <1>4, <1>9, <2>3
    <3> QED BY <1>3, <1>6, <2>1, <2>3, <3>1 DEF Fresh
  <2> QED BY <2>2, <2>3
<1> QED BY <1>11, <1>12

(***************************************************************************)
(* A volume some directories of which changed.                             *)
(***************************************************************************)
\* all directories stay, and differ in the lines they lose and gain
EditedDirs(ds, ds2, X, Y) ==
  /\ ShapedDirs(ds2) /\ DOMAIN ds2 = DOMAIN ds
  /\ Lines(ds2) = (Lines(ds) \ X) \cup Y
  /\ \A p \in DOMAIN ds : SameShape(ds[p], ds2[p])

\* as one of them does
EditOf(ds, p, d2, X, Y, ds2) ==
  /\ p \in DOMAIN ds /\ Edited(p, ds[p], d2, X, Y)
  /\ \A x \in X : x \in Lines(ds) /\ x.dir = p
  /\ ds2 = [ds EXCEPT ![p] = d2]

(* One directory is edited.                                                *)
LEMMA DirEdited ==
  ASSUME NEW ds, ShapedDirs(ds), NEW p, NEW d2, NEW X, NEW Y, NEW ds2, EditOf(ds, p, d2, X, Y, ds2)
  PROVE  /\ EditedDirs(ds, ds2, X, Y)
         /\ \A r \in DOMAIN ds : DotDot(ds2[r]) = DotDot(ds[r])
<1> USE DEF EditOf
<1>1. /\ DOMAIN ds2 = DOMAIN ds /\ ds2 = [r \in DOMAIN ds2 |-> ds2[r]]
      /\ ds2[p] = d2 /\ \A r \in DOMAIN ds \ {p} : ds2[r] = ds[r]
  BY DEF ShapedDirs
<1>2. /\ DirShaped(p, d2) /\ SameShape(ds[p], d2) /\ DotDot(d2) = DotDot(ds[p])
      /\ DirLines(p, d2) = (DirLines(p, ds[p]) \ X) \cup Y
  BY DEF Edited
<1>3. ShapedDirs(ds2)
  BY <1>1, <1>2 DEF ShapedDirs
<1>4. \A r \in DOMAIN ds : SameShape(ds[r], ds2[r]) /\ DotDot(ds2[r]) = DotDot(ds[r])
  <2>1. \A r : SameShape(ds[r], ds[r])
    BY DEF SameShape
  <2> QED BY <1>1, <1>2, <2>1
<1>5. /\ \A x \in Lines(ds) : x.dir \in DOMAIN ds /\ x \in DirLines(x.dir, ds[x.dir])
      /\ \A r \in DOMAIN ds : \A x \in DirLines(r, ds[r]) : x \in Lines(ds) /\ x.dir = r
  BY LinesIn
<1>6. /\ \A x \in Lines(ds2) : x.dir \in DOMAIN ds /\ x \in DirLines(x.dir, ds2[x.dir])
      /\ \A r \in DOMAIN ds : \A x \in DirLines(r, ds2[r]) : x \in Lines(ds2) /\ x.dir = r
  BY <1>1, LinesIn
<1>7. ASSUME NEW x \in Lines(ds2) PROVE x \in (Lines(ds) \ X) \cup Y
  <2>1. CASE x.dir = p
    BY <1>1, <1>2, <1>5, <1>6, <2>1
  <2>2. CASE x.dir # p
    BY <1>1, <1>5, <1>6, <2>2
  <2> QED BY <2>1, <2>2
<1>8. ASSUME NEW x \in Lines(ds) \ X PROVE x \in Lines(ds2)
  <2>1. CASE x.dir = p
    BY <1>1, <1>2, <1>5, <1>6, <2>1
  <2>2. CASE x.dir # p
    BY <1>1, <1>5, <1>6, <2>2
  <2> QED BY <2>1, <2>2
<1>9. \A y \in Y : y \in Lines(ds2)
  BY <1>1, <1>2, <1>6
<1> HIDE DEF ShapedDirs
<1>10. Lines(ds2) = (Lines(ds) \ X) \cup Y
  BY <1>7, <1>8, <1>9
<1> QED BY <1>1, <1>3, <1>4, <1>10 DEF EditedDirs

(* Where nothing is lost or gained the lines are the same.                 *)
LEMMA LinesSame ==
  ASSUME NEW ds, NEW ds2, DOMAIN ds2 = DOMAIN ds,
         \A p \in DOMAIN ds : DirLines(p, ds2[p]) = DirLines(p, ds[p])
  PROVE  Lines(ds2) = Lines(ds)
<1>1. \A x \in Lines(ds2) : x \in Lines(ds)
  BY LinesIn
<1>2. \A x \in Lines(ds) : x \in Lines(ds2)
  BY LinesIn
<1> QED BY <1>1, <1>2

\* a directory that moved leads up to q
IsRepointed(ds, i, q, ds2) ==
  ds2 = IF i \in DOMAIN ds THEN [ds EXCEPT ![i] = Repointed(ds[i], q)] ELSE ds

(* One directory gets another "..".                                        *)
LEMMA DirRepointed ==
  ASSUME NEW ds, ShapedDirs(ds), NEW i \in DOMAIN ds, NEW q \in Nat \ {0},
         NEW ds2, IsRepointed(ds, i, q, ds2)
  PROVE  /\ EditedDirs(ds, ds2, {}, {})
         /\ \A r \in DOMAIN ds : DotDot(ds2[r]) = IF r = i THEN q ELSE DotDot(ds[r])
<1> DEFINE d2 == Repointed(ds[i], q)
<1>1. DirShaped(i, d2) /\ SameShape(ds[i], d2) /\ DotDot(d2) = q /\ DirLines(i, d2) = DirLines(i, ds[i])
  BY RepointShows DEF ShapedDirs
<1>2. ds2 = [ds EXCEPT ![i] = d2]
  BY DEF IsRepointed
<1> HIDE DEF d2
<1>3. /\ DOMAIN ds2 = DOMAIN ds /\ ds2 = [r \in DOMAIN ds2 |-> ds2[r]]
      /\ ds2[i] = d2 /\ \A r \in DOMAIN ds \ {i} : ds2[r] = ds[r]
  BY <1>2 DEF ShapedDirs
<1>4. ShapedDirs(ds2)
  BY <1>1, <1>3 DEF ShapedDirs
<1>5. \A r : SameShape(ds[r], ds[r])
  BY DEF SameShape
<1>6. Lines(ds2) = Lines(ds)
  BY <1>1, <1>3, LinesSame
<1>7. Lines(ds2) = (Lines(ds) \ {}) \cup {}
  BY <1>6
<1> QED BY <1>1, <1>3, <1>4, <1>5, <1>7 DEF EditedDirs

(* A directory is added.                                                   *)
LEMMA DirAdded ==
  ASSUME NEW ds, ShapedDirs(ds), NEW i \in Nat \ {0}, i \notin DOMAIN ds, NEW p \in Nat \ {0},
         NEW ds2, ds2 = [k \in DOMAIN ds \cup {i} |-> IF k = i THEN NewDir(i, p) ELSE ds[k]]
  PROVE  /\ ShapedDirs(ds2) /\ DOMAIN ds2 = DOMAIN ds \cup {i} /\ Lines(ds2) = Lines(ds)
         /\ ds2[i] = NewDir(i, p) /\ \A r \in DOMAIN ds : ds2[r] = ds[r]
<1> DEFINE d == NewDir(i, p)
<1>1. DirShaped(i, d) /\ DirLines(i, d) = {}
  BY NewDirShows
<1> HIDE DEF d
<1>2. ds2 = [r \in DOMAIN ds \cup {i} |-> IF r = i THEN d ELSE ds[r]]
  BY DEF d
<1>3. /\ DOMAIN ds2 = DOMAIN ds \cup {i} /\ ds2 = [r \in DOMAIN ds2 |-> ds2[r]]
      /\ ds2[i] = d /\ \A r \in DOMAIN ds : ds2[r] = ds[r]
  BY <1>2
<1>4. ShapedDirs(ds2)
  BY <1>1, <1>3 DEF ShapedDirs
<1>5. \A x \in Lines(ds2) : x \in Lines(ds)
  BY <1>1, <1>3, LinesIn
<1>6. \A x \in Lines(ds) : x \in Lines(ds2)
  BY <1>3, LinesIn
<1> QED BY <1>3, <1>4, <1>5, <1>6 DEF d

(* A directory that holds no name is dropped.                              *)
LEMMA DirDropped ==
  ASSUME NEW ds, ShapedDirs(ds), NEW i \in DOMAIN ds, DirLines(i, ds[i]) = {},
         NEW ds2, ds2 = [k \in DOMAIN ds \ {i} |-> ds[k]]
  PROVE  /\ ShapedDirs(ds2) /\ DOMAIN ds2 = DOMAIN ds \ {i} /\ Lines(ds2) = Lines(ds)
         /\ \A r \in DOMAIN ds2 : ds2[r] = ds[r]
<1>1. /\ DOMAIN ds2 = DOMAIN ds \ {i} /\ ds2 = [r \in DOMAIN ds2 |-> ds2[r]]
      /\ \A r \in DOMAIN ds2 : ds2[r] = ds[r]
  OBVIOUS
<1>2. ShapedDirs(ds2)
  BY <1>1 DEF ShapedDirs
<1>3. \A x \in Lines(ds2) : x \in Lines(ds)
  BY <1>1, LinesIn
<1>4. \A x \in Lines(ds) : x \in Lines(ds2)
  BY <1>1, LinesIn
<1> QED BY <1>1, <1>2, <1>3, <1>4

(***************************************************************************)
(* Leaves and blocks of directories that change.                           *)
(***************************************************************************)
\* a line in the leaf of its hash, or in a directory without an index of one level
InLeaf(ds, x) ==
  ds[x.dir].hashed /\ ds[x.dir].levels = 0 => Covers(ds[x.dir], x.blk, Hash[x.name])

(* What DirInv says of leaves, line by line.                               *)
LEMMA ByHashIs ==
  ASSUME NEW ds, NEW e
  PROVE  ByHash(ds, e) <=> \A x \in Lines(ds) : x.ino \in e \/ InLeaf(ds, x)
<1>1. ASSUME ByHash(ds, e), NEW x \in Lines(ds), x.ino \notin e PROVE InLeaf(ds, x)
  <2>1. x.dir \in DOMAIN ds /\ x \in DirLines(x.dir, ds[x.dir])
    BY LinesIn
  <2> QED BY <1>1, <2>1 DEF ByHash, InLeaf
<1>2. ASSUME \A x \in Lines(ds) : x.ino \in e \/ InLeaf(ds, x),
             NEW p \in DOMAIN ds, ds[p].hashed, ds[p].levels = 0, NEW x \in DirLines(p, ds[p])
      PROVE  x.ino \in e \/ Covers(ds[p], x.blk, Hash[x.name])
  <2>1. x \in Lines(ds) /\ x.dir = p
    BY LinesIn
  <2> QED BY <1>2, <2>1 DEF InLeaf
<1> QED BY <1>1, <1>2 DEF ByHash

(* An edit keeps what it does not touch where it is.                       *)
LEMMA HashKept ==
  ASSUME NEW ds, NEW ds2, NEW X, NEW Y, EditedDirs(ds, ds2, X, Y), NEW e, ByHash(ds, e), NEW e2,
         \A x \in Lines(ds) \ X : x.ino \in e => x.ino \in e2,
         \A y \in Y : y.ino \in e2 \/ InLeaf(ds, y)
  PROVE  ByHash(ds2, e2)
<1>1. ASSUME NEW x \in Lines(ds2) PROVE x.ino \in e2 \/ InLeaf(ds2, x)
  <2>1. x.dir \in DOMAIN ds
    BY LinesIn DEF EditedDirs
  <2>2. SameShape(ds[x.dir], ds2[x.dir])
    BY <2>1 DEF EditedDirs
  <2>3. InLeaf(ds, x) => InLeaf(ds2, x)
    <3>1. Covers(ds[x.dir], x.blk, Hash[x.name]) => Covers(ds2[x.dir], x.blk, Hash[x.name])
      BY <2>2, ShapeKept
    <3>2. ds2[x.dir].hashed = ds[x.dir].hashed /\ ds2[x.dir].levels = ds[x.dir].levels
      BY <2>2 DEF SameShape
    <3> QED BY <3>1, <3>2 DEF InLeaf
  <2>4. x \in Lines(ds) \ X \/ x \in Y
    BY DEF EditedDirs
  <2>5. x \in Lines(ds) \ X => x.ino \in e2 \/ InLeaf(ds, x)
    BY ByHashIs
  <2> QED BY <2>3, <2>4, <2>5
<1> QED BY <1>1, ByHashIs

(* And no directory's number of blocks.                                    *)
LEMMA BlocksKept ==
  ASSUME NEW ds, NEW ds2, NEW X, NEW Y, EditedDirs(ds, ds2, X, Y), OneBlockEach(ds)
  PROVE  OneBlockEach(ds2)
  BY DEF EditedDirs, SameShape, OneBlockEach

(***************************************************************************)
(* What each call does.                                                    *)
(***************************************************************************)
Good(ds, e) == SoundDirs(ds) /\ OneBlockEach(ds) /\ ByHash(ds, e)

(* What is sound of directories and lines.                                 *)
LEMMA SoundFacts ==
  ASSUME NEW ds, SoundDirs(ds)
  PROVE  /\ ShapedDirs(ds) /\ TreeOf(DOMAIN ds, Lines(ds), Ups(ds))
         /\ \A p \in DOMAIN ds : p \in Nat \ {0} /\ DirShaped(p, ds[p]) /\ Ups(ds)[p] = DotDot(ds[p])
         /\ \A x \in Lines(ds) : /\ x.dir \in DOMAIN ds /\ x.ino \in Ino \ {Root} /\ x.ino \in Nat \ {0}
                                 /\ x.name \in Name /\ OnlyLine(x.dir, ds[x.dir], x)
<1>1. ShapedDirs(ds) /\ TreeOf(DOMAIN ds, Lines(ds), Ups(ds))
  BY DEF SoundDirs, ShapedDirs
<1>2. Ino \subseteq Nat \ {0}
  BY DirectoryAssumption
<1>3. \A p \in DOMAIN ds : p \in Nat \ {0} /\ DirShaped(p, ds[p]) /\ Ups(ds)[p] = DotDot(ds[p])
  BY <1>1, <1>2 DEF ShapedDirs, TreeOf, Ups
<1>4. ASSUME NEW x \in Lines(ds)
      PROVE  /\ x.dir \in DOMAIN ds /\ x.ino \in Ino \ {Root} /\ x.ino \in Nat \ {0} /\ x.name \in Name
             /\ OnlyLine(x.dir, ds[x.dir], x)
  <2>1. x.dir \in DOMAIN ds /\ x.ino \in Ino \ {Root} /\ x.name \in Name
    BY <1>1 DEF TreeOf
  <2>2. x.ino # x.dir /\ x.ino # Ups(ds)[x.dir]
    BY <1>1, ChildFacts
  <2>3. \A y \in DirLines(x.dir, ds[x.dir]) : y.ino = x.ino => y = x
    <3>1. \A y \in DirLines(x.dir, ds[x.dir]) : y \in Lines(ds)
      BY <2>1, LinesIn
    <3> QED BY <1>1, <3>1 DEF TreeOf, Unique
  <2>4. x \in DirLines(x.dir, ds[x.dir])
    BY LinesIn
  <2> QED BY <1>2, <1>3, <2>1, <2>2, <2>3, <2>4 DEF OnlyLine
<1> QED BY <1>1, <1>3, <1>4

(* The least of the places for a name is one of them.                      *)
LEMMA PlaceFound ==
  ASSUME NEW p, NEW d, DirShaped(p, d), NEW n \in Name
  PROVE  /\ NewPlaces(d, n) # {} => Min(NewPlaces(d, n)) \in NewPlaces(d, n)
         /\ MovePlaces(d, n) # {} => Min(MovePlaces(d, n)) \in MovePlaces(d, n)
<1>1. \A k \in AnyPlace(d, n) : k \in Nat
  BY PlaceFacts, ShapedIs
<1>2. NewPlaces(d, n) \in SUBSET Nat /\ MovePlaces(d, n) \in SUBSET Nat
  BY <1>1 DEF AnyPlace
<1> QED BY <1>2, MinMax

\* an entry is put into a block of p, taken from one of the blocks H
IsPut(ds, p, k, n, i, ds2) ==
  /\ p \in DOMAIN ds /\ k \in AnyPlace(ds[p], n)
  /\ ds2 = [ds EXCEPT ![p] = Put(ds[p], k, n, i)]
IsTaken(ds, p, H, i, ds2) ==
  /\ H # {} /\ H \subseteq Holding(ds[p], i)
  /\ ds2 = [ds EXCEPT ![p] = TakeOut(ds[p], Min(H), i)]

\* the line that makes
PutLine(ds, p, n, i, ds2, x) ==
  /\ x.dir = p /\ x.name = n /\ x.ino = i
  /\ EditedDirs(ds, ds2, {}, {x}) /\ InLeaf(ds, x)
  /\ \A r \in DOMAIN ds : DotDot(ds2[r]) = DotDot(ds[r])

(* An entry is put into a directory.                                       *)
LEMMA PutDirs ==
  ASSUME NEW ds, ShapedDirs(ds), NEW p, NEW n \in Name, NEW i \in Nat \ {0}, NEW k,
         NEW ds2, IsPut(ds, p, k, n, i, ds2)
  PROVE  \E x : PutLine(ds, p, n, i, ds2, x)
<1> DEFINE d == ds[p]
           d2 == Put(d, k, n, i)
<1>1. DirShaped(p, d) /\ p \in DOMAIN ds /\ k \in AnyPlace(d, n)
  BY DEF ShapedDirs, IsPut
<1>2. PICK x : Edited(p, d, d2, {}, {x}) /\ x.dir = p /\ x.blk = k /\ x.name = n /\ x.ino = i
  <2> HIDE DEF d
  <2> QED BY <1>1, PutShows
<1>3. d.hashed => d.levels = 0 /\ Covers(d, k, Hash[n])
  BY <1>1, PlaceFacts
<1>4. InLeaf(ds, x)
  BY <1>2, <1>3 DEF InLeaf
<1>5. EditOf(ds, p, d2, {}, {x}, ds2)
  BY <1>1, <1>2 DEF EditOf, IsPut
<1> HIDE DEF d2
<1>6. EditedDirs(ds, ds2, {}, {x}) /\ \A r \in DOMAIN ds : DotDot(ds2[r]) = DotDot(ds[r])
  BY <1>5, DirEdited
<1> QED BY <1>2, <1>4, <1>6 DEF PutLine

(* An entry is taken out of its directory.                                 *)
LEMMA TakeDirs ==
  ASSUME NEW ds, SoundDirs(ds), NEW x \in Lines(ds), NEW H, NEW ds2, IsTaken(ds, x.dir, H, x.ino, ds2)
  PROVE  EditedDirs(ds, ds2, {x}, {}) /\ \A r \in DOMAIN ds : DotDot(ds2[r]) = DotDot(ds[r])
<1> DEFINE p == x.dir
           d == ds[p]
           d2 == TakeOut(d, x.blk, x.ino)
<1>1. p \in DOMAIN ds /\ DirShaped(p, d) /\ OnlyLine(p, d, x) /\ x.ino \in Nat \ {0} /\ ShapedDirs(ds)
  BY SoundFacts
<1>2. Min(H) = x.blk
  <2>1. Holding(d, x.ino) = {x.blk} /\ x.blk \in Nat
    BY <1>1, HoldingIs, ShapedIs
  <2>2. H = {x.blk} /\ {x.blk} \in SUBSET Nat
    BY <2>1 DEF IsTaken
  <2> QED BY <2>2, MinMax
<1>3. Edited(p, d, d2, {x}, {})
  BY <1>1, TakeOutShows
<1>4. EditOf(ds, p, d2, {x}, {}, ds2)
  BY <1>1, <1>2, <1>3 DEF EditOf, IsTaken
<1> HIDE DEF d2, p
<1> QED BY <1>1, <1>4, DirEdited

\* a call adds a name, drops one, or changes one and perhaps its directory
Adds(D, L, D2, L2) ==
  \E x : /\ NewLine(D, L, x) /\ Fresh(L, x.dir, x.name)
         /\ L2 = L \cup {x} /\ D2 \in {D, D \cup {x.ino}}
Drops(D, L, D2, L2, n) ==
  \E x \in L : /\ Asked(L, x, n) /\ L2 = L \ {x}
               /\ \/ x.ino \notin D /\ D2 = D
                  \/ x.ino \in D /\ (\A y \in L : y.dir # x.ino) /\ D2 = D \ {x.ino}
Moves(D, L, D2, L2, n) ==
  \E x, y : /\ x \in L /\ Asked(L, x, n) /\ Fresh(L, y.dir, y.name)
            /\ y.dir \in D /\ y.name \in Name /\ y.ino = x.ino
            /\ y.dir = x.dir => SamePlace(x, y)
            /\ L2 = (L \ {x}) \cup {y} /\ D2 = D
            /\ \E C \in SUBSET D : /\ y.dir \in C /\ x.ino \notin C
                                   /\ \A z \in L : z.ino \in C => z.dir \in C

(* Edited directories whose tree is one are sound.                         *)
LEMMA SoundIs ==
  ASSUME NEW ds, ShapedDirs(ds), TreeOf(DOMAIN ds, Lines(ds), Ups(ds))
  PROVE  SoundDirs(ds)
  BY DEF SoundDirs, ShapedDirs

(* The ways up that count are those from directories.                      *)
LEMMA TreeUps ==
  ASSUME NEW D, NEW L, NEW up, TreeOf(D, L, up), NEW up2, \A j \in D : up2[j] = up[j]
  PROVE  TreeOf(D, L, up2)
<1>1. LeadUp(D, up2)
  <2> SUFFICES ASSUME NEW X \in SUBSET (D \ {Root}), X # {} PROVE \E z \in X : up2[z] \notin X
    BY DEF LeadUp
  <2>1. PICK z \in X : up[z] \notin X
    BY DEF TreeOf, LeadUp
  <2> QED BY <2>1
<1> QED BY <1>1 DEF TreeOf

(* A volume is sound when its lines and ways up are a tree.                *)
LEMMA SoundFrom ==
  ASSUME NEW ds, ShapedDirs(ds), NEW D, NEW L, NEW up, TreeOf(D, L, up), DOMAIN ds = D, Lines(ds) = L,
         \A j \in D : DotDot(ds[j]) = up[j]
  PROVE  SoundDirs(ds)
<1>1. \A j \in D : Ups(ds)[j] = up[j]
  BY DEF Ups
<1>2. TreeOf(D, L, Ups(ds))
  BY <1>1, TreeUps
<1> QED BY <1>2, SoundIs

\* what a line tells of a name
Entry(x) == [dir |-> x.dir, name |-> x.name, ino |-> x.ino]
Told(L) == {Entry(x) : x \in L}

\* the tree in some directories and what they list
Tree2(ds, ls) ==
  UNION {{[dir |-> p, name |-> c.name, ino |-> c.ino] :
            c \in {b \in Range(ls[p]) : b.name \notin Dots}} : p \in DOMAIN ds}

(* It is told by their lines.                                              *)
LEMMA TreeTold ==
  ASSUME NEW ds, ShapedDirs(ds)
  PROVE  Tree2(ds, Listings(ds)) = Told(Lines(ds))
<1> DEFINE L == Lines(ds)
           ls == Listings(ds)
           At2(p) == {b \in Range(ls[p]) : b.name \notin Dots}
<1>1. ASSUME NEW e \in Tree2(ds, ls) PROVE e \in Told(L)
  <2>1. PICK p \in DOMAIN ds : e \in {[dir |-> p, name |-> c.name, ino |-> c.ino] : c \in At2(p)}
    BY DEF Tree2
  <2>2. PICK c \in At2(p) : e = [dir |-> p, name |-> c.name, ino |-> c.ino]
    BY <2>1
  <2>3. PICK x \in L : x.dir = p /\ x.name = c.name /\ x.ino = c.ino
    BY <2>2, ListedNames
  <2> QED BY <2>2, <2>3 DEF Told, Entry
<1>2. ASSUME NEW e \in Told(L) PROVE e \in Tree2(ds, ls)
  <2>1. PICK x \in L : e = Entry(x)
    BY DEF Told
  <2>2. x.dir \in DOMAIN ds
    BY LinesIn
  <2>3. PICK c \in Range(ls[x.dir]) : c.name = x.name /\ c.ino = x.ino /\ c.name \notin Dots
    BY <2>2, ListedNames
  <2>4. c \in At2(x.dir) /\ e = [dir |-> x.dir, name |-> c.name, ino |-> c.ino]
    BY <2>1, <2>3 DEF Entry
  <2> HIDE DEF ls
  <2> QED BY <2>2, <2>4 DEF Tree2
<1> QED BY <1>1, <1>2

(* So is the tree a reader sees.                                           *)
LEMMA TreeIs ==
  ASSUME ShapedDirs(dirs), listing = Listings(dirs)
  PROVE  Tree = Told(Lines(dirs)) /\ Named = {x.ino : x \in Lines(dirs)}
<1> DEFINE L == Lines(dirs)
<1>1. Tree = Told(L)
  <2>1. Tree = Tree2(dirs, listing)
    BY DEF Tree, Tree2, Entries
  <2> QED BY <2>1, TreeTold
<1>2. Named = {x.ino : x \in L}
  <2> HIDE DEF L
  <2>1. \A x \in L : Entry(x).ino = x.ino
    BY DEF Entry
  <2>2. Named = {e.ino : e \in Told(L)}
    BY <1>1 DEF Named
  <2> QED BY <2>1, <2>2 DEF Told
<1> QED BY <1>1, <1>2

(* The inode a new file gets has no name yet.                              *)
LEMMA UnusedIs ==
  ASSUME ShapedDirs(dirs), listing = Listings(dirs), UnusedInos # {}
  PROVE  /\ Min(UnusedInos) \in Ino \ {Root} /\ Min(UnusedInos) \in Nat \ {0}
         /\ \A x \in Lines(dirs) : x.ino # Min(UnusedInos)
<1>1. UnusedInos \in SUBSET Nat /\ Ino \subseteq Nat \ {0}
  BY DirectoryAssumption DEF UnusedInos
<1>2. Min(UnusedInos) \in UnusedInos
  BY <1>1, MinMax
<1> QED BY <1>1, <1>2, TreeIs DEF UnusedInos

(* The walk up goes where ".." leads.                                      *)
LEMMA WalkUpIs ==
  ASSUME NEW D, D = DOMAIN dirs, NEW up, \A j \in D : up[j] \in D /\ up[j] = DotDot(dirs[j]),
         NEW i, NEW q \in D
  PROVE  /\ Cardinality(Ino) \in Nat
         /\ \E g : WalksUp(D, up, i, q, Cardinality(Ino), g) /\ g[Cardinality(Ino)] = WalkUp(i, q)
<1> DEFINE n == Cardinality(Ino)
           upper == [z \in D |-> IF z \in D \ {i, Root} THEN up[z] ELSE z]
           Step(f) == [k \in 0 .. n |->
                        IF k = 0 THEN q
                        ELSE IF f[k - 1] \in DOMAIN dirs \ {i, Root} THEN DotDot(dirs[f[k - 1]])
                             ELSE f[k - 1]]
           way == CHOOSE f : f = Step(f)
<1>1. WalkUp(i, q) = way[n]
  BY DEF WalkUp
<1>2. n \in Nat /\ n \in 0 .. n /\ 0 \in 0 .. n
  BY DirectoryAssumption, FS_CardinalityType
<1>3. upper \in [D -> D] /\ \A z \in D : upper[z] = IF z \in D \ {i, Root} THEN DotDot(dirs[z]) ELSE z
  OBVIOUS
<1> HIDE DEF upper, n
<1>4. PICK g : PathIn(g, D, upper, q, n)
  BY <1>2, <1>3, PathExists
<1>5. \A k \in 0 .. n : k # 0 => g[k - 1] \in D
  <2> SUFFICES ASSUME NEW k \in 0 .. n, k # 0 PROVE g[k - 1] \in D
    OBVIOUS
  <2>1. k - 1 \in 0 .. n
    BY <1>2
  <2> QED BY <2>1, <1>4 DEF PathIn
<1>6. g = Step(g)
  <2>1. g = [k \in 0 .. n |-> g[k]]
    BY <1>4 DEF PathIn
  <2>2. \A k \in 0 .. n : g[k] = IF k = 0 THEN q
                                 ELSE IF g[k - 1] \in DOMAIN dirs \ {i, Root} THEN DotDot(dirs[g[k - 1]])
                                      ELSE g[k - 1]
    BY <1>3, <1>4, <1>5 DEF PathIn
  <2> QED BY <2>1, <2>2
<1>7. way = Step(way)
  <2> HIDE DEF Step
  <2> QED BY <1>6
<1> HIDE DEF way
<1>8. \A k \in 0 .. n : way[k] = IF k = 0 THEN q
                                 ELSE IF way[k - 1] \in DOMAIN dirs \ {i, Root} THEN DotDot(dirs[way[k - 1]])
                                      ELSE way[k - 1]
  BY <1>7
<1>9. WalksUp(D, up, i, q, n, way)
  <2>1. way[0] = q
    BY <1>2, <1>8
  <2>2. ASSUME NEW k \in 1 .. n
        PROVE  way[k] = IF way[k - 1] \in D \ {i, Root} THEN up[way[k - 1]] ELSE way[k - 1]
    <3>1. k \in 0 .. n /\ k # 0
      BY <1>2
    <3> QED BY <1>8, <3>1
  <2> QED BY <2>1, <2>2 DEF WalksUp
<1> QED BY <1>1, <1>2, <1>9 DEF n

(* A directory of one block that looks empty holds no name.                *)
LEMMA LooksEmptyIs ==
  ASSUME NEW i, NEW d, DirShaped(i, d), Len(d.blks) = 1, LooksEmpty(d)
  PROVE  DirLines(i, d) = {}
<1>1. DOMAIN d.blks = {1}
  BY ShapedIs DEF DirRecord
<1>2. ASSUME NEW x \in DirLines(i, d) PROVE FALSE
  <2>1. x.blk = 1 /\ x \in BlockLines(i, 1, d.blks[1])
    BY <1>1, InDirLines
  <2>2. x.at \in LiveAt(d.blks[1]) /\ d.blks[1][x.at].name \notin Dots
    BY <2>1, InBlockLines
  <2>3. x.at \in Records(d.blks[1]) /\ d.blks[1][x.at].ino # 0
    BY <2>2, SentinelFields DEF LiveAt, At, Records
  <2> QED BY <2>2, <2>3 DEF LooksEmpty
<1> QED BY <1>2

(* Creating a file.                                                        *)
LEMMA CreateShows ==
  ASSUME Good(dirs, misplaced), listing = Listings(dirs), NEW p \in DOMAIN dirs, NEW n \in Name,
         Create(p, n)
  PROVE  /\ Good(dirs', misplaced')
         /\ Adds(DOMAIN dirs, Lines(dirs), DOMAIN dirs', Lines(dirs'))
<1> DEFINE D == DOMAIN dirs
           L == Lines(dirs)
           i == Min(UnusedInos)
           k == Min(NewPlaces(dirs[p], n))
<1>1. /\ ShapedDirs(dirs) /\ TreeOf(D, L, Ups(dirs)) /\ DirShaped(p, dirs[p])
      /\ \A j \in D : Ups(dirs)[j] = DotDot(dirs[j])
      /\ \A x \in L : x.ino # 0 /\ x.name \in Name
  BY SoundFacts DEF Good
<1>2. Fresh(L, p, n)
  BY <1>1, ResolveIs DEF Create, Absent
<1>3. i \in Ino \ {Root} /\ i \in Nat \ {0} /\ \A x \in L : x.ino # i
  BY <1>1, UnusedIs DEF Create
<1>4. IsPut(dirs, p, k, n, i, dirs') /\ misplaced' = misplaced
  <2>1. k \in AnyPlace(dirs[p], n)
    BY <1>1, PlaceFound DEF Create, AnyPlace
  <2>2. dirs' = [dirs EXCEPT ![p] = Put(dirs[p], k, n, i)] /\ misplaced' = misplaced
    BY DEF Create
  <2> QED BY <2>1, <2>2 DEF IsPut
<1> HIDE DEF D, L, i, k
<1>5. PICK x : /\ x.dir = p /\ x.name = n /\ x.ino = i
               /\ EditedDirs(dirs, dirs', {}, {x}) /\ InLeaf(dirs, x)
               /\ \A r \in DOMAIN dirs : DotDot(dirs'[r]) = DotDot(dirs[r])
  <2>1. \E x : PutLine(dirs, p, n, i, dirs', x)
    BY <1>1, <1>3, <1>4, PutDirs
  <2> QED BY <2>1 DEF PutLine
<1>6. NewLine(D, L, x) /\ Fresh(L, x.dir, x.name)
  BY <1>2, <1>3, <1>5 DEF NewLine, Fresh, D
<1>7. DOMAIN dirs' = D /\ Lines(dirs') = L \cup {x} /\ ShapedDirs(dirs')
  BY <1>5 DEF EditedDirs, D, L
<1>8. TreeOf(D, L \cup {x}, Ups(dirs))
  BY <1>1, <1>6, TreeAdd
<1>9. SoundDirs(dirs')
  <2>1. \A j \in D : DotDot(dirs'[j]) = Ups(dirs)[j]
    BY <1>1, <1>5 DEF D
  <2> QED BY <1>7, <1>8, <2>1, SoundFrom
<1>10. ByHash(dirs', misplaced')
  <2>1. ByHash(dirs, misplaced)
    BY DEF Good
  <2>2. /\ \A y \in Lines(dirs) \ {} : y.ino \in misplaced => y.ino \in misplaced'
        /\ \A y \in {x} : y.ino \in misplaced' \/ InLeaf(dirs, y)
    BY <1>4, <1>5
  <2> QED BY <1>5, <2>1, <2>2, HashKept
<1>11. OneBlockEach(dirs')
  BY <1>5, BlocksKept DEF Good
<1>12. Adds(D, L, DOMAIN dirs', Lines(dirs'))
  BY <1>6, <1>7 DEF Adds
<1> QED BY <1>9, <1>10, <1>11, <1>12 DEF Good, D, L

(* Creating a directory.                                                   *)
LEMMA MkdirShows ==
  ASSUME Good(dirs, misplaced), listing = Listings(dirs), NEW p \in DOMAIN dirs, NEW n \in Name,
         Mkdir(p, n)
  PROVE  /\ Good(dirs', misplaced')
         /\ Adds(DOMAIN dirs, Lines(dirs), DOMAIN dirs', Lines(dirs'))
<1> DEFINE D == DOMAIN dirs
           L == Lines(dirs)
           i == Min(UnusedInos)
           k == Min(NewPlaces(dirs[p], n))
           put == [dirs EXCEPT ![p] = Put(dirs[p], k, n, i)]
<1>1. /\ ShapedDirs(dirs) /\ TreeOf(D, L, Ups(dirs)) /\ DirShaped(p, dirs[p]) /\ p \in Nat \ {0}
      /\ \A j \in D : Ups(dirs)[j] = DotDot(dirs[j])
      /\ \A x \in L : x.ino # 0 /\ x.name \in Name
  BY SoundFacts DEF Good
<1>2. Fresh(L, p, n)
  BY <1>1, ResolveIs DEF Mkdir, Absent
<1>3. i \in Ino \ {Root} /\ i \in Nat \ {0} /\ \A x \in L : x.ino # i
  BY <1>1, UnusedIs DEF Mkdir
<1>4. IsPut(dirs, p, k, n, i, put)
  <2>1. k \in AnyPlace(dirs[p], n)
    BY <1>1, PlaceFound DEF Mkdir, AnyPlace
  <2> QED BY <2>1 DEF IsPut
<1>5. misplaced' = misplaced /\ dirs' = [r \in D \cup {i} |-> IF r = i THEN NewDir(i, p) ELSE put[r]]
  BY DEF Mkdir, NewDir
<1>6. DOMAIN put = D
  OBVIOUS
<1> HIDE DEF D, L, i, k, put
<1>7. PICK x : /\ x.dir = p /\ x.name = n /\ x.ino = i
               /\ EditedDirs(dirs, put, {}, {x}) /\ InLeaf(dirs, x)
               /\ \A r \in DOMAIN dirs : DotDot(put[r]) = DotDot(dirs[r])
  <2>1. \E x : PutLine(dirs, p, n, i, put, x)
    BY <1>1, <1>3, <1>4, PutDirs
  <2> QED BY <2>1 DEF PutLine
<1>8. NewLine(D, L, x) /\ Fresh(L, x.dir, x.name)
  BY <1>2, <1>3, <1>7 DEF NewLine, Fresh, D
<1>9. Lines(put) = L \cup {x} /\ ShapedDirs(put)
  BY <1>7 DEF EditedDirs, L
<1>10. i \notin D
  BY <1>1, <1>3 DEF TreeOf
<1>11. /\ ShapedDirs(dirs') /\ DOMAIN dirs' = D \cup {i} /\ Lines(dirs') = L \cup {x}
       /\ dirs'[i] = NewDir(i, p) /\ \A r \in D : dirs'[r] = put[r]
  <2>1. i \notin DOMAIN put /\ dirs' = [r \in DOMAIN put \cup {i} |-> IF r = i THEN NewDir(i, p) ELSE put[r]]
    BY <1>5, <1>6, <1>10
  <2> QED BY <1>1, <1>3, <1>6, <1>9, <2>1, DirAdded
<1>12. DotDot(NewDir(i, p)) = p /\ ~NewDir(i, p).hashed /\ Len(NewDir(i, p).blks) = 1
  BY <1>1, <1>3, NewDirShows
<1>13. SoundDirs(dirs')
  <2> DEFINE up == [r \in D \cup {i} |-> IF r = i THEN p ELSE Ups(dirs)[r]]
  <2>1. up[x.ino] = x.dir /\ \A j \in D : up[j] = Ups(dirs)[j]
    BY <1>7, <1>10
  <2>2. \A j \in D \cup {i} : DotDot(dirs'[j]) = up[j]
    BY <1>1, <1>7, <1>11, <1>12 DEF D
  <2> HIDE DEF up
  <2>3. TreeOf(D \cup {i}, L \cup {x}, up)
    BY <1>1, <1>7, <1>8, <2>1, TreeAddDir
  <2> QED BY <1>11, <2>2, <2>3, SoundFrom
<1>14. ByHash(dirs', misplaced')
  <2>1. ByHash(dirs, misplaced)
    BY DEF Good
  <2>2. /\ \A y \in Lines(dirs) \ {} : y.ino \in misplaced => y.ino \in misplaced'
        /\ \A y \in {x} : y.ino \in misplaced' \/ InLeaf(dirs, y)
    BY <1>5, <1>7
  <2>3. ByHash(put, misplaced')
    BY <1>7, <2>1, <2>2, HashKept
  <2>4. \A y \in Lines(dirs') : y.dir \in D /\ (y.ino \in misplaced' \/ InLeaf(put, y))
    <3>1. \A y \in Lines(put) : y.dir \in DOMAIN put /\ (y.ino \in misplaced' \/ InLeaf(put, y))
      BY <2>3, ByHashIs, LinesIn
    <3> QED BY <3>1, <1>6, <1>9, <1>11
  <2>5. \A y \in Lines(dirs') : y.ino \in misplaced' \/ InLeaf(dirs', y)
    BY <1>11, <2>4 DEF InLeaf
  <2> QED BY <2>5, ByHashIs
<1>15. OneBlockEach(dirs')
  <2>1. OneBlockEach(put)
    BY <1>7, BlocksKept DEF Good
  <2> QED BY <1>6, <1>11, <1>12, <2>1 DEF OneBlockEach
<1>16. Adds(D, L, DOMAIN dirs', Lines(dirs'))
  BY <1>7, <1>8, <1>11 DEF Adds
<1> QED BY <1>13, <1>14, <1>15, <1>16 DEF Good, D, L

(* Deleting a file.                                                        *)
LEMMA DeleteShows ==
  ASSUME Good(dirs, misplaced), listing = Listings(dirs), NEW p \in DOMAIN dirs, NEW n \in Name,
         Delete(p, n)
  PROVE  /\ Good(dirs', misplaced')
         /\ Drops(DOMAIN dirs, Lines(dirs), DOMAIN dirs', Lines(dirs'), n)
<1> DEFINE D == DOMAIN dirs
           L == Lines(dirs)
           i == Resolve(p, n)
<1>1. /\ ShapedDirs(dirs) /\ TreeOf(D, L, Ups(dirs)) /\ DirShaped(p, dirs[p]) /\ SoundDirs(dirs)
      /\ \A j \in D : Ups(dirs)[j] = DotDot(dirs[j])
      /\ \A x \in L : x.ino # 0 /\ x.name \in Name /\ x.ino \in Nat \ {0} /\ OnlyLine(x.dir, dirs[x.dir], x)
  BY SoundFacts DEF Good
<1>2. i \notin D /\ i # 0
  BY DEF Delete
<1>3. PICK x \in L : x.dir = p /\ x.ino = i /\ Asked(L, x, n)
  BY <1>1, <1>2, ResolveIs
<1>4. IsTaken(dirs, x.dir, Holding(dirs[p], i), x.ino, dirs') /\ misplaced' = misplaced \ {i}
  <2>1. Holding(dirs[p], i) # {}
    BY <1>1, <1>3, HoldingIs
  <2>2. /\ dirs' = [dirs EXCEPT ![p] = TakeOut(dirs[p], Min(Holding(dirs[p], i)), i)]
        /\ misplaced' = misplaced \ {i}
    BY DEF Delete
  <2> QED BY <1>3, <2>1, <2>2 DEF IsTaken
<1> HIDE DEF D, L, i
<1>5. EditedDirs(dirs, dirs', {x}, {}) /\ \A r \in DOMAIN dirs : DotDot(dirs'[r]) = DotDot(dirs[r])
  <2>1. SoundDirs(dirs) /\ x \in Lines(dirs) /\ IsTaken(dirs, x.dir, Holding(dirs[p], i), x.ino, dirs')
    BY <1>1, <1>4 DEF L
  <2> QED BY <2>1, TakeDirs
<1>6. DOMAIN dirs' = D /\ Lines(dirs') = L \ {x} /\ ShapedDirs(dirs')
  BY <1>5 DEF EditedDirs, D, L
<1>7. TreeOf(D, L \ {x}, Ups(dirs))
  BY <1>1, <1>2, <1>3, TreeDrop
<1>8. SoundDirs(dirs')
  <2>1. \A j \in D : DotDot(dirs'[j]) = Ups(dirs)[j]
    BY <1>1, <1>5 DEF D
  <2> QED BY <1>6, <1>7, <2>1, SoundFrom
<1>9. ByHash(dirs', misplaced')
  <2>1. ByHash(dirs, misplaced)
    BY DEF Good
  <2>2. /\ \A y \in Lines(dirs) \ {x} : y.ino \in misplaced => y.ino \in misplaced'
        /\ \A y \in {} : y.ino \in misplaced' \/ InLeaf(dirs, y)
    BY <1>1, <1>3, <1>4 DEF TreeOf, Unique, L
  <2> QED BY <1>5, <2>1, <2>2, HashKept
<1>10. OneBlockEach(dirs')
  BY <1>5, BlocksKept DEF Good
<1>11. Drops(D, L, DOMAIN dirs', Lines(dirs'), n)
  BY <1>2, <1>3, <1>6 DEF Drops
<1> QED BY <1>8, <1>9, <1>10, <1>11 DEF Good, D, L


(* Removing a directory.                                                   *)
LEMMA RmdirShows ==
  ASSUME Good(dirs, misplaced), listing = Listings(dirs), NEW p \in DOMAIN dirs, NEW n \in Name,
         Rmdir(p, n)
  PROVE  /\ Good(dirs', misplaced')
         /\ Drops(DOMAIN dirs, Lines(dirs), DOMAIN dirs', Lines(dirs'), n)
<1> DEFINE D == DOMAIN dirs
           L == Lines(dirs)
           i == Resolve(p, n)
           cut == [dirs EXCEPT ![p] = TakeOut(dirs[p], Min(Holding(dirs[p], i)), i)]
<1>1. /\ ShapedDirs(dirs) /\ TreeOf(D, L, Ups(dirs)) /\ DirShaped(p, dirs[p]) /\ SoundDirs(dirs)
      /\ \A j \in D : Ups(dirs)[j] = DotDot(dirs[j]) /\ DirShaped(j, dirs[j])
      /\ \A x \in L : x.ino # 0 /\ x.name \in Name /\ x.ino \in Nat \ {0} /\ OnlyLine(x.dir, dirs[x.dir], x)
  BY SoundFacts DEF Good
<1>2. i \in D \ {Root} /\ i # 0
  <2>1. i \in D /\ i # Root /\ D \subseteq Ino
    BY <1>1 DEF Rmdir, TreeOf
  <2> QED BY <2>1, DirectoryAssumption
<1>3. PICK x \in L : x.dir = p /\ x.ino = i /\ Asked(L, x, n)
  BY <1>1, <1>2, ResolveIs
<1>4. i # p
  BY <1>1, <1>3, ChildFacts
<1>5. /\ IsTaken(dirs, x.dir, Holding(dirs[p], i), x.ino, cut)
      /\ misplaced' = misplaced \ {i} /\ cut[i] = dirs[i] /\ DOMAIN cut = D
      /\ dirs' = [r \in D \ {i} |-> cut[r]]
  <2>1. Holding(dirs[p], i) # {}
    BY <1>1, <1>3, HoldingIs
  <2>2. IsTaken(dirs, x.dir, Holding(dirs[p], i), x.ino, cut)
    BY <1>3, <2>1 DEF IsTaken
  <2>3. misplaced' = misplaced \ {i} /\ cut[i] = dirs[i] /\ DOMAIN cut = D
    BY <1>4 DEF Rmdir
  <2>4. dirs' = [r \in D \ {i} |-> IF r = p THEN TakeOut(dirs[p], Min(Holding(dirs[p], i)), i) ELSE dirs[r]]
    BY DEF Rmdir
  <2>5. \A r \in D \ {i} : cut[r] = IF r = p THEN TakeOut(dirs[p], Min(Holding(dirs[p], i)), i) ELSE dirs[r]
    OBVIOUS
  <2> HIDE DEF cut, i, D
  <2>6. dirs' = [r \in D \ {i} |-> cut[r]]
    BY <2>4, <2>5
  <2> QED BY <2>2, <2>3, <2>6
<1>6. DirLines(i, dirs[i]) = {}
  <2>1. Len(dirs[i].blks) = 1 /\ LooksEmpty(dirs[i])
    BY <1>2 DEF Good, OneBlockEach, Rmdir
  <2> QED BY <1>1, <1>2, <2>1, LooksEmptyIs
<1> HIDE DEF D, L, i, cut
<1>7. EditedDirs(dirs, cut, {x}, {}) /\ \A r \in DOMAIN dirs : DotDot(cut[r]) = DotDot(dirs[r])
  <2>1. SoundDirs(dirs) /\ x \in Lines(dirs) /\ IsTaken(dirs, x.dir, Holding(dirs[p], i), x.ino, cut)
    BY <1>1, <1>3, <1>5 DEF L
  <2> QED BY <2>1, TakeDirs
<1>8. Lines(cut) = L \ {x} /\ ShapedDirs(cut)
  BY <1>7 DEF EditedDirs, L
<1>9. /\ ShapedDirs(dirs') /\ DOMAIN dirs' = D \ {i} /\ Lines(dirs') = L \ {x}
      /\ \A r \in DOMAIN dirs' : dirs'[r] = cut[r]
  <2>1. i \in DOMAIN cut /\ DirLines(i, cut[i]) = {} /\ dirs' = [r \in DOMAIN cut \ {i} |-> cut[r]]
    BY <1>2, <1>5, <1>6
  <2> QED BY <1>5, <1>8, <2>1, DirDropped
<1>10. \A y \in L : y.dir # i
  BY <1>2, <1>6, LinesIn DEF L
<1>11. SoundDirs(dirs')
  <2>1. TreeOf(D \ {i}, L \ {x}, Ups(dirs))
    BY <1>1, <1>2, <1>3, <1>10, TreeDropDir
  <2>2. \A j \in D \ {i} : DotDot(dirs'[j]) = Ups(dirs)[j]
    BY <1>1, <1>7, <1>9 DEF D
  <2> QED BY <1>9, <2>1, <2>2, SoundFrom
<1>12. ByHash(dirs', misplaced')
  <2>1. ByHash(dirs, misplaced)
    BY DEF Good
  <2>2. /\ \A y \in Lines(dirs) \ {x} : y.ino \in misplaced => y.ino \in misplaced'
        /\ \A y \in {} : y.ino \in misplaced' \/ InLeaf(dirs, y)
    BY <1>1, <1>3, <1>5 DEF TreeOf, Unique, L
  <2>3. ByHash(cut, misplaced')
    BY <1>7, <2>1, <2>2, HashKept
  <2>4. \A y \in Lines(dirs') : y.dir \in DOMAIN dirs' /\ (y.ino \in misplaced' \/ InLeaf(cut, y))
    BY <2>3, <1>8, <1>9, ByHashIs, LinesIn
  <2>5. \A y \in Lines(dirs') : y.ino \in misplaced' \/ InLeaf(dirs', y)
    BY <1>9, <2>4 DEF InLeaf
  <2> QED BY <2>5, ByHashIs
<1>13. OneBlockEach(dirs')
  <2>1. OneBlockEach(cut)
    BY <1>7, BlocksKept DEF Good
  <2> QED BY <1>5, <1>9, <2>1 DEF OneBlockEach
<1>14. Drops(D, L, DOMAIN dirs', Lines(dirs'), n)
  BY <1>2, <1>3, <1>9, <1>10 DEF Drops
<1> QED BY <1>11, <1>12, <1>13, <1>14 DEF Good, D, L

(* A name that changes, under what does not lead up to it, moves.          *)
LEMMA MoveHow ==
  ASSUME NEW D, NEW L, NEW up, TreeOf(D, L, up), NEW x \in L, NEW n, Asked(L, x, n),
         NEW y, y.ino = x.ino, y.dir \in D, y.name \in Name, Fresh(L, y.dir, y.name),
         y.dir = x.dir => SamePlace(x, y),
         NEW up2, \A j \in D : up2[j] = IF j = x.ino THEN y.dir ELSE up[j],
         LeadUp(D, up2)
  PROVE  TreeOf(D, (L \ {x}) \cup {y}, up2) /\ Moves(D, L, D, (L \ {x}) \cup {y}, n)
<1> DEFINE L2 == (L \ {x}) \cup {y}
<1>1. \A z \in L : ~(z.dir = y.dir /\ z.name = y.name)
  BY DEF Fresh
<1>2. TreeOf(D, L2, up2)
  BY <1>1, TreeMove
<1> HIDE DEF L2
<1>3. x.ino # Root
  BY DEF TreeOf
<1>4. PICK C \in SUBSET D : y.dir \in C /\ x.ino \notin C /\ \A z \in C : up2[z] \in C
  <2>1. x.ino \in D => up2[x.ino] = y.dir
    OBVIOUS
  <2> QED BY <1>2, <1>3, <2>1, NotUnder
<1>5. ASSUME NEW z \in L, z.ino \in C PROVE z.dir \in C
  <2>1. z.ino \in D /\ z.ino # x.ino
    BY <1>4, <1>5
  <2>2. up[z.ino] = z.dir
    BY <2>1, ParentIs
  <2>3. up2[z.ino] = z.dir
    BY <2>1, <2>2
  <2> QED BY <1>4, <1>5, <2>3
<1>6. Moves(D, L, D, L2, n)
  BY <1>4, <1>5 DEF Moves, L2
<1> QED BY <1>2, <1>6 DEF L2

\* one directory becomes d2, a line's name in it another
IsRenamed(ds, x, m, d2, ds2) == LineRenamed(ds[x.dir], x, m, d2) /\ ds2 = [ds EXCEPT ![x.dir] = d2]
RenamedLine(ds, x, m, ds2, y) ==
  /\ y.dir = x.dir /\ y.name = m /\ y.ino = x.ino /\ SamePlace(x, y)
  /\ EditedDirs(ds, ds2, {x}, {y})
  /\ \A r \in DOMAIN ds : DotDot(ds2[r]) = DotDot(ds[r])

(* An entry is renamed in its directory.                                   *)
LEMMA RenameDirs ==
  ASSUME NEW ds, SoundDirs(ds), NEW x \in Lines(ds), NEW m \in Name,
         NEW d2, NEW ds2, IsRenamed(ds, x, m, d2, ds2)
  PROVE  \E y : RenamedLine(ds, x, m, ds2, y)
<1> DEFINE p == x.dir
           d == ds[p]
<1>1. p \in DOMAIN ds /\ DirShaped(p, d) /\ OnlyLine(p, d, x) /\ x.ino \in Nat \ {0} /\ ShapedDirs(ds)
  BY SoundFacts
<1>2. LineRenamed(d, x, m, d2)
  BY DEF IsRenamed
<1>3. PICK y : /\ Edited(p, d, d2, {x}, {y})
               /\ y.dir = p /\ y.name = m /\ y.ino = x.ino /\ SamePlace(x, y)
  <2> HIDE DEF p, d
  <2>1. \E y : RenamedAs(p, d, x, m, d2, y)
    BY <1>1, <1>2, RenameShows
  <2> QED BY <2>1 DEF RenamedAs
<1>4. EditOf(ds, p, d2, {x}, {y}, ds2)
  BY <1>1, <1>3 DEF EditOf, IsRenamed
<1> HIDE DEF p
<1>5. EditedDirs(ds, ds2, {x}, {y}) /\ \A r \in DOMAIN ds : DotDot(ds2[r]) = DotDot(ds[r])
  BY <1>1, <1>4, DirEdited
<1> QED BY <1>3, <1>5 DEF RenamedLine, p

(* Renaming in place.                                                      *)
LEMMA RenameHereShows ==
  ASSUME Good(dirs, misplaced), listing = Listings(dirs), NEW p \in DOMAIN dirs, NEW n \in Name,
         NEW m \in Name, RenameHere(p, n, m)
  PROVE  /\ Good(dirs', misplaced')
         /\ Moves(DOMAIN dirs, Lines(dirs), DOMAIN dirs', Lines(dirs'), n)
<1> DEFINE D == DOMAIN dirs
           L == Lines(dirs)
           i == Resolve(p, n)
<1>1. /\ ShapedDirs(dirs) /\ TreeOf(D, L, Ups(dirs)) /\ SoundDirs(dirs)
      /\ \A j \in D : Ups(dirs)[j] = DotDot(dirs[j]) /\ DirShaped(j, dirs[j])
      /\ \A x \in L : x.ino # 0 /\ x.name \in Name /\ x.ino \in Nat \ {0} /\ OnlyLine(x.dir, dirs[x.dir], x)
  BY SoundFacts DEF Good
<1>2. i # 0 /\ Resolve(p, m) = 0
  BY DEF RenameHere, Absent
<1>3. PICK x \in L : x.dir = p /\ x.ino = i /\ Asked(L, x, n)
  BY <1>1, <1>2, ResolveIs
<1>4. Fresh(L, p, m)
  BY <1>1, <1>2, ResolveIs
<1>5. IsRenamed(dirs, x, m, [dirs[p] EXCEPT !.blks[x.blk] = Renamed(dirs[p].blks[x.blk], i, m)], dirs')
  <2>1. Min(Holding(dirs[p], i)) = x.blk
    <3>1. Holding(dirs[p], x.ino) = {x.blk} /\ x.blk \in DOMAIN dirs[p].blks
      BY <1>1, <1>3, HoldingIs
    <3>2. x.blk \in Nat
      BY <1>1, <3>1, ShapedIs
    <3> QED BY <1>3, <3>1, <3>2, MinMax
  <2>2. /\ Renamable(dirs[p].blks[x.blk], i, m)
        /\ dirs' = [dirs EXCEPT ![p].blks[x.blk] = Renamed(@, i, m)]
    BY <2>1 DEF RenameHere
  <2> HIDE DEF i
  <2> QED BY <1>3, <2>2 DEF IsRenamed, LineRenamed
<1>6. misplaced' = IF dirs[p].hashed THEN misplaced \cup {i} ELSE misplaced
  BY DEF RenameHere
<1> HIDE DEF D, L, i
<1>7. PICK y : /\ y.dir = p /\ y.name = m /\ y.ino = i /\ SamePlace(x, y)
               /\ EditedDirs(dirs, dirs', {x}, {y})
               /\ \A r \in DOMAIN dirs : DotDot(dirs'[r]) = DotDot(dirs[r])
  <2>1. \E y : RenamedLine(dirs, x, m, dirs', y)
    <3>1. SoundDirs(dirs) /\ x \in Lines(dirs)
      BY <1>1 DEF L
    <3> QED BY <1>5, <3>1, RenameDirs
  <2> QED BY <1>3, <2>1 DEF RenamedLine
<1>8. DOMAIN dirs' = D /\ Lines(dirs') = (L \ {x}) \cup {y} /\ ShapedDirs(dirs')
  BY <1>7 DEF EditedDirs, D, L
<1>9. TreeOf(D, (L \ {x}) \cup {y}, Ups(dirs)) /\ Moves(D, L, D, (L \ {x}) \cup {y}, n)
  <2>1. y.ino = x.ino /\ y.dir \in D /\ y.name \in Name /\ Fresh(L, y.dir, y.name)
    BY <1>3, <1>4, <1>7 DEF D
  <2>2. \A j \in D : Ups(dirs)[j] = IF j = x.ino THEN y.dir ELSE Ups(dirs)[j]
    BY <1>1, <1>3, <1>7, ParentIs
  <2>3. LeadUp(D, Ups(dirs))
    BY <1>1 DEF TreeOf
  <2>4. y.dir = x.dir => SamePlace(x, y)
    BY <1>7
  <2> QED BY <1>1, <1>3, <2>1, <2>2, <2>3, <2>4, MoveHow
<1>10. SoundDirs(dirs')
  <2>1. \A j \in D : DotDot(dirs'[j]) = Ups(dirs)[j]
    BY <1>1, <1>7 DEF D
  <2>2. TreeOf(D, (L \ {x}) \cup {y}, Ups(dirs))
    BY <1>9
  <2> QED BY <1>8, <2>1, <2>2, SoundFrom
<1>11. ByHash(dirs', misplaced')
  <2>1. ByHash(dirs, misplaced)
    BY DEF Good
  <2>2. /\ \A z \in Lines(dirs) \ {x} : z.ino \in misplaced => z.ino \in misplaced'
        /\ \A z \in {y} : z.ino \in misplaced' \/ InLeaf(dirs, z)
    BY <1>6, <1>7 DEF InLeaf
  <2> QED BY <1>7, <2>1, <2>2, HashKept
<1>12. OneBlockEach(dirs')
  BY <1>7, BlocksKept DEF Good
<1> QED BY <1>8, <1>9, <1>10, <1>11, <1>12 DEF Good, D, L

(* An edit that only gains, after another one.                             *)
LEMMA EditAfter ==
  ASSUME NEW ds, NEW ds1, NEW ds2, NEW X, NEW Y, NEW Y2,
         EditedDirs(ds, ds1, X, Y), EditedDirs(ds1, ds2, {}, Y2)
  PROVE  EditedDirs(ds, ds2, X, Y \cup Y2)
<1>1. ShapedDirs(ds2) /\ DOMAIN ds2 = DOMAIN ds
  BY DEF EditedDirs
<1>2. Lines(ds2) = (Lines(ds) \ X) \cup (Y \cup Y2)
  <2>1. Lines(ds1) = (Lines(ds) \ X) \cup Y /\ Lines(ds2) = (Lines(ds1) \ {}) \cup Y2
    BY DEF EditedDirs
  <2> QED BY <2>1
<1>3. ASSUME NEW p \in DOMAIN ds PROVE SameShape(ds[p], ds2[p])
  <2>1. SameShape(ds[p], ds1[p]) /\ SameShape(ds1[p], ds2[p])
    BY DEF EditedDirs
  <2> QED BY <2>1 DEF SameShape
<1> QED BY <1>1, <1>2, <1>3 DEF EditedDirs

(* Nothing but what leads up from it changes.                              *)
LEMMA RepointDirs ==
  ASSUME NEW ds, ShapedDirs(ds), NEW i, NEW q \in Nat \ {0}, NEW ds2, IsRepointed(ds, i, q, ds2)
  PROVE  /\ EditedDirs(ds, ds2, {}, {})
         /\ \A r \in DOMAIN ds : DotDot(ds2[r]) = IF r = i THEN q ELSE DotDot(ds[r])
<1>1. CASE i \in DOMAIN ds
  BY <1>1, DirRepointed
<1>2. CASE i \notin DOMAIN ds
  <2>1. ds2 = ds
    BY <1>2 DEF IsRepointed
  <2>2. Lines(ds) = (Lines(ds) \ {}) \cup {}
    OBVIOUS
  <2>3. \A p \in DOMAIN ds : DirShaped(p, ds[p])
    BY DEF ShapedDirs
  <2>4. \A p \in DOMAIN ds : SameShape(ds[p], ds[p])
    BY DEF SameShape
  <2> QED BY <1>2, <2>1, <2>2, <2>4 DEF EditedDirs
<1> QED BY <1>1, <1>2

(* Renaming into another directory.                                        *)
LEMMA RenameAcrossShows ==
  ASSUME Good(dirs, misplaced), listing = Listings(dirs), NEW p \in DOMAIN dirs, NEW n \in Name,
         NEW q \in DOMAIN dirs, NEW m \in Name, RenameAcross(p, n, q, m)
  PROVE  /\ Good(dirs', misplaced')
         /\ Moves(DOMAIN dirs, Lines(dirs), DOMAIN dirs', Lines(dirs'), n)
<1> DEFINE D == DOMAIN dirs
           L == Lines(dirs)
           up == Ups(dirs)
           i == Resolve(p, n)
           H == MoveHolding(dirs[p], i)
           k == Min(MovePlaces(dirs[q], m))
           cut == [dirs EXCEPT ![p] = TakeOut(dirs[p], Min(H), i)]
           put == [cut EXCEPT ![q] = Put(cut[q], k, m, i)]
           up2 == [j \in D |-> IF j = i THEN q ELSE up[j]]
<1>1. /\ ShapedDirs(dirs) /\ TreeOf(D, L, up) /\ SoundDirs(dirs)
      /\ \A j \in D : j \in Nat \ {0} /\ up[j] = DotDot(dirs[j]) /\ DirShaped(j, dirs[j])
      /\ \A x \in L : /\ x.ino # 0 /\ x.name \in Name /\ x.ino \in Nat \ {0} /\ x.ino # Root
                      /\ OnlyLine(x.dir, dirs[x.dir], x)
  BY SoundFacts DEF Good
<1>2. i # 0 /\ p # q /\ Resolve(q, m) = 0
  BY DEF RenameAcross, Absent
<1>3. PICK x \in L : x.dir = p /\ x.ino = i /\ Asked(L, x, n)
  BY <1>1, <1>2, ResolveIs
<1>4. Fresh(L, q, m) /\ i \in Nat \ {0} /\ i # Root
  BY <1>1, <1>2, <1>3, ResolveIs
<1>5. IsTaken(dirs, x.dir, H, x.ino, cut)
  <2>1. H # {} /\ H \subseteq Holding(dirs[p], i)
    BY DEF RenameAcross, MoveHolding
  <2> QED BY <1>3, <2>1 DEF IsTaken
<1>6. cut[q] = dirs[q] /\ DOMAIN cut = D
  BY <1>2
<1>7. IsPut(cut, q, k, m, i, put)
  <2>1. k \in AnyPlace(dirs[q], m)
    BY <1>1, PlaceFound DEF RenameAcross, AnyPlace
  <2> HIDE DEF cut, k, i
  <2> QED BY <1>6, <2>1 DEF IsPut
<1>8. IsRepointed(put, i, q, dirs') /\ misplaced' = misplaced \ {i}
  <2>1. DOMAIN put = D
    BY <1>6
  <2>2. put = [dirs EXCEPT ![p] = TakeOut(@, Min(MoveHolding(@, i)), i),
                           ![q] = Put(@, Min(MovePlaces(@, m)), m, i)]
    BY <1>2
  <2>3. /\ dirs' = IF i \in D THEN [put EXCEPT ![i] = Repointed(put[i], q)] ELSE put
        /\ misplaced' = misplaced \ {i}
    BY <2>2 DEF RenameAcross
  <2> HIDE DEF put, D, i
  <2> QED BY <2>1, <2>3 DEF IsRepointed
<1>9. i \in D => WalkUp(i, q) \in {Root, 0}
  BY DEF RenameAcross
<1> HIDE DEF D, L, up, i, H, k, cut, put, up2
<1>10. EditedDirs(dirs, cut, {x}, {}) /\ \A r \in D : DotDot(cut[r]) = DotDot(dirs[r])
  <2>1. SoundDirs(dirs) /\ x \in Lines(dirs)
    BY <1>1 DEF L
  <2>2. EditedDirs(dirs, cut, {x}, {}) /\ \A r \in DOMAIN dirs : DotDot(cut[r]) = DotDot(dirs[r])
    BY <1>5, <2>1, TakeDirs
  <2> QED BY <2>2 DEF D
<1>11. PICK y : /\ y.dir = q /\ y.name = m /\ y.ino = i
                /\ EditedDirs(cut, put, {}, {y}) /\ InLeaf(cut, y)
                /\ \A r \in D : DotDot(put[r]) = DotDot(cut[r])
  <2>1. ShapedDirs(cut)
    BY <1>10 DEF EditedDirs
  <2>2. \E y : PutLine(cut, q, m, i, put, y)
    BY <1>4, <1>7, <2>1, PutDirs
  <2> QED BY <1>6, <2>2 DEF PutLine
<1>12. /\ EditedDirs(put, dirs', {}, {})
       /\ \A r \in D : DotDot(dirs'[r]) = IF r = i THEN q ELSE DotDot(put[r])
  <2>1. ShapedDirs(put) /\ DOMAIN put = D /\ q \in Nat \ {0}
    BY <1>1, <1>6, <1>11 DEF EditedDirs, D
  <2>2. /\ EditedDirs(put, dirs', {}, {})
        /\ \A r \in DOMAIN put : DotDot(dirs'[r]) = IF r = i THEN q ELSE DotDot(put[r])
    BY <1>8, <2>1, RepointDirs
  <2> QED BY <2>1, <2>2
<1>13. EditedDirs(dirs, dirs', {x}, {y})
  <2>1. EditedDirs(dirs, put, {x}, {} \cup {y})
    BY <1>10, <1>11, EditAfter
  <2>2. EditedDirs(dirs, dirs', {x}, ({} \cup {y}) \cup {})
    BY <1>12, <2>1, EditAfter
  <2>3. ({} \cup {y}) \cup {} = {y}
    OBVIOUS
  <2> QED BY <2>2, <2>3
<1>14. DOMAIN dirs' = D /\ Lines(dirs') = (L \ {x}) \cup {y} /\ ShapedDirs(dirs')
  BY <1>13 DEF EditedDirs, D, L
<1>15. \A j \in D : up2[j] = IF j = i THEN q ELSE up[j]
  BY DEF up2
<1>16. LeadUp(D, up2)
  <2>1. CASE i \in D
    <3>1. \A j \in D : up[j] \in D /\ up[j] = DotDot(dirs[j])
      BY <1>1 DEF TreeOf
    <3>2. /\ Cardinality(Ino) \in Nat
          /\ \E g : WalksUp(D, up, i, q, Cardinality(Ino), g) /\ g[Cardinality(Ino)] = WalkUp(i, q)
      <4>1. q \in D /\ D = DOMAIN dirs
        BY DEF D
      <4> QED BY <3>1, <4>1, WalkUpIs
    <3>3. PICK g : WalksUp(D, up, i, q, Cardinality(Ino), g) /\ g[Cardinality(Ino)] = WalkUp(i, q)
      BY <3>2
    <3>4. i \in D \ {Root} /\ q \in D /\ g[Cardinality(Ino)] \in {Root, 0}
      BY <1>4, <1>9, <2>1, <3>3 DEF D
    <3> QED BY <1>1, <1>15, <3>2, <3>3, <3>4, MoveLeadsUp
  <2>2. CASE i \notin D
    <3>1. LeadUp(D, up) /\ \A j \in D : up2[j] = up[j]
      BY <1>1, <1>15, <2>2 DEF TreeOf
    <3> QED BY <3>1 DEF LeadUp
  <2> QED BY <2>1, <2>2
<1>17. TreeOf(D, (L \ {x}) \cup {y}, up2) /\ Moves(D, L, D, (L \ {x}) \cup {y}, n)
  <2>1. y.ino = x.ino /\ y.dir \in D /\ y.name \in Name /\ Fresh(L, y.dir, y.name)
    BY <1>3, <1>4, <1>11 DEF D
  <2>2. \A j \in D : up2[j] = IF j = x.ino THEN y.dir ELSE up[j]
    BY <1>3, <1>11, <1>15
  <2>3. y.dir = x.dir => SamePlace(x, y)
    BY <1>2, <1>3, <1>11
  <2> QED BY <1>1, <1>3, <1>16, <2>1, <2>2, <2>3, MoveHow
<1>18. SoundDirs(dirs')
  <2>1. \A j \in D : DotDot(dirs'[j]) = up2[j]
    BY <1>1, <1>10, <1>11, <1>12, <1>15
  <2>2. TreeOf(D, (L \ {x}) \cup {y}, up2)
    BY <1>17
  <2> QED BY <1>14, <2>1, <2>2, SoundFrom
<1>19. ByHash(dirs', misplaced')
  <2>1. ByHash(dirs, misplaced)
    BY DEF Good
  <2>2. /\ \A z \in Lines(dirs) \ {x} : z.ino \in misplaced => z.ino \in misplaced'
        /\ \A z \in {y} : z.ino \in misplaced' \/ InLeaf(dirs, z)
    <3>1. InLeaf(dirs, y)
      BY <1>6, <1>11 DEF InLeaf
    <3> QED BY <1>1, <1>3, <1>8, <3>1 DEF TreeOf, Unique, L
  <2> QED BY <1>13, <2>1, <2>2, HashKept
<1>20. OneBlockEach(dirs')
  BY <1>13, BlocksKept DEF Good
<1> QED BY <1>14, <1>17, <1>18, <1>19, <1>20 DEF Good, D, L

(***************************************************************************)
(* The invariant, and what it says of a history.                           *)
(***************************************************************************)

\* what a call that changed something did
Changed(n) ==
  \/ Adds(DOMAIN dirs, Lines(dirs), DOMAIN dirs', Lines(dirs'))
  \/ Drops(DOMAIN dirs, Lines(dirs), DOMAIN dirs', Lines(dirs'), n)
  \/ Moves(DOMAIN dirs, Lines(dirs), DOMAIN dirs', Lines(dirs'), n)

(* A call that changes a directory keeps them all sound, and adds, drops   *)
(* or moves one name.                                                      *)
LEMMA CallShows ==
  ASSUME Good(dirs, misplaced), listing = Listings(dirs), NEW n \in Spelled, NEW p \in DOMAIN dirs,
         \/ Create(p, n) \/ Mkdir(p, n) \/ Delete(p, n) \/ Rmdir(p, n)
         \/ \E m \in Spelled : RenameHere(p, n, m)
         \/ \E q \in DOMAIN dirs, m \in Spelled : RenameAcross(p, n, q, m)
  PROVE  Good(dirs', misplaced') /\ Changed(n)
<1>1. n \in Name /\ \A m \in Spelled : m \in Name
  BY DirectoryAssumption
<1>2. CASE Create(p, n)
  BY <1>1, <1>2, CreateShows DEF Changed
<1>3. CASE Mkdir(p, n)
  BY <1>1, <1>3, MkdirShows DEF Changed
<1>4. CASE Delete(p, n)
  BY <1>1, <1>4, DeleteShows DEF Changed
<1>5. CASE Rmdir(p, n)
  BY <1>1, <1>5, RmdirShows DEF Changed
<1>6. ASSUME NEW m \in Spelled, RenameHere(p, n, m)
      PROVE  Good(dirs', misplaced') /\ Changed(n)
  BY <1>1, <1>6, RenameHereShows DEF Changed
<1>7. ASSUME NEW q \in DOMAIN dirs, NEW m \in Spelled, RenameAcross(p, n, q, m)
      PROVE  Good(dirs', misplaced') /\ Changed(n)
  BY <1>1, <1>7, RenameAcrossShows DEF Changed
<1> QED BY <1>2, <1>3, <1>4, <1>5, <1>6, <1>7

(* Every step keeps the invariant; one that changes the directories is a   *)
(* call with the path DOS gave.                                            *)
LEMMA StepShows ==
  ASSUME DirInv, [Next]_vars
  PROVE  DirInv' /\ \/ dirs' = dirs /\ listing' = listing
                    \/ Changed(path')
<1>1. Good(dirs, misplaced) /\ listing = Listings(dirs)
  BY DEF DirInv, Good
<1>2. Good(dirs', misplaced') /\ listing' = Listings(dirs') => DirInv'
  BY DEF Good, DirInv, SoundDirs, OneBlockEach, ByHash
<1>3. CASE dirs' = dirs /\ listing' = listing /\ misplaced' = misplaced
  BY <1>1, <1>2, <1>3
<1>4. CASE DirNext
  <2>1. PICK n \in Spelled :
          /\ path' = n
          /\ \/ OtherCall
             \/ \E p \in DOMAIN dirs :
                  \/ Create(p, n) \/ Mkdir(p, n) \/ Delete(p, n) \/ Rmdir(p, n)
                  \/ \E m \in Spelled : RenameHere(p, n, m)
                  \/ \E q \in DOMAIN dirs, m \in Spelled : RenameAcross(p, n, q, m)
          /\ listing' = IF dirs' = dirs THEN listing ELSE Listings(dirs')
    BY <1>4 DEF DirNext
  <2>2. listing' = Listings(dirs')
    BY <1>1, <2>1
  <2>3. CASE OtherCall
    BY <1>3, <2>1, <2>3 DEF OtherCall
  <2>4. CASE ~OtherCall
    <3>1. PICK p \in DOMAIN dirs :
             \/ Create(p, n) \/ Mkdir(p, n) \/ Delete(p, n) \/ Rmdir(p, n)
             \/ \E m \in Spelled : RenameHere(p, n, m)
             \/ \E q \in DOMAIN dirs, m \in Spelled : RenameAcross(p, n, q, m)
      BY <2>1, <2>4
    <3>2. Good(dirs', misplaced') /\ Changed(n)
      BY <1>1, <3>1, CallShows
    <3> QED BY <1>2, <2>1, <2>2, <3>2
  <2> QED BY <2>3, <2>4
<1>5. CASE \E pat \in Patterns : FindFirst(pat) \/ OtherSearch(pat)
  BY <1>3, <1>5 DEF FindFirst, OtherSearch
<1>6. CASE FindNext \/ UNCHANGED vars
  BY <1>3, <1>6 DEF FindNext, vars, dirvars
<1> QED BY <1>4, <1>5, <1>6 DEF Next

(* DirInv holds throughout: whatever calls change the directories of a     *)
(* volume, their blocks stay tiled with records, ".", ".." and an index    *)
(* stay in place, every name is in the leaf of its hash or was renamed in  *)
(* place, and the names are a tree.  It needs volumes whose directories of *)
(* one extent are of one block, as all are that this code makes.           *)
THEOREM DirInvariant ==
  ASSUME \A ds \in Images : OneBlockEach(ds)
  PROVE  Spec => []DirInv
<1>1. Init => DirInv
  BY ImagesAssumption DEF Init, DirInit, DirInv
<1>2. DirInv /\ [Next]_vars => DirInv'
  BY StepShows
<1> QED BY <1>1, <1>2, PTL DEF Spec

(* RecordsTile: no walk over a block stops early or reads a record out of  *)
(* the middle of another (extent.c:319, 1788).                             *)
THEOREM RecordsStayTiled ==
  ASSUME \A ds \in Images : OneBlockEach(ds)
  PROVE  Spec => []RecordsTile
<1>1. DirInv => RecordsTile
  BY DEF DirInv, SoundDirs, DirShaped, RecordsTile
<1> QED BY <1>1, DirInvariant, PTL

(* IndexFinds: what was not renamed in place since it came to a hashed     *)
(* directory is in the leaf of its hash (extent.c:660).                    *)
THEOREM IndexKeepsFinding ==
  ASSUME \A ds \in Images : OneBlockEach(ds)
  PROVE  Spec => []IndexFinds
<1>1. ASSUME DirInv, NEW p \in Indexed, NEW k \in DOMAIN dirs[p].blks,
             NEW c \in Range(Listed(dirs[p].blks[k])), c.name \notin Dots
      PROVE  c.ino \in misplaced \/ Covers(dirs[p], k, Hash[c.name])
  <2>1. p \in DOMAIN dirs /\ dirs[p].hashed /\ dirs[p].levels = 0 /\ DirShaped(p, dirs[p])
    BY <1>1 DEF Indexed, DirInv, SoundDirs
  <2>2. Fits(dirs[p], k, dirs[p].blks[k])
    BY <2>1, ShapedIs
  <2>3. PICK o \in LiveAt(dirs[p].blks[k]) : c = dirs[p].blks[k][o]
    BY <1>1, <2>2, ListedShows DEF Fits
  <2> DEFINE x == Line(p, k, o, c)
  <2>4. x \in DirLines(p, dirs[p])
    BY <1>1, <2>3, InBlockLines, InDirLines
  <2>5. x.ino = c.ino /\ x.blk = k /\ x.name = c.name
    BY LineFields
  <2> HIDE DEF x
  <2>6. x.ino \in misplaced \/ Covers(dirs[p], x.blk, Hash[x.name])
    BY <1>1, <2>1, <2>4 DEF DirInv, ByHash
  <2> QED BY <2>5, <2>6
<1>2. DirInv => IndexFinds
  BY <1>1 DEF IndexFinds, FoundByHash
<1> QED BY <1>2, DirInvariant, PTL

(***************************************************************************)
(* The tree a reader sees, and what a call does to it.                     *)
(***************************************************************************)

\* inodes that have a name
Numbered(T) == {e.ino : e \in T}

(* What is told of lines.                                                  *)
LEMMA ToldIs ==
  ASSUME NEW L
  PROVE  /\ \A x : Entry(x).dir = x.dir /\ Entry(x).name = x.name /\ Entry(x).ino = x.ino
         /\ \A x \in L : Entry(x) \in Told(L)
         /\ \A e \in Told(L) : \E x \in L : e = Entry(x)
  BY DEF Told, Entry

\* a tree gains, loses or moves an entry
Gains(D, T, D2, T2) ==
  \E e : /\ e = [dir |-> e.dir, name |-> e.name, ino |-> e.ino]
         /\ e \notin T /\ T2 = T \cup {e} /\ e.dir \in D
         /\ e.ino \notin D \cup Numbered(T) /\ e.ino # Root
         /\ \A z \in T : z.dir = e.dir => z.name # e.name /\ Alias[z.name] # Alias[e.name]
         /\ D2 \in {D, D \cup {e.ino}}
Loses(D, T, D2, T2, n) ==
  \E e \in T : /\ T2 = T \ {e}
               /\ e.name # n => /\ Alias[e.name] = Alias[n]
                                /\ ~\E z \in T : z.dir = e.dir /\ z.name = n
               /\ \A z \in T : z.ino = e.ino => z = e
               /\ \/ e.ino \notin D /\ D2 = D
                  \/ e.ino \in D /\ (\A z \in T : z.dir # e.ino) /\ D2 = D \ {e.ino}
Shifts(D, T, D2, T2, n) ==
  \E e, f :
    /\ e \in T
    /\ f = [dir |-> f.dir, name |-> f.name, ino |-> e.ino]
    /\ f \notin T /\ T2 = (T \ {e}) \cup {f} /\ D2 = D /\ f.dir \in D
    /\ e.name # n => /\ Alias[e.name] = Alias[n]
                     /\ ~\E z \in T : z.dir = e.dir /\ z.name = n
    /\ \A z \in T : z.dir = f.dir => z.name # f.name /\ Alias[z.name] # Alias[f.name]
    /\ \E C \in SUBSET D : f.dir \in C /\ e.ino \notin C /\ \A z \in T : z.ino \in C => z.dir \in C

(* A line more is an entry more.                                           *)
LEMMA AddsTold ==
  ASSUME NEW D, NEW L, NEW up, TreeOf(D, L, up), NEW D2, NEW L2, Adds(D, L, D2, L2)
  PROVE  Gains(D, Told(L), D2, Told(L2))
<1>1. PICK x : /\ NewLine(D, L, x) /\ Fresh(L, x.dir, x.name)
               /\ L2 = L \cup {x} /\ D2 \in {D, D \cup {x.ino}}
  BY DEF Adds
<1> DEFINE e == Entry(x)
<1>2. e.dir = x.dir /\ e.name = x.name /\ e.ino = x.ino /\ e = [dir |-> e.dir, name |-> e.name, ino |-> e.ino]
  BY DEF Entry
<1>3. Told(L2) = Told(L) \cup {e}
  BY <1>1 DEF Told
<1> HIDE DEF e
<1>4. \A z \in Told(L) : /\ z.dir = e.dir => z.name # e.name /\ Alias[z.name] # Alias[e.name]
                         /\ z.ino # e.ino
  BY <1>1, <1>2, ToldIs DEF Fresh, NewLine
<1>5. e \notin Told(L) /\ e.ino \notin Numbered(Told(L))
  BY <1>4 DEF Numbered
<1>6. e.ino \notin D /\ e.ino # Root /\ e.dir \in D
  BY <1>1, <1>2 DEF TreeOf, NewLine
<1> QED BY <1>1, <1>2, <1>3, <1>4, <1>5, <1>6 DEF Gains

(* A line less is an entry less.                                           *)
LEMMA DropsTold ==
  ASSUME NEW D, NEW L, NEW up, TreeOf(D, L, up), NEW D2, NEW L2, NEW n, Drops(D, L, D2, L2, n)
  PROVE  Loses(D, Told(L), D2, Told(L2), n)
<1>1. PICK x \in L : /\ Asked(L, x, n) /\ L2 = L \ {x}
                     /\ \/ x.ino \notin D /\ D2 = D
                        \/ x.ino \in D /\ (\A y \in L : y.dir # x.ino) /\ D2 = D \ {x.ino}
  BY DEF Drops
<1> DEFINE e == Entry(x)
<1>2. e.dir = x.dir /\ e.name = x.name /\ e.ino = x.ino /\ e \in Told(L)
  BY ToldIs
<1> HIDE DEF e
<1>3. \A y \in L : Entry(y).ino = e.ino => y = x
  BY <1>2, ToldIs DEF TreeOf, Unique
<1>4. \A z \in Told(L) : z.ino = e.ino => z = e
  BY <1>3, ToldIs DEF e
<1>5. Told(L2) = Told(L) \ {e}
  <2>1. ASSUME NEW z \in Told(L2) PROVE z \in Told(L) /\ z # e
    <3>1. PICK y \in L2 : z = Entry(y)
      BY ToldIs
    <3> QED BY <1>1, <1>2, <1>3, <3>1, ToldIs
  <2>2. ASSUME NEW z \in Told(L) \ {e} PROVE z \in Told(L2)
    <3>1. PICK y \in L : z = Entry(y)
      BY ToldIs
    <3>2. y \in L2
      BY <1>1, <2>2, <3>1 DEF e
    <3> QED BY <3>1, <3>2, ToldIs
  <2> QED BY <2>1, <2>2
<1>6. e.name # n => /\ Alias[e.name] = Alias[n]
                    /\ ~\E z \in Told(L) : z.dir = e.dir /\ z.name = n
  BY <1>1, <1>2, ToldIs DEF Asked, NameIn
<1>7. (\A y \in L : y.dir # x.ino) => \A z \in Told(L) : z.dir # e.ino
  BY <1>2, ToldIs
<1> QED BY <1>1, <1>2, <1>4, <1>5, <1>6, <1>7 DEF Loses

(* A line that moved is an entry that did.                                 *)
LEMMA MovesTold ==
  ASSUME NEW D, NEW L, NEW up, TreeOf(D, L, up), NEW D2, NEW L2, NEW n, Moves(D, L, D2, L2, n)
  PROVE  Shifts(D, Told(L), D2, Told(L2), n)
<1>1. PICK x, y : /\ x \in L /\ Asked(L, x, n) /\ Fresh(L, y.dir, y.name)
                  /\ y.dir \in D /\ y.name \in Name /\ y.ino = x.ino
                  /\ L2 = (L \ {x}) \cup {y} /\ D2 = D
                  /\ \E C \in SUBSET D : /\ y.dir \in C /\ x.ino \notin C
                                         /\ \A z \in L : z.ino \in C => z.dir \in C
  BY DEF Moves
<1>2. PICK C \in SUBSET D : y.dir \in C /\ x.ino \notin C /\ \A z \in L : z.ino \in C => z.dir \in C
  BY <1>1
<1> DEFINE e == Entry(x)
           f == Entry(y)
<1>3. /\ e.dir = x.dir /\ e.name = x.name /\ e.ino = x.ino /\ e \in Told(L)
      /\ f.dir = y.dir /\ f.name = y.name /\ f.ino = x.ino
      /\ f = [dir |-> f.dir, name |-> f.name, ino |-> e.ino]
  BY <1>1, ToldIs DEF Entry
<1> HIDE DEF e, f
<1>4. \A z \in L : Entry(z).ino = e.ino => z = x
  BY <1>1, <1>3, ToldIs DEF TreeOf, Unique
<1>5. \A z \in Told(L) : z.dir = f.dir => z.name # f.name /\ Alias[z.name] # Alias[f.name]
  BY <1>1, <1>3, ToldIs DEF Fresh
<1>6. f \notin Told(L)
  BY <1>5
<1>7. Told(L2) = (Told(L) \ {e}) \cup {f}
  <2>1. ASSUME NEW z \in Told(L2) PROVE z \in (Told(L) \ {e}) \cup {f}
    <3>1. PICK w \in L2 : z = Entry(w)
      BY ToldIs
    <3>2. CASE w = y
      BY <3>1, <3>2 DEF f
    <3>3. CASE w \in L /\ w # x
      BY <1>3, <1>4, <3>1, <3>3, ToldIs
    <3> QED BY <1>1, <3>2, <3>3
  <2>2. ASSUME NEW z \in Told(L) \ {e} PROVE z \in Told(L2)
    <3>1. PICK w \in L : z = Entry(w)
      BY ToldIs
    <3>2. w \in L2
      BY <1>1, <2>2, <3>1 DEF e
    <3> QED BY <3>1, <3>2, ToldIs
  <2>3. f \in Told(L2)
    BY <1>1, ToldIs DEF f
  <2> QED BY <2>1, <2>2, <2>3
<1>8. e.name # n => /\ Alias[e.name] = Alias[n]
                    /\ ~\E z \in Told(L) : z.dir = e.dir /\ z.name = n
  BY <1>1, <1>3, ToldIs DEF Asked, NameIn
<1>9. f.dir \in C /\ e.ino \notin C /\ \A z \in Told(L) : z.ino \in C => z.dir \in C
  BY <1>2, <1>3, ToldIs
<1> QED BY <1>1, <1>3, <1>5, <1>6, <1>7, <1>8, <1>9 DEF Shifts

\* what a call that changed something did to the tree
TreeChanged ==
  \/ Gains(DOMAIN dirs, Tree, DOMAIN dirs', Tree')
  \/ Loses(DOMAIN dirs, Tree, DOMAIN dirs', Tree', path')
  \/ Shifts(DOMAIN dirs, Tree, DOMAIN dirs', Tree', path')

(* A step changes nothing a reader sees, or one entry.                     *)
LEMMA TreeSteps ==
  ASSUME DirInv, [Next]_vars
  PROVE  (dirs' = dirs /\ Tree' = Tree) \/ TreeChanged
<1> DEFINE D == DOMAIN dirs
           L == Lines(dirs)
<1>1. ShapedDirs(dirs) /\ listing = Listings(dirs) /\ TreeOf(D, L, Ups(dirs))
  BY DEF DirInv, SoundDirs, ShapedDirs
<1>2. DirInv' /\ ((dirs' = dirs /\ listing' = listing) \/ Changed(path'))
  BY StepShows
<1>3. ShapedDirs(dirs') /\ listing' = Listings(dirs')
  BY <1>2 DEF DirInv, SoundDirs, ShapedDirs
<1>4. Tree = Told(L)
  BY <1>1, TreeIs
<1>5. Tree' = Told(Lines(dirs'))
  <2>1. Tree' = Tree2(dirs', listing')
    BY DEF Tree, Tree2, Entries
  <2> QED BY <1>3, <2>1, TreeTold
<1>6. CASE dirs' = dirs /\ listing' = listing
  BY <1>4, <1>5, <1>6
<1>7. CASE Changed(path')
  <2> HIDE DEF D, L
  <2>1. \/ Adds(D, L, DOMAIN dirs', Lines(dirs'))
        \/ Drops(D, L, DOMAIN dirs', Lines(dirs'), path')
        \/ Moves(D, L, DOMAIN dirs', Lines(dirs'), path')
    BY <1>7 DEF Changed, D, L
  <2>2. \/ Gains(D, Told(L), DOMAIN dirs', Told(Lines(dirs')))
        \/ Loses(D, Told(L), DOMAIN dirs', Told(Lines(dirs')), path')
        \/ Shifts(D, Told(L), DOMAIN dirs', Told(Lines(dirs')), path')
    BY <1>1, <2>1, AddsTold, DropsTold, MovesTold
  <2> QED BY <1>4, <1>5, <2>2 DEF TreeChanged, D
<1> QED BY <1>2, <1>6, <1>7

(* TakesWhatWasNamed: a call removes or renames the entry of the very name *)
(* it gave, or, if there is none, one of its 8.3 form (tsr.c:676).         *)
THEOREM NamedIsTaken ==
  ASSUME \A ds \in Images : OneBlockEach(ds)
  PROVE  Spec => TakesWhatWasNamed
<1> DEFINE Takes == \A e \in Tree \ Tree' :
                      LET asked == {x \in Tree : x.dir = e.dir /\ x.name = path'} IN
                      IF asked = {} THEN Alias[e.name] = Alias[path'] ELSE e \in asked
<1>1. DirInv /\ [Next]_vars => Takes
  <2> SUFFICES ASSUME DirInv, [Next]_vars PROVE Takes
    OBVIOUS
  <2>1. (dirs' = dirs /\ Tree' = Tree) \/ TreeChanged
    BY TreeSteps
  <2>2. CASE Tree' = Tree
    BY <2>2
  <2>3. CASE Gains(DOMAIN dirs, Tree, DOMAIN dirs', Tree')
    BY <2>3 DEF Gains
  <2>4. CASE Loses(DOMAIN dirs, Tree, DOMAIN dirs', Tree', path')
    BY <2>4 DEF Loses
  <2>5. CASE Shifts(DOMAIN dirs, Tree, DOMAIN dirs', Tree', path')
    BY <2>5 DEF Shifts
  <2> QED BY <2>1, <2>2, <2>3, <2>4, <2>5 DEF TreeChanged
<1>2. DirInv /\ [Next]_vars => [Takes]_vars
  BY <1>1
<1> HIDE DEF Takes
<1>3. Spec => [][Takes]_vars
  BY <1>2, DirInvariant, PTL DEF Spec
<1> QED BY <1>3, PTL DEF TakesWhatWasNamed, Takes

(* AliasesStayDistinct: a directory in which 8.3 forms tell the entries    *)
(* apart stays one (tsr.c:510, 1437, 1556).                                *)
THEOREM AliasesKeepApart ==
  ASSUME \A ds \in Images : OneBlockEach(ds)
  PROVE  Spec => AliasesStayDistinct
<1> DEFINE Apart(T, p) == \A x, y \in T : x.dir = p /\ y.dir = p /\ Alias[x.name] = Alias[y.name] => x = y
           Stays == \A p \in DOMAIN dirs \cap DOMAIN dirs' : Distinct(p) => Distinct(p)'
<1>1. DirInv /\ [Next]_vars => Stays
  <2> SUFFICES ASSUME DirInv, [Next]_vars, NEW p \in DOMAIN dirs, Distinct(p) PROVE Distinct(p)'
    OBVIOUS
  <2>1. Apart(Tree, p) /\ (Apart(Tree', p) => Distinct(p)')
    BY DEF Distinct
  <2>2. (dirs' = dirs /\ Tree' = Tree) \/ TreeChanged
    BY TreeSteps
  <2>3. CASE Tree' = Tree
    BY <2>1, <2>3
  <2>4. CASE Gains(DOMAIN dirs, Tree, DOMAIN dirs', Tree')
    <3>1. Apart(Tree', p)
      BY <2>1, <2>4 DEF Gains
    <3> QED BY <2>1, <3>1
  <2>5. CASE Loses(DOMAIN dirs, Tree, DOMAIN dirs', Tree', path')
    <3>1. Apart(Tree', p)
      BY <2>1, <2>5 DEF Loses
    <3> QED BY <2>1, <3>1
  <2>6. CASE Shifts(DOMAIN dirs, Tree, DOMAIN dirs', Tree', path')
    <3>1. Apart(Tree', p)
      BY <2>1, <2>6 DEF Shifts
    <3> QED BY <2>1, <3>1
  <2> QED BY <2>2, <2>3, <2>4, <2>5, <2>6 DEF TreeChanged
<1>2. DirInv /\ [Next]_vars => [Stays]_vars
  BY <1>1
<1> HIDE DEF Stays
<1>3. Spec => [][Stays]_vars
  BY <1>2, DirInvariant, PTL DEF Spec
<1> QED BY <1>3 DEF AliasesStayDistinct, Stays

(* What is above a directory is within any closed set it is in.            *)
LEMMA AboveIn ==
  ASSUME NEW T, NEW P, NEW q \in P, \A x \in T : x.ino \in P => x.dir \in P
  PROVE  View!Above(T, q) \subseteq P
<1> DEFINE n == Cardinality(Ino)
           A == SUBSET (P \cup {x.dir : x \in T})
           upper == [at \in A |-> at \cup {e.dir : e \in {x \in T : x.ino \in at}}]
           Step(f) == [d \in 0 .. n |->
                        IF d = 0 THEN {q}
                        ELSE LET at == f[d - 1] IN at \cup {e.dir : e \in {x \in T : x.ino \in at}}]
           way == CHOOSE f : f = Step(f)
<1>1. View!Above(T, q) = way[n]
  <2>1. View!Cardinality(Ino) = Cardinality(Ino)
    BY DEF View!Cardinality, Cardinality
  <2> QED BY <2>1 DEF View!Above
<1>2. upper \in [A -> A] /\ {q} \in A
  OBVIOUS
<1>3. n \in Nat /\ n \in 0 .. n /\ 0 \in 0 .. n
  BY DirectoryAssumption, FS_CardinalityType
<1> HIDE DEF upper, n, A
<1>4. PICK g : PathIn(g, A, upper, {q}, n)
  BY <1>2, <1>3, PathExists
<1>5. \A d \in 0 .. n : d # 0 => g[d - 1] \in A
  <2> SUFFICES ASSUME NEW d \in 0 .. n, d # 0 PROVE g[d - 1] \in A
    OBVIOUS
  <2>1. d - 1 \in 0 .. n
    BY <1>3
  <2> QED BY <2>1, <1>4 DEF PathIn
<1>6. g = Step(g)
  BY <1>4, <1>5 DEF upper, PathIn
<1>7. way = Step(way)
  BY <1>6
<1> HIDE DEF way
<1>8. \A d \in 0 .. n : way[d] = IF d = 0 THEN {q}
                                 ELSE way[d - 1] \cup {e.dir : e \in {x \in T : x.ino \in way[d - 1]}}
  BY <1>7
<1>9. way[0] \in SUBSET P
  BY <1>3, <1>8
<1>10. ASSUME NEW d \in 1 .. n, way[d - 1] \in SUBSET P PROVE way[d] \in SUBSET P
  <2>1. way[d] = way[d - 1] \cup {e.dir : e \in {x \in T : x.ino \in way[d - 1]}}
    <3>1. d \in 0 .. n /\ d # 0
      BY <1>3
    <3> QED BY <1>8, <3>1
  <2> QED BY <1>10, <2>1
<1>11. way[n] \in SUBSET P
  BY <1>3, <1>9, <1>10, PathStays
<1> QED BY <1>1, <1>11


(* An entry more is Namespace's Create or Mkdir.                           *)
LEMMA GainIsWhole ==
  ASSUME Gains(DOMAIN dirs, Tree, DOMAIN dirs', Tree')
  PROVE  View!Next
<1> DEFINE D == DOMAIN dirs
<1>1. PICK e : /\ e = [dir |-> e.dir, name |-> e.name, ino |-> e.ino]
               /\ e \notin Tree /\ Tree' = Tree \cup {e} /\ e.dir \in D
               /\ e.ino \notin D \cup Numbered(Tree) /\ e.ino # Root
               /\ \A z \in Tree : z.dir = e.dir => z.name # e.name /\ Alias[z.name] # Alias[e.name]
               /\ DOMAIN dirs' \in {D, D \cup {e.ino}}
  BY DEF Gains
<1>2. e \in Tree' \ Tree /\ Tree' = Tree \cup {View!Entry(e.dir, e.name, e.ino)}
  BY <1>1 DEF View!Entry
<1>3. View!FreeName(e.dir, e.name) /\ e.ino \notin View!Named \cup {Root}
  BY <1>1 DEF View!FreeName, View!Named, Numbered
<1>4. Named = Numbered(Tree) /\ Named' = Named \cup {e.ino}
  BY <1>1 DEF Named, Numbered
<1>5. CASE DOMAIN dirs' = D
  <2>1. [i \in Named' \ DOMAIN dirs' |-> 0] = View!With([i \in Named \ D |-> 0], e.ino, 0)
    BY <1>1, <1>4, <1>5 DEF View!With
  <2>2. View!Create(e.dir, e.name, e.ino)
    BY <1>2, <1>3, <1>5, <2>1 DEF View!Create
  <2> QED BY <1>2, <2>2 DEF View!Next
<1>6. CASE DOMAIN dirs' = D \cup {e.ino}
  <2>1. Named' \ DOMAIN dirs' = Named \ D
    BY <1>1, <1>4, <1>6
  <2>2. View!Mkdir(e.dir, e.name, e.ino)
    BY <1>2, <1>3, <1>6, <2>1 DEF View!Mkdir
  <2> QED BY <1>2, <2>2 DEF View!Next
<1> QED BY <1>1, <1>5, <1>6

(* An entry less is Delete or Rmdir.                                       *)
LEMMA LossIsWhole ==
  ASSUME NEW n, Loses(DOMAIN dirs, Tree, DOMAIN dirs', Tree', n)
  PROVE  View!Next
<1> DEFINE D == DOMAIN dirs
<1>1. PICK e \in Tree : /\ Tree' = Tree \ {e}
                        /\ \A z \in Tree : z.ino = e.ino => z = e
                        /\ \/ e.ino \notin D /\ DOMAIN dirs' = D
                           \/ /\ e.ino \in D /\ (\A z \in Tree : z.dir # e.ino)
                              /\ DOMAIN dirs' = D \ {e.ino}
  BY DEF Loses
<1>2. e \in Tree \ Tree'
  BY <1>1
<1>3. Named' = Named \ {e.ino} /\ e.ino \in Named
  BY <1>1 DEF Named
<1>4. CASE e.ino \notin D /\ DOMAIN dirs' = D
  <2>1. [i \in Named' \ DOMAIN dirs' |-> 0] = View!Without([i \in Named \ D |-> 0], e.ino)
    BY <1>3, <1>4 DEF View!Without
  <2>2. View!Delete(e)
    BY <1>1, <1>4, <2>1 DEF View!Delete
  <2> QED BY <1>2, <2>2 DEF View!Next
<1>5. CASE e.ino \in D /\ (\A z \in Tree : z.dir # e.ino) /\ DOMAIN dirs' = D \ {e.ino}
  <2>1. Named' \ DOMAIN dirs' = Named \ D
    BY <1>3, <1>5
  <2>2. View!Rmdir(e)
    BY <1>1, <1>5, <2>1 DEF View!Rmdir
  <2> QED BY <1>2, <2>2 DEF View!Next
<1> QED BY <1>1, <1>4, <1>5

(* An entry that moves is Rename.                                          *)
LEMMA ShiftIsWhole ==
  ASSUME NEW n, Shifts(DOMAIN dirs, Tree, DOMAIN dirs', Tree', n)
  PROVE  View!Next
<1> DEFINE D == DOMAIN dirs
<1>1. PICK e, f :
        /\ e \in Tree
        /\ f = [dir |-> f.dir, name |-> f.name, ino |-> e.ino]
        /\ f \notin Tree /\ Tree' = (Tree \ {e}) \cup {f} /\ DOMAIN dirs' = D /\ f.dir \in D
        /\ \A z \in Tree : z.dir = f.dir => z.name # f.name /\ Alias[z.name] # Alias[f.name]
        /\ \E C \in SUBSET D : f.dir \in C /\ e.ino \notin C /\ \A z \in Tree : z.ino \in C => z.dir \in C
  BY DEF Shifts
<1>2. e \in Tree \ Tree' /\ f \in Tree' \ Tree /\ f.ino = e.ino
  BY <1>1
<1>3. Tree' = (Tree \ {e}) \cup {View!Entry(f.dir, f.name, e.ino)}
  BY <1>1 DEF View!Entry
<1>4. View!FreeName(f.dir, f.name)
  BY <1>1 DEF View!FreeName
<1>5. e.ino \notin View!Above(Tree, f.dir)
  <2>1. PICK C \in SUBSET D : f.dir \in C /\ e.ino \notin C /\ \A z \in Tree : z.ino \in C => z.dir \in C
    BY <1>1
  <2>2. View!Above(Tree, f.dir) \subseteq C
    BY <2>1, AboveIn
  <2> QED BY <2>1, <2>2
<1>6. Named' = Named
  <2>1. \A i : i \in Named' <=> i \in Named
    BY <1>1, <1>2 DEF Named
  <2> QED BY <2>1
<1>7. View!Rename(e, f.dir, f.name)
  BY <1>1, <1>3, <1>4, <1>5, <1>6 DEF View!Rename
<1> QED BY <1>2, <1>7 DEF View!Next

(* TreeChangesWhole: whatever slack an entry was put in, whatever record   *)
(* it was merged into and whichever block it was in, a call adds, removes  *)
(* or moves the one entry it should, and no directory comes under itself   *)
(* (extent.c:1777, 2478, 2520): the calls implement Namespace.             *)
THEOREM CallsAreWhole ==
  ASSUME \A ds \in Images : OneBlockEach(ds)
  PROVE  Spec => TreeChangesWhole
<1>1. DirInv /\ [Next]_vars => [View!Next]_(View!nsvars)
  <2> SUFFICES ASSUME DirInv, [Next]_vars PROVE View!Next \/ UNCHANGED View!nsvars
    OBVIOUS
  <2>1. (dirs' = dirs /\ Tree' = Tree) \/ TreeChanged
    BY TreeSteps
  <2>2. CASE dirs' = dirs /\ Tree' = Tree
    BY <2>2 DEF View!nsvars, Named
  <2>3. CASE TreeChanged
    BY <2>3, GainIsWhole, LossIsWhole, ShiftIsWhole DEF TreeChanged
  <2> QED BY <2>1, <2>2, <2>3
<1> QED BY <1>1, DirInvariant, PTL DEF Spec, TreeChangesWhole

(***************************************************************************)
(* The order of what is listed.                                            *)
(***************************************************************************)

\* a sequence each of whose elements stands to each later one as R says
Sorted(s, R) == \A i, j \in DOMAIN s : i < j => << s[i], s[j] >> \in R
Across(s, t, R) == \A x \in Range(s), y \in Range(t) : << x, y >> \in R

(* A sorted sequence put behind another one.                               *)
LEMMA BehindSorted ==
  ASSUME NEW A, NEW s \in Seq(A), NEW t \in Seq(A), NEW R,
         Sorted(s, R), Sorted(t, R), Across(s, t, R)
  PROVE  Sorted(s \o t, R)
<1> DEFINE u == s \o t
<1>1. /\ DOMAIN u = 1 .. Len(s) + Len(t)
      /\ \A k \in 1 .. Len(s) : u[k] = s[k]
      /\ \A k \in 1 .. Len(t) : u[Len(s) + k] = t[k]
      /\ DOMAIN s = 1 .. Len(s) /\ DOMAIN t = 1 .. Len(t)
      /\ Len(s) \in Nat /\ Len(t) \in Nat
  OBVIOUS
<1> HIDE DEF u
<1>2. ASSUME NEW k \in DOMAIN u, ~(k <= Len(s))
      PROVE  k - Len(s) \in DOMAIN t /\ u[k] = t[k - Len(s)]
  <2>1. k - Len(s) \in 1 .. Len(t) /\ Len(s) + (k - Len(s)) = k
    BY <1>1, <1>2
  <2> QED BY <1>1, <2>1
<1>3. ASSUME NEW i \in DOMAIN u, NEW j \in DOMAIN u, i < j
      PROVE  << u[i], u[j] >> \in R
  <2>1. CASE j <= Len(s)
    <3>1. i \in DOMAIN s /\ j \in DOMAIN s /\ u[i] = s[i] /\ u[j] = s[j]
      BY <1>1, <1>3, <2>1
    <3> QED BY <1>3, <3>1 DEF Sorted
  <2>2. CASE i <= Len(s) /\ ~(j <= Len(s))
    <3>1. i \in DOMAIN s /\ u[i] = s[i]
      BY <1>1, <1>3, <2>2
    <3>2. j - Len(s) \in DOMAIN t /\ u[j] = t[j - Len(s)]
      BY <1>2, <1>3, <2>2
    <3>3. s[i] \in Range(s) /\ t[j - Len(s)] \in Range(t)
      BY <3>1, <3>2 DEF Range
    <3> QED BY <3>1, <3>2, <3>3 DEF Across
  <2>3. CASE ~(i <= Len(s))
    <3>1. ~(j <= Len(s))
      BY <1>1, <1>3, <2>3
    <3>2. /\ i - Len(s) \in DOMAIN t /\ u[i] = t[i - Len(s)]
          /\ j - Len(s) \in DOMAIN t /\ u[j] = t[j - Len(s)]
      BY <1>2, <1>3, <2>3, <3>1
    <3>3. i - Len(s) < j - Len(s)
      BY <1>1, <1>3
    <3> QED BY <3>2, <3>3 DEF Sorted
  <2> QED BY <2>1, <2>2, <2>3
<1> QED BY <1>3 DEF Sorted, u

\* sequences sorted, and one before the other
SortedParts(ss, R) ==
  /\ \A k \in DOMAIN ss : Sorted(ss[k], R)
  /\ \A k, l \in DOMAIN ss : k < l => Across(ss[k], ss[l], R)

(* Sequences one behind the other.                                         *)
LEMMA FlattenSorted ==
  ASSUME NEW A, NEW ss \in Seq(Seq(A)), NEW R, SortedParts(ss, R)
  PROVE  Sorted(FlattenSeq(ss), R)
<1> DEFINE n == Len(ss)
<1>1. n \in Nat /\ DOMAIN ss = 1 .. n /\ \A k \in 1 .. n : ss[k] \in Seq(A)
  OBVIOUS
<1>2. CASE n = 0
  <2>1. ss = << >> /\ FlattenSeq(ss) = << >>
    BY <1>2 DEF FlattenSeq
  <2>2. DOMAIN << >> = {}
    OBVIOUS
  <2> QED BY <2>1, <2>2 DEF Sorted
<1>3. CASE n # 0
  <2>1. PICK f : Joined(ss, f) /\ FlattenSeq(ss) = f[n]
    BY <1>3, FlattenSteps
  <2> HIDE DEF n
  <2>2. \A i \in 1 .. n : f[i] = IF i = 1 THEN ss[i] ELSE f[i - 1] \o ss[i]
    BY <2>1 DEF Joined, n
  <2>3. 1 \in 1 .. n /\ n \in 1 .. n
    BY <1>1, <1>3
  <2> DEFINE Good2(m) == /\ f[m] \in Seq(A) /\ Sorted(f[m], R)
                         /\ \A x \in Range(f[m]) : \E k \in 1 .. m : x \in Range(ss[k])
             G == {m \in 1 .. n : Good2(m)}
  <2>4. 1 \in G
    <3>1. f[1] = ss[1] /\ ss[1] \in Seq(A) /\ Sorted(ss[1], R) /\ 1 \in 1 .. 1
      BY <1>1, <2>2, <2>3 DEF SortedParts
    <3>2. Good2(1)
      BY <3>1
    <3> HIDE DEF Good2
    <3> QED BY <2>3, <3>2
  <2>5. ASSUME NEW m \in 1 .. n, m + 1 <= n, m \in G PROVE m + 1 \in G
    <3>1. m + 1 \in 1 .. n /\ m + 1 # 1 /\ (m + 1) - 1 = m
      BY <1>1, <2>5
    <3>2. f[m + 1] = f[m] \o ss[m + 1]
      BY <2>2, <3>1
    <3>3. /\ f[m] \in Seq(A) /\ ss[m + 1] \in Seq(A) /\ Sorted(f[m], R) /\ Sorted(ss[m + 1], R)
          /\ \A x \in Range(f[m]) : \E k \in 1 .. m : x \in Range(ss[k])
      BY <1>1, <2>5, <3>1 DEF SortedParts
    <3>4. Across(f[m], ss[m + 1], R)
      <4>1. ASSUME NEW x \in Range(f[m]), NEW y \in Range(ss[m + 1]) PROVE << x, y >> \in R
        <5>1. PICK k \in 1 .. m : x \in Range(ss[k])
          BY <3>3, <4>1
        <5>2. k \in DOMAIN ss /\ m + 1 \in DOMAIN ss /\ k < m + 1
          BY <1>1, <3>1
        <5>3. Across(ss[k], ss[m + 1], R)
          BY <5>2 DEF SortedParts
        <5> QED BY <4>1, <5>1, <5>3 DEF Across
      <4> QED BY <4>1 DEF Across
    <3>5. /\ f[m + 1] \in Seq(A) /\ Sorted(f[m + 1], R)
          /\ Range(f[m + 1]) = Range(f[m]) \cup Range(ss[m + 1])
      BY <3>2, <3>3, <3>4, Behind, BehindSorted
    <3>6. \A x \in Range(f[m + 1]) : \E k \in 1 .. m + 1 : x \in Range(ss[k])
      <4>1. m + 1 \in 1 .. m + 1 /\ \A k \in 1 .. m : k \in 1 .. m + 1
        BY <1>1
      <4> QED BY <3>3, <3>5, <4>1
    <3> QED BY <3>1, <3>5, <3>6
  <2>6. n \in G
    <3> HIDE DEF G
    <3>1. \A m \in 1 .. n : m \in G
      BY <1>1, <2>4, <2>5, FromTheFirst
    <3> QED BY <2>3, <3>1
  <2> QED BY <2>1, <2>6 DEF n
<1> QED BY <1>2, <1>3


\* of the elements of e those at the places in T, each a sequence of its own
Singly(n, e, T) == [k \in 1 .. n |-> IF k \in T THEN << e[k] >> ELSE << >>]
Those(s, e, T) == \A x \in Range(s) : \E k \in T : x = e[k]

(* Put one behind the other they are those elements, in their order.       *)
LEMMA PickedShows ==
  ASSUME NEW A, NEW n \in Nat, NEW e, NEW T \in SUBSET (1 .. n), \A k \in T : e[k] \in A,
         NEW R, \A k, l \in T : k < l => << e[k], e[l] >> \in R
  PROVE  /\ FlattenSeq(Singly(n, e, T)) \in Seq(A)
         /\ Those(FlattenSeq(Singly(n, e, T)), e, T)
         /\ Sorted(FlattenSeq(Singly(n, e, T)), R)
<1> DEFINE ss == Singly(n, e, T)
<1>1. /\ DOMAIN ss = 1 .. n
      /\ \A k \in T : ss[k] = << e[k] >>
      /\ \A k \in 1 .. n : k \notin T => ss[k] = << >>
  BY DEF Singly
<1>2. ss \in Seq(Seq(A))
  <2>1. \A k \in T : << e[k] >> \in Seq(A)
    OBVIOUS
  <2>2. << >> \in Seq(A)
    OBVIOUS
  <2>3. ss \in [1 .. n -> Seq(A)]
    BY <2>1, <2>2 DEF Singly
  <2> HIDE DEF ss
  <2> QED BY <2>3
<1> HIDE DEF ss
<1>3. \A k \in T : Range(ss[k]) = {e[k]} /\ Sorted(ss[k], R)
  <2> SUFFICES ASSUME NEW k \in T PROVE Range(<< e[k] >>) = {e[k]} /\ Sorted(<< e[k] >>, R)
    BY <1>1
  <2>1. DOMAIN << e[k] >> = {1} /\ << e[k] >>[1] = e[k]
    OBVIOUS
  <2> QED BY <2>1 DEF Range, Sorted
<1>4. \A k \in 1 .. n : k \notin T => Range(ss[k]) = {} /\ Sorted(ss[k], R)
  <2>1. DOMAIN << >> = {}
    OBVIOUS
  <2>2. Range(<< >>) = {} /\ Sorted(<< >>, R)
    BY <2>1 DEF Range, Sorted
  <2> QED BY <1>1, <2>2
<1>5. SortedParts(ss, R)
  <2>1. \A k \in DOMAIN ss : Sorted(ss[k], R)
    BY <1>1, <1>3, <1>4
  <2>2. ASSUME NEW k \in DOMAIN ss, NEW l \in DOMAIN ss, k < l PROVE Across(ss[k], ss[l], R)
    <3>1. ASSUME NEW x \in Range(ss[k]), NEW y \in Range(ss[l]) PROVE << x, y >> \in R
      <4>1. k \in T /\ l \in T /\ x = e[k] /\ y = e[l]
        BY <1>1, <1>3, <1>4, <3>1
      <4> QED BY <2>2, <4>1
    <3> QED BY <3>1 DEF Across
  <2> QED BY <2>1, <2>2 DEF SortedParts
<1>6. /\ FlattenSeq(ss) \in Seq(A) /\ Sorted(FlattenSeq(ss), R)
      /\ \A x : x \in Range(FlattenSeq(ss)) <=> \E k \in DOMAIN ss : x \in Range(ss[k])
  BY <1>2, <1>5, FlattenShows, FlattenSorted
<1>7. \A x : (\E k \in DOMAIN ss : x \in Range(ss[k])) <=> \E k \in T : x = e[k]
  BY <1>1, <1>3, <1>4
<1> QED BY <1>6, <1>7 DEF ss, Those

Less == {r \in Offset \X Offset : r[1] < r[2]}

(* A walk goes up.                                                         *)
LEMMA VisitsRise ==
  ASSUME NEW blk \in RawBlock, NEW f, Visits(blk, f)
  PROVE  \A o \in 0 .. BlockSize : Sorted(f[o], Less) /\ \A x \in Range(f[o]) : x >= o
<1> DEFINE G == {o \in 0 .. BlockSize : Sorted(f[o], Less) /\ \A x \in Range(f[o]) : x >= o}
<1>1. ASSUME NEW o \in 0 .. BlockSize, \A k \in o + 1 .. BlockSize : k \in G PROVE o \in G
  <2>1. f[o] = StepAt(blk, f, o)
    BY DEF Visits
  <2>2. CASE o + 2 <= BlockSize /\ Sound(blk, o)
    <3> DEFINE q == o + blk[o].len
    <3>1. o \in Offset /\ q \in o + 1 .. BlockSize
      BY <2>2, StepForward
    <3>2. f[o] = << o >> \o f[q]
      BY <2>1, <2>2 DEF StepAt
    <3> HIDE DEF q
    <3>3. q \in 0 .. BlockSize /\ o < q
      BY <3>1, SizeFacts
    <3>4. f[q] \in Seq(Offset) /\ Sorted(f[q], Less) /\ \A x \in Range(f[q]) : x >= q
      BY <1>1, <3>1, <3>3 DEF Visits
    <3>5. \A x \in Range(f[q]) : x \in Offset
      BY <3>4 DEF Range
    <3>6. DOMAIN << o >> = {1} /\ << o >>[1] = o /\ << o >> \in Seq(Offset)
      BY <3>1
    <3>7. Range(<< o >>) = {o} /\ Sorted(<< o >>, Less)
      BY <3>6 DEF Range, Sorted
    <3>8. Across(<< o >>, f[q], Less)
      <4>1. ASSUME NEW x \in Range(f[q]) PROVE << o, x >> \in Less
        <5>1. o < x /\ x \in Offset
          BY <3>1, <3>3, <3>4, <3>5, SizeFacts DEF Offset
        <5> QED BY <3>1, <5>1 DEF Less
      <4> QED BY <3>7, <4>1 DEF Across
    <3>9. Sorted(f[o], Less) /\ Range(f[o]) = {o} \cup Range(f[q])
      <4> DEFINE s == << o >>
                 t == f[q]
      <4>1. s \in Seq(Offset) /\ t \in Seq(Offset) /\ f[o] = s \o t
        BY <3>2, <3>4, <3>6
      <4>2. Sorted(s, Less) /\ Sorted(t, Less) /\ Across(s, t, Less)
        BY <3>4, <3>7, <3>8
      <4>3. Range(s) = {o}
        BY <3>7
      <4> HIDE DEF s, t
      <4>4. Range(s \o t) = Range(s) \cup Range(t)
        BY <4>1, Behind
      <4>5. Sorted(s \o t, Less)
        BY <4>1, <4>2, BehindSorted
      <4>6. Sorted(f[o], Less) /\ Range(f[o]) = {o} \cup Range(t)
        BY <4>1, <4>3, <4>4, <4>5
      <4> QED BY <4>6 DEF t
    <3>10. \A x \in Range(f[q]) : x >= o
      BY <3>1, <3>3, <3>4, <3>5, SizeFacts DEF Offset
    <3> QED BY <3>9, <3>10
  <2>3. CASE ~(o + 2 <= BlockSize /\ Sound(blk, o))
    <3>1. f[o] = << >> /\ DOMAIN << >> = {}
      BY <2>1, <2>3 DEF StepAt
    <3> QED BY <3>1 DEF Sorted, Range
  <2> QED BY <2>2, <2>3
<1>2. \A o \in 0 .. BlockSize : o \in G
  <2> HIDE DEF G
  <2> QED BY <1>1, SizeFacts, FromTheTop
<1> QED BY <1>2

(* So the offsets of a block are in their order.                           *)
LEMMA OffsetsRise ==
  ASSUME NEW blk \in RawBlock
  PROVE  /\ Offsets(blk) \in Seq(Offset)
         /\ \A i, j \in DOMAIN Offsets(blk) : i < j => Offsets(blk)[i] < Offsets(blk)[j]
<1>1. PICK f : Visits(blk, f) /\ Offsets(blk) = f[0]
  BY OffsetsAre
<1>2. 0 \in 0 .. BlockSize
  BY SizeFacts
<1>3. Sorted(f[0], Less) /\ f[0] \in Seq(Offset)
  BY <1>1, <1>2, VisitsRise DEF Visits
<1> QED BY <1>1, <1>3 DEF Sorted, Less


\* one line before another one, as a directory is read
Before(x, y) == x.blk < y.blk \/ (x.blk = y.blk /\ x.at < y.at)
RootLines(ds) == {x \in Lines(ds) : x.dir = Root}
\* records that stand for lines of the root in their order
InOrder(ds) ==
  {r \in Record \X Record :
     \A x, y \in RootLines(ds) : x.ino = r[1].ino /\ y.ino = r[2].ino => Before(x, y)}

(* A line of the root is where a record has its inode.                     *)
LEMMA RootPlace ==
  ASSUME NEW ds, SoundDirs(ds), NEW k \in DOMAIN ds[Root].blks, NEW o \in LiveAt(ds[Root].blks[k]),
         NEW x \in RootLines(ds), x.ino = ds[Root].blks[k][o].ino
  PROVE  x.blk = k /\ x.at = o
<1> DEFINE d == ds[Root]
           y == Line(Root, k, o, d.blks[k][o])
<1>1. /\ TreeOf(DOMAIN ds, Lines(ds), Ups(ds)) /\ Root \in DOMAIN ds
      /\ DirShaped(Root, d) /\ Ups(ds)[Root] = DotDot(d)
  BY SoundFacts DEF TreeOf
<1>2. x \in Lines(ds) /\ x.ino # Root
  BY SoundFacts DEF RootLines
<1>3. d.blks[k][o].name \notin Dots
  <2> SUFFICES ASSUME d.blks[k][o].name \in Dots PROVE FALSE
    OBVIOUS
  <2>1. k = 1 /\ o \in {0, 3}
    BY <1>1, ShapedIs
  <2>2. d.blks[1][0].ino = Root /\ d.blks[1][3].ino = Root
    BY <1>1, ShapedIs DEF TreeOf
  <2> QED BY <1>2, <2>1, <2>2
<1>4. y \in Lines(ds) /\ y.ino = x.ino /\ y.blk = k /\ y.at = o
  <2>1. y \in BlockLines(Root, k, d.blks[k])
    BY <1>3, InBlockLines
  <2>2. y \in DirLines(Root, d)
    BY <2>1, InDirLines
  <2>3. y \in Lines(ds)
    BY <1>1, <2>2, LinesIn
  <2> QED BY <2>3, LineFields
<1> HIDE DEF y
<1>5. x = y
  BY <1>1, <1>2, <1>4 DEF TreeOf, Unique
<1> QED BY <1>4, <1>5

(* Records that are listed one after the other stand for lines in order.   *)
LEMMA OrderIs ==
  ASSUME NEW ds, SoundDirs(ds),
         NEW k \in DOMAIN ds[Root].blks, NEW o \in LiveAt(ds[Root].blks[k]),
         NEW l \in DOMAIN ds[Root].blks, NEW q \in LiveAt(ds[Root].blks[l]),
         k < l \/ (k = l /\ o < q),
         ds[Root].blks[k][o] \in Record, ds[Root].blks[l][q] \in Record
  PROVE  << ds[Root].blks[k][o], ds[Root].blks[l][q] >> \in InOrder(ds)
<1> DEFINE c == ds[Root].blks[k][o]
           e == ds[Root].blks[l][q]
<1>1. ASSUME NEW x \in RootLines(ds), NEW y \in RootLines(ds), x.ino = c.ino, y.ino = e.ino
      PROVE  Before(x, y)
  <2>1. x.blk = k /\ x.at = o
    BY <1>1, RootPlace
  <2>2. y.blk = l /\ y.at = q
    BY <1>1, RootPlace
  <2> QED BY <2>1, <2>2 DEF Before
<1>2. << c, e >> \in Record \X Record /\ << c, e >>[1] = c /\ << c, e >>[2] = e
  OBVIOUS
<1> HIDE DEF c, e
<1>3. << c, e >> \in InOrder(ds)
  BY <1>1, <1>2 DEF InOrder
<1> QED BY <1>3 DEF c, e

(* A block of the root lists its records in order.                         *)
LEMMA ListedSorted ==
  ASSUME NEW ds, SoundDirs(ds), NEW k \in DOMAIN ds[Root].blks
  PROVE  /\ Sorted(Listed(ds[Root].blks[k]), InOrder(ds))
         /\ Listed(ds[Root].blks[k]) \in Seq(Record)
         /\ \A c : c \in Range(Listed(ds[Root].blks[k])) <=>
                     \E o \in LiveAt(ds[Root].blks[k]) : c = ds[Root].blks[k][o]
         /\ \A o \in LiveAt(ds[Root].blks[k]) : ds[Root].blks[k][o] \in Record
<1> DEFINE d == ds[Root]
           blk == d.blks[k]
           at == Offsets(blk)
           n == Len(at)
           e == [j \in 1 .. n |-> blk[at[j]]]
           T == {j \in 1 .. n : Shown(blk, at[j])}
<1>1. Root \in DOMAIN ds /\ DirShaped(Root, d)
  BY SoundFacts DEF TreeOf
<1>2. blk \in RawBlock /\ Laid(blk, Tails /\ ~IndexBlock(d, k), At(blk))
  BY <1>1, ShapedIs DEF Fits
<1>3. /\ at \in Seq(Offset)
      /\ \A i, j \in DOMAIN at : i < j => at[i] < at[j]
  BY <1>2, OffsetsRise
<1>4. n \in Nat /\ DOMAIN at = 1 .. n /\ \A j \in 1 .. n : at[j] \in Offset
  BY <1>3
<1>5. \A j \in 1 .. n : at[j] \in At(blk) /\ blk[at[j]] \in Record
  <2>1. \A j \in 1 .. n : blk[at[j]] \in Record
    BY <1>2, <1>4, LenFacts
  <2>2. \A j \in 1 .. n : at[j] \in Range(at)
    <3> HIDE DEF at
    <3> QED BY <1>4 DEF Range
  <2> QED BY <2>1, <2>2 DEF At
<1>6. \A j \in T : at[j] \in LiveAt(blk)
  BY <1>5 DEF LiveAt, Shown
<1>7. \A o \in LiveAt(blk) : blk[o] \in Record
  <2>1. Chain(blk, 0, At(blk))
    BY <1>2 DEF Laid
  <2>2. At(blk) \subseteq Offset
    BY <1>2, <2>1, ChainIs
  <2> QED BY <1>2, <2>2, LenFacts DEF LiveAt
<1>8. Listed(blk) = FlattenSeq(Singly(n, e, T))
  <2>1. Singly(n, e, T) = [j \in DOMAIN at |-> IF Shown(blk, at[j]) THEN << blk[at[j]] >> ELSE << >>]
    BY <1>4 DEF Singly
  <2> QED BY <2>1 DEF Listed
<1>9. \A i, j \in T : i < j => << e[i], e[j] >> \in InOrder(ds)
  <2> SUFFICES ASSUME NEW i \in T, NEW j \in T, i < j PROVE << e[i], e[j] >> \in InOrder(ds)
    OBVIOUS
  <2>1. e[i] = blk[at[i]] /\ e[j] = blk[at[j]] /\ at[i] \in LiveAt(blk) /\ at[j] \in LiveAt(blk)
    BY <1>6
  <2>2. at[i] < at[j] /\ blk[at[i]] \in Record /\ blk[at[j]] \in Record
    BY <1>3, <1>4, <1>5
  <2> HIDE DEF e, T, at
  <2>3. << blk[at[i]], blk[at[j]] >> \in InOrder(ds)
    BY <2>1, <2>2, OrderIs
  <2> QED BY <2>1, <2>3
<1>10. T \in SUBSET (1 .. n) /\ \A j \in T : e[j] \in Record
  BY <1>5
<1> HIDE DEF e, T, at, n
<1>11. Sorted(Listed(blk), InOrder(ds))
  <2> DEFINE R == InOrder(ds)
  <2>1. n \in Nat /\ \A i, j \in T : i < j => << e[i], e[j] >> \in R
    BY <1>4, <1>9
  <2> HIDE DEF R
  <2>2. Sorted(FlattenSeq(Singly(n, e, T)), R)
    BY <1>10, <2>1, PickedShows
  <2> QED BY <1>8, <2>2 DEF R
<1>12. /\ Listed(blk) \in Seq(Record)
       /\ \A c : c \in Range(Listed(blk)) <=> \E o \in LiveAt(blk) : c = blk[o]
  BY <1>2, ListedShows
<1> QED BY <1>7, <1>11, <1>12


(* So does the root.                                                       *)
LEMMA ListingSorted ==
  ASSUME NEW ds, SoundDirs(ds)
  PROVE  /\ Listings(ds)[Root] \in Seq(Record) /\ Root \in DOMAIN ds
         /\ Sorted(Listings(ds)[Root], InOrder(ds))
<1> DEFINE d == ds[Root]
           ss == [k \in DOMAIN d.blks |-> Listed(d.blks[k])]
<1>1. Root \in DOMAIN ds /\ DirShaped(Root, d) /\ ShapedDirs(ds)
  BY SoundFacts DEF TreeOf
<1>2. d.blks \in Seq(RawBlock)
  BY <1>1 DEF DirShaped, DirRecord
<1>3. \A k \in DOMAIN d.blks : /\ Sorted(Listed(d.blks[k]), InOrder(ds))
                               /\ Listed(d.blks[k]) \in Seq(Record)
  BY ListedSorted
<1>4. DOMAIN ss = DOMAIN d.blks /\ \A k \in DOMAIN d.blks : ss[k] = Listed(d.blks[k])
  OBVIOUS
<1>5. ss \in Seq(Seq(Record))
  <2>1. DOMAIN d.blks = 1 .. Len(d.blks) /\ Len(d.blks) \in Nat
    BY <1>2
  <2>2. ss \in [1 .. Len(d.blks) -> Seq(Record)]
    BY <1>3, <2>1
  <2> HIDE DEF ss, d
  <2> QED BY <2>1, <2>2
<1>6. \A k, l \in DOMAIN d.blks : k < l => Across(ss[k], ss[l], InOrder(ds))
  <2> SUFFICES ASSUME NEW k \in DOMAIN d.blks, NEW l \in DOMAIN d.blks, k < l,
                      NEW x \in Range(Listed(d.blks[k])), NEW y \in Range(Listed(d.blks[l]))
               PROVE  << x, y >> \in InOrder(ds)
    BY <1>4 DEF Across
  <2>1. PICK o \in LiveAt(d.blks[k]) : x = d.blks[k][o] /\ d.blks[k][o] \in Record
    BY ListedSorted
  <2>2. PICK q \in LiveAt(d.blks[l]) : y = d.blks[l][q] /\ d.blks[l][q] \in Record
    BY ListedSorted
  <2>3. << d.blks[k][o], d.blks[l][q] >> \in InOrder(ds)
    BY <2>1, <2>2, OrderIs
  <2> QED BY <2>1, <2>2, <2>3
<1>7. Listings(ds)[Root] = FlattenSeq(ss)
  BY <1>1 DEF Listings
<1>8. SortedParts(ss, InOrder(ds))
  <2> HIDE DEF ss
  <2> QED BY <1>3, <1>4, <1>6 DEF SortedParts
<1> HIDE DEF ss
<1>9. Sorted(FlattenSeq(ss), InOrder(ds))
  BY <1>5, <1>8, FlattenSorted
<1>10. Listings(ds)[Root] \in Seq(Record)
  BY <1>1, ListingShows
<1> QED BY <1>1, <1>7, <1>9, <1>10

\* a sequence of records that stand for lines of the root, in their order
Follows(ds, s) ==
  /\ s \in Seq(Record)
  /\ \A j \in DOMAIN s : \E x \in RootLines(ds) : x.ino = s[j].ino
  /\ \A i, j \in DOMAIN s : i < j =>
       \A x, y \in RootLines(ds) : x.ino = s[i].ino /\ y.ino = s[j].ino => Before(x, y)

(* What matches a pattern is one.                                          *)
LEMMA MatchingFollows ==
  ASSUME NEW ds, SoundDirs(ds), NEW pat \in Spelled \cup {Everything}
  PROVE  Follows(ds, Matching(Listings(ds)[Root], pat))
<1> DEFINE s == Listings(ds)[Root]
           n == Len(s)
           T == {k \in 1 .. n : s[k].name \in Matches[pat]}
           m == Matching(s, pat)
<1>1. s \in Seq(Record) /\ Root \in DOMAIN ds /\ Sorted(s, InOrder(ds)) /\ ShapedDirs(ds)
  BY ListingSorted, SoundFacts
<1>2. n \in Nat /\ DOMAIN s = 1 .. n /\ \A k \in 1 .. n : s[k] \in Record
  BY <1>1
<1>3. m = FlattenSeq(Singly(n, s, T))
  <2>1. Singly(n, s, T) = [k \in DOMAIN s |-> IF s[k].name \in Matches[pat] THEN << s[k] >> ELSE << >>]
    BY <1>2 DEF Singly
  <2> QED BY <2>1 DEF Matching
<1>4. T \in SUBSET (1 .. n) /\ \A k \in T : s[k] \in Record /\ s[k].name \in Matches[pat]
  BY <1>2
<1>5. \A k, l \in T : k < l => << s[k], s[l] >> \in InOrder(ds)
  BY <1>1, <1>2 DEF Sorted
<1>6. \A k \in T : \E x \in RootLines(ds) : x.ino = s[k].ino
  <2> SUFFICES ASSUME NEW k \in T PROVE \E x \in RootLines(ds) : x.ino = s[k].ino
    OBVIOUS
  <2>1. s[k].name \notin Dots
    <3>1. Matches[pat] \subseteq Name
      BY SearchAssumption
    <3> QED BY <1>4, <3>1, NameFacts
  <2>2. s[k] \in Range(s)
    <3> HIDE DEF s, n
    <3> QED BY <1>2, <1>4 DEF Range
  <2>3. \E x \in Lines(ds) : x.dir = Root /\ x.ino = s[k].ino
    BY <1>1, <2>1, <2>2, ListedNames
  <2> QED BY <2>3 DEF RootLines
<1> HIDE DEF s, n, T, m
<1>7. /\ m \in Seq(Record) /\ Sorted(m, InOrder(ds))
      /\ \A x \in Range(m) : \E k \in T : x = s[k]
  <2> DEFINE R == InOrder(ds)
  <2>1. /\ n \in Nat /\ \A i, j \in T : i < j => << s[i], s[j] >> \in R
        /\ \A k \in T : s[k] \in Record
    BY <1>2, <1>4, <1>5
  <2> HIDE DEF R
  <2>2. T \in SUBSET (1 .. n) /\ \A i, j \in T : i < j => << s[i], s[j] >> \in R
    BY <1>4, <2>1
  <2>3. FlattenSeq(Singly(n, s, T)) \in Seq(Record)
    BY <2>1, <2>2, PickedShows
  <2>4. Sorted(FlattenSeq(Singly(n, s, T)), R)
    BY <2>1, <2>2, PickedShows
  <2>5. Those(FlattenSeq(Singly(n, s, T)), s, T)
    BY <2>1, <2>2, PickedShows
  <2> QED BY <1>3, <2>3, <2>4, <2>5 DEF R, Those
<1>8. \A j \in DOMAIN m : \E x \in RootLines(ds) : x.ino = m[j].ino
  <2> SUFFICES ASSUME NEW j \in DOMAIN m PROVE \E x \in RootLines(ds) : x.ino = m[j].ino
    OBVIOUS
  <2>1. m[j] \in Range(m)
    BY DEF Range
  <2>2. PICK k \in T : m[j] = s[k]
    BY <1>7, <2>1
  <2> QED BY <1>6, <2>2
<1>9. \A i, j \in DOMAIN m : i < j =>
        \A x, y \in RootLines(ds) : x.ino = m[i].ino /\ y.ino = m[j].ino => Before(x, y)
  BY <1>7 DEF Sorted, InOrder
<1>10. Follows(ds, m)
  BY <1>7, <1>8, <1>9 DEF Follows
<1> QED BY <1>10 DEF m, s

(* No line is before itself, nor two before each other.                    *)
LEMMA BeforeIs ==
  ASSUME NEW ds, SoundDirs(ds), NEW x \in RootLines(ds), NEW y \in RootLines(ds)
  PROVE  ~(Before(x, y) /\ Before(y, x))
<1> DEFINE d == ds[Root]
<1>1. \A z \in RootLines(ds) : z.blk \in Nat /\ z.at \in Nat
  <2> SUFFICES ASSUME NEW z \in RootLines(ds) PROVE z.blk \in Nat /\ z.at \in Nat
    OBVIOUS
  <2>1. z.dir = Root /\ z \in DirLines(Root, d) /\ Root \in DOMAIN ds
    BY LinesIn DEF RootLines
  <2>2. DirShaped(Root, d)
    BY <2>1, SoundFacts
  <2>3. z.blk \in DOMAIN d.blks /\ z.at \in LiveAt(d.blks[z.blk])
    BY <2>1, InDirLines, InBlockLines
  <2>4. z.blk \in Nat /\ d.blks[z.blk] \in RawBlock
        /\ Laid(d.blks[z.blk], Tails /\ ~IndexBlock(d, z.blk), At(d.blks[z.blk]))
    BY <2>2, <2>3, ShapedIs DEF Fits
  <2>5. At(d.blks[z.blk]) \subseteq Offset
    BY <2>4, ChainIs DEF Laid
  <2> QED BY <2>3, <2>4, <2>5, SizeFacts DEF LiveAt, Offset
<1> QED BY <1>1 DEF Before

(* No two of them have the same inode.                                     *)
LEMMA FollowsOnce ==
  ASSUME NEW ds, SoundDirs(ds), NEW s, Follows(ds, s),
         NEW i \in DOMAIN s, NEW j \in DOMAIN s, s[i].ino = s[j].ino
  PROVE  i = j
<1>1. PICK x \in RootLines(ds) : x.ino = s[i].ino
  BY DEF Follows
<1>2. ~(i < j) /\ ~(j < i)
  BY <1>1, BeforeIs DEF Follows
<1>3. i \in Nat /\ j \in Nat
  BY DEF Follows
<1> QED BY <1>2, <1>3


\* what two sequences both hold comes in the same order
Agree(s, t) ==
  \A i, j \in DOMAIN s, a, b \in DOMAIN t :
    s[i].ino = t[a].ino /\ s[j].ino = t[b].ino /\ i < j => a < b
\* the lines of the root that stay, stay where they are
PlacesKept(ds, ds2) ==
  \A x \in RootLines(ds), y \in RootLines(ds2) : x.ino = y.ino => SamePlace(x, y)

(* So it is with what follows lines that stay.                             *)
LEMMA FollowsAgree ==
  ASSUME NEW ds, NEW ds2, SoundDirs(ds2), PlacesKept(ds, ds2),
         NEW s, NEW t, Follows(ds, s), Follows(ds2, t)
  PROVE  Agree(s, t)
<1> SUFFICES ASSUME NEW i \in DOMAIN s, NEW j \in DOMAIN s, NEW a \in DOMAIN t, NEW b \in DOMAIN t,
                    s[i].ino = t[a].ino, s[j].ino = t[b].ino, i < j
             PROVE  a < b
  BY DEF Agree
<1>1. PICK x \in RootLines(ds), y \in RootLines(ds) : x.ino = s[i].ino /\ y.ino = s[j].ino
  BY DEF Follows
<1>2. PICK u \in RootLines(ds2), v \in RootLines(ds2) : u.ino = t[a].ino /\ v.ino = t[b].ino
  BY DEF Follows
<1>3. Before(x, y)
  BY <1>1 DEF Follows
<1>4. SamePlace(x, u) /\ SamePlace(y, v)
  BY <1>1, <1>2 DEF PlacesKept
<1>5. Before(u, v)
  BY <1>3, <1>4 DEF Before, SamePlace
<1>6. a \in Nat /\ b \in Nat
  BY DEF Follows
<1>7. CASE b < a
  <2>1. Before(v, u)
    BY <1>2, <1>7 DEF Follows
  <2> QED BY <1>5, <2>1, BeforeIs
<1>8. CASE a = b
  <2>1. u.ino = v.ino
    BY <1>2, <1>8
  <2>2. u = v
    BY <2>1, SoundFacts DEF RootLines, TreeOf, Unique
  <2> QED BY <1>5, <2>2, BeforeIs
<1> QED BY <1>6, <1>7, <1>8

(* What two sequences hold, of which the first holds all that the second   *)
(* does, is no later in the second.                                        *)
LEMMA NoLater ==
  ASSUME NEW s, NEW t, s \in Seq(Record), t \in Seq(Record), Agree(s, t),
         \A a, b \in DOMAIN t : t[a].ino = t[b].ino => a = b,
         Inos(t) \subseteq Inos(s),
         NEW a \in DOMAIN t, NEW i \in DOMAIN s, s[i].ino = t[a].ino
  PROVE  a <= i
<1> DEFINE M == {b \in DOMAIN t : \E j \in DOMAIN s : s[j].ino = t[b].ino /\ j < b}
<1>1. /\ DOMAIN s = 1 .. Len(s) /\ DOMAIN t = 1 .. Len(t) /\ Len(s) \in Nat /\ Len(t) \in Nat
  OBVIOUS
<1> SUFFICES ASSUME i < a PROVE FALSE
  BY <1>1
<1>2. M \in SUBSET Nat /\ M # {}
  BY <1>1
<1>3. PICK b \in M : \A c \in M : b <= c
  <2> HIDE DEF M
  <2> QED BY <1>2, LeastExists
<1>4. PICK j \in DOMAIN s : s[j].ino = t[b].ino /\ j < b
  BY <1>3
<1>5. b - 1 \in DOMAIN t /\ b \in DOMAIN t /\ b \in Nat /\ j \in Nat
  BY <1>1, <1>3, <1>4
<1>6. PICK k \in DOMAIN s : s[k].ino = t[b - 1].ino
  <2> HIDE DEF M
  <2>1. t[b - 1].ino \in Inos(t)
    BY <1>5 DEF Inos
  <2>2. t[b - 1].ino \in Inos(s)
    BY <2>1
  <2> QED BY <2>2 DEF Inos
<1>7. ~(k < b - 1)
  <2>1. b - 1 \notin M
    BY <1>3, <1>5
  <2> QED BY <1>5, <1>6, <2>1
<1>8. j # k
  <2>1. j = k => b = b - 1
    BY <1>4, <1>5, <1>6
  <2> QED BY <1>5, <2>1
<1>9. j < k
  BY <1>1, <1>4, <1>5, <1>7, <1>8
<1>10. b < b - 1
  BY <1>4, <1>5, <1>6, <1>9 DEF Agree
<1> QED BY <1>5, <1>10

(* Lines change their directory or stay where they are.                    *)
LEMMA PlacesStay ==
  ASSUME DirInv, [Next]_vars
  PROVE  PlacesKept(dirs, dirs')
<1> DEFINE D == DOMAIN dirs
           L == Lines(dirs)
<1>1. TreeOf(D, L, Ups(dirs))
  BY DEF DirInv, SoundDirs
<1>2. \A x, y \in L : x.ino = y.ino => x = y
  BY <1>1 DEF TreeOf, Unique
<1>3. (dirs' = dirs /\ listing' = listing) \/ Changed(path')
  BY StepShows
<1> HIDE DEF L, D
<1> SUFFICES ASSUME NEW x \in L, NEW y \in Lines(dirs'), x.dir = Root, y.dir = Root, x.ino = y.ino
             PROVE  SamePlace(x, y)
  BY DEF PlacesKept, RootLines, L
<1>4. CASE y \in L
  BY <1>2, <1>4 DEF SamePlace
<1>5. CASE dirs' = dirs
  BY <1>4, <1>5 DEF L
<1>6. CASE Adds(D, L, DOMAIN dirs', Lines(dirs'))
  BY <1>4, <1>6 DEF Adds, NewLine
<1>7. CASE Drops(D, L, DOMAIN dirs', Lines(dirs'), path')
  BY <1>4, <1>7 DEF Drops
<1>8. CASE Moves(D, L, DOMAIN dirs', Lines(dirs'), path')
  <2>1. PICK z, w : /\ z \in L /\ w.ino = z.ino /\ (w.dir = z.dir => SamePlace(z, w))
                    /\ Lines(dirs') = (L \ {z}) \cup {w}
    BY <1>8 DEF Moves
  <2>2. CASE y = w
    <3>1. x = z
      BY <1>2, <2>1, <2>2
    <3> QED BY <2>1, <2>2, <3>1
  <2> QED BY <1>4, <2>1, <2>2
<1> QED BY <1>3, <1>5, <1>6, <1>7, <1>8 DEF Changed, D, L


(***************************************************************************)
(* Searches.                                                               *)
(***************************************************************************)

(* What matches a pattern, before and after a step.                        *)
LEMMA MatchingStays ==
  ASSUME DirInv, DirInv', PlacesKept(dirs, dirs'), NEW pat \in Spelled \cup {Everything},
         NEW s, s = Matching(listing[Root], pat), NEW t, t = Matching(listing'[Root], pat),
         NEW k \in Nat, NEW inos
  PROVE  /\ Inos(t) \subseteq Inos(s) /\ ShownBehind(s, k, inos) => ShownBehind(t, k, inos)
         /\ Inos(s) \subseteq Inos(t) /\ DueAhead(s, k, inos) => DueAhead(t, k, inos)
<1>1. SoundDirs(dirs) /\ SoundDirs(dirs') /\ listing = Listings(dirs) /\ listing' = Listings(dirs')
  BY DEF DirInv, SoundDirs
<1>2. Follows(dirs, s)
  BY <1>1, MatchingFollows
<1>3. Follows(dirs', t)
  BY <1>1, MatchingFollows
<1>4. PlacesKept(dirs', dirs)
  BY DEF PlacesKept, SamePlace
<1>5. Agree(s, t)
  BY <1>1, <1>2, <1>3, FollowsAgree
<1>6. Agree(t, s)
  BY <1>1, <1>2, <1>3, <1>4, FollowsAgree
<1>7. \A a, b \in DOMAIN s : s[a].ino = s[b].ino => a = b
  BY <1>1, <1>2, FollowsOnce
<1>8. \A a, b \in DOMAIN t : t[a].ino = t[b].ino => a = b
  BY <1>1, <1>3, FollowsOnce
<1>9. /\ s \in Seq(Record) /\ t \in Seq(Record)
      /\ \A j \in DOMAIN s : j \in Nat
      /\ \A j \in DOMAIN t : j \in Nat
  BY <1>2, <1>3 DEF Follows
<1>10. ASSUME Inos(t) \subseteq Inos(s), ShownBehind(s, k, inos) PROVE ShownBehind(t, k, inos)
  <2> SUFFICES ASSUME NEW a \in DOMAIN t, t[a].ino \in inos PROVE a <= k
    BY DEF ShownBehind
  <2>1. PICK i \in DOMAIN s : s[i].ino = t[a].ino
    BY <1>10 DEF Inos
  <2>2. a <= i
    BY <1>5, <1>8, <1>9, <1>10, <2>1, NoLater
  <2>3. i <= k
    BY <1>10, <2>1 DEF ShownBehind
  <2> QED BY <1>9, <2>2, <2>3
<1>11. ASSUME Inos(s) \subseteq Inos(t), DueAhead(s, k, inos) PROVE DueAhead(t, k, inos)
  <2> SUFFICES ASSUME NEW x \in inos PROVE \E j \in DOMAIN t : t[j].ino = x /\ j > k
    BY DEF DueAhead
  <2>1. PICK i \in DOMAIN s : s[i].ino = x /\ i > k
    BY <1>11 DEF DueAhead
  <2>2. PICK a \in DOMAIN t : t[a].ino = s[i].ino
    BY <1>11, <2>1 DEF Inos
  <2>3. i <= a
    BY <1>6, <1>7, <1>9, <1>11, <2>2, NoLater
  <2> QED BY <1>9, <2>1, <2>2, <2>3
<1> QED BY <1>10, <1>11

(* The inodes of what matches are numbers, each there once.                *)
LEMMA FoundFacts ==
  ASSUME DirInv, NEW pat \in Spelled \cup {Everything}, NEW s, s = Matching(listing[Root], pat)
  PROVE  /\ DOMAIN s = 1 .. Len(s) /\ Len(s) \in Nat /\ Inos(s) \subseteq Nat
         /\ \A j \in DOMAIN s : s[j].ino \in Nat
         /\ \A i, j \in DOMAIN s : s[i].ino = s[j].ino => i = j
<1>1. SoundDirs(dirs) /\ listing = Listings(dirs)
  BY DEF DirInv
<1>2. Follows(dirs, s)
  BY <1>1, MatchingFollows
<1>3. \A i, j \in DOMAIN s : s[i].ino = s[j].ino => i = j
  BY <1>1, <1>2, FollowsOnce
<1>4. s \in Seq(Record)
  BY <1>2 DEF Follows
<1>5. DOMAIN s = 1 .. Len(s) /\ Len(s) \in Nat /\ \A j \in DOMAIN s : s[j] \in Record
  BY <1>4
<1>6. \A j \in DOMAIN s : s[j].ino \in Nat
  BY <1>5 DEF Record
<1> QED BY <1>3, <1>5, <1>6 DEF Inos

(* The fields of a search.                                                 *)
LEMMA SearchFields ==
  /\ NoSearch \in Search /\ ~NoSearch.on /\ ~NoSearch.over /\ ~NoSearch.twice
  /\ \A x \in Search :
       /\ x.next \in Nat /\ x.pattern \in Spelled \cup {Everything}
       /\ x.due \in SUBSET Nat /\ x.shown \in SUBSET Nat
BY DEF Search, NoSearch

(* A search that begins has shown the first entry and goes on behind it.   *)
LEMMA FirstGoes ==
  ASSUME DirInv, NEW pat \in Patterns, FindFirst(pat)
  PROVE  SearchInv'
<1> DEFINE found == Matching(listing[Root], pat)
<1>1. pat \in Spelled \cup {Everything}
  BY SearchAssumption
<1>2. /\ DOMAIN found = 1 .. Len(found) /\ Len(found) \in Nat /\ Inos(found) \subseteq Nat
      /\ \A j \in DOMAIN found : found[j].ino \in Nat
      /\ \A i, j \in DOMAIN found : found[i].ino = found[j].ino => i = j
  BY <1>1, FoundFacts
<1>3. /\ listing' = listing /\ found # << >>
      /\ search' = [NoSearch EXCEPT !.on = TRUE, !.next = Passed(@), !.pattern = pat,
                                    !.due = Inos(found), !.shown = {found[1].ino}]
  BY DEF FindFirst
<1> HIDE DEF found
<1>4. 1 \in DOMAIN found
  BY <1>2, <1>3
<1>5. /\ search' \in Search /\ search'.on /\ search'.next = 1 /\ search'.pattern = pat
      /\ search'.due = Inos(found) /\ search'.shown = {found[1].ino}
      /\ ~search'.over /\ ~search'.twice
  <2>1. search' = [on |-> TRUE, next |-> 1, changes |-> 0, pattern |-> pat,
                   due |-> Inos(found), shown |-> {found[1].ino}, twice |-> FALSE,
                   came |-> FALSE, went |-> FALSE, strayed |-> FALSE, over |-> FALSE]
    BY <1>3, Passed(0) = 1 DEF NoSearch, Passed
  <2>2. Inos(found) \in SUBSET Nat /\ {found[1].ino} \in SUBSET Nat
    BY <1>2, <1>4
  <2> QED BY <1>1, <2>1, <2>2 DEF Search
<1>6. ShownBehind(found, 1, {found[1].ino})
  BY <1>2, <1>4 DEF ShownBehind
<1>7. DueAhead(found, 1, Inos(found) \ {found[1].ino})
  BY <1>2 DEF DueAhead, Inos
<1>8. Matching(listing'[Root], search'.pattern) = found
  BY <1>3, <1>5 DEF found
<1>9. Goes(Matching(listing[Root], search.pattern))'
  BY <1>5, <1>6, <1>7, <1>8 DEF Goes
<1>10. path' \in Spelled \cup {Everything}
  BY <1>1 DEF FindFirst
<1>11. SearchComplete' /\ SearchShowsOnce'
  BY <1>5 DEF SearchComplete, SearchShowsOnce
<1> QED BY <1>5, <1>9, <1>10, <1>11 DEF SearchInv

(* The fields are those of a search.                                       *)
LEMMA FieldsOf ==
  ASSUME NEW x \in Search
  PROVE  /\ x.on \in BOOLEAN /\ x.changes \in Nat /\ x.twice \in BOOLEAN
         /\ x.came \in BOOLEAN /\ x.went \in BOOLEAN /\ x.strayed \in BOOLEAN
         /\ x.over \in BOOLEAN
BY DEF Search

(* FindNext shows what was ahead, or ends with nothing left ahead.         *)
LEMMA NextGoes ==
  ASSUME DirInv, SearchInv, FindNext
  PROVE  SearchInv'
<1> DEFINE s == Matching(listing[Root], search.pattern)
           found == Matching(listing[Root], path)
           i == found[search.next + 1].ino
           k == search.next
<1>1. /\ search \in Search /\ search.on /\ listing' = listing
      /\ search.next \in Nat /\ search.pattern \in Spelled \cup {Everything}
  BY SearchFields DEF SearchInv, FindNext, dirvars
<1>2. Strayed \in BOOLEAN /\ (~Strayed => ~search.strayed /\ found = s)
  BY DEF Strayed
<1>3. /\ DOMAIN s = 1 .. Len(s) /\ Len(s) \in Nat
      /\ \A j \in DOMAIN s : s[j].ino \in Nat
      /\ \A j, l \in DOMAIN s : s[j].ino = s[l].ino => j = l
  BY <1>1, FoundFacts
<1>4. Goes(s)
  BY DEF SearchInv
<1>5. Matching(listing'[Root], search.pattern) = s
  BY <1>1
<1>6. /\ search.over /\ ~search.went /\ ~search.strayed => search.due \subseteq search.shown
      /\ search.twice => search.came \/ search.strayed
  BY DEF SearchInv, SearchComplete, SearchShowsOnce
<1>7. /\ path' \in Spelled \cup {Everything}
      /\ DOMAIN found = 1 .. Len(found) /\ Len(found) \in Nat
      /\ \A j \in DOMAIN found : found[j].ino \in Nat
  BY FoundFacts DEF SearchInv, FindNext, dirvars
<1>8. CASE Len(found) > search.next
  <2>1. search' = [search EXCEPT !.next = Passed(@), !.shown = @ \cup {i},
                                 !.twice = @ \/ i \in search.shown, !.strayed = Strayed]
    BY <1>8 DEF FindNext
  <2>2. k + 1 \in DOMAIN found /\ i \in Nat
    <3> HIDE DEF found
    <3>1. k + 1 \in DOMAIN found
      BY <1>1, <1>7, <1>8
    <3> QED BY <1>7, <3>1
  <2> HIDE DEF i
  <2> DEFINE sh == search.shown \cup {i}
             tw == search.twice \/ i \in search.shown
             st == Strayed
  <2>3. search' = [search EXCEPT !.next = k + 1, !.shown = sh, !.twice = tw, !.strayed = st]
    BY <2>1 DEF Passed
  <2>4. sh \in SUBSET Nat /\ tw \in BOOLEAN /\ st \in BOOLEAN /\ k + 1 \in Nat
    BY <1>1, <1>2, <2>2, SearchFields
  <2> HIDE DEF sh, tw, st
  <2>5. search' = [on |-> search.on, next |-> k + 1, changes |-> search.changes,
                    pattern |-> search.pattern, due |-> search.due, shown |-> sh, twice |-> tw,
                    came |-> search.came, went |-> search.went, strayed |-> st,
                    over |-> search.over]
    BY <1>1, <2>3 DEF Search
  <2>6. search' \in Search
    BY <1>1, <2>4, <2>5, FieldsOf, SearchFields DEF Search
  <2>7. /\ search' \in Search /\ search'.next = k + 1 /\ search'.pattern = search.pattern
        /\ search'.due = search.due /\ search'.shown = search.shown \cup {i}
        /\ search'.twice = (search.twice \/ i \in search.shown)
        /\ search'.came = search.came /\ search'.went = search.went
        /\ search'.strayed = Strayed /\ search'.over = search.over
    BY <2>5, <2>6 DEF sh, tw, st
  <2>8. Matching(listing'[Root], search'.pattern) = s
    BY <1>5, <2>7
  <2>9. ASSUME ~Strayed
        PROVE  /\ ~search.came => ShownBehind(s, k, search.shown)
               /\ ~search.went => DueAhead(s, k, search.due \ search.shown)
               /\ k + 1 \in DOMAIN s /\ s[k + 1].ino = i
    BY <1>1, <1>2, <1>4, <2>2, <2>9 DEF Goes, i
  <2> HIDE DEF s, found, k
  <2>10. ASSUME ~Strayed, ~search.came
        PROVE  i \notin search.shown /\ ShownBehind(s, k + 1, search.shown \cup {i})
    BY <1>1, <1>3, <2>9, <2>10 DEF ShownBehind, k
  <2>11. ASSUME ~Strayed, ~search.went
        PROVE  DueAhead(s, k + 1, search.due \ (search.shown \cup {i}))
    <3> SUFFICES ASSUME NEW x \in search.due \ (search.shown \cup {i})
                 PROVE  \E j \in DOMAIN s : s[j].ino = x /\ j > k + 1
      BY DEF DueAhead
    <3>1. PICK j \in DOMAIN s : s[j].ino = x /\ j > k
      BY <2>9, <2>11 DEF DueAhead
    <3> QED BY <1>1, <1>3, <2>9, <2>11, <3>1 DEF k
  <2>12. Goes(Matching(listing[Root], search.pattern))'
    BY <2>7, <2>8, <2>10, <2>11 DEF Goes
  <2>13. /\ search'.over /\ ~search'.went /\ ~search'.strayed => search'.due \subseteq search'.shown
         /\ search'.twice => search'.came \/ search'.strayed
    BY <1>2, <1>6, <2>7, <2>10
  <2>14. SearchComplete'
    BY <2>13 DEF SearchComplete
  <2>15. SearchShowsOnce'
    BY <2>13 DEF SearchShowsOnce
  <2> QED BY <1>7, <2>7, <2>12, <2>14, <2>15 DEF SearchInv
<1>9. CASE ~(Len(found) > search.next)
  <2>1. search' = [search EXCEPT !.on = FALSE, !.over = TRUE, !.strayed = Strayed]
    BY <1>9 DEF FindNext
  <2>2. /\ search' \in Search /\ ~search'.on /\ search'.strayed = Strayed
        /\ search'.due = search.due /\ search'.shown = search.shown
        /\ search'.twice = search.twice /\ search'.came = search.came
        /\ search'.went = search.went
    <3> DEFINE st == Strayed
    <3>1. search' = [search EXCEPT !.on = FALSE, !.over = TRUE, !.strayed = st] /\ st \in BOOLEAN
      BY <1>2, <2>1
    <3> HIDE DEF st
    <3>2. search' = [on |-> FALSE, next |-> k, changes |-> search.changes,
                     pattern |-> search.pattern, due |-> search.due, shown |-> search.shown,
                     twice |-> search.twice, came |-> search.came, went |-> search.went,
                     strayed |-> st, over |-> TRUE]
      BY <1>1, <3>1 DEF Search
    <3>3. search' \in Search
      BY <1>1, <3>1, <3>2, FieldsOf, SearchFields DEF Search
    <3> QED BY <3>2, <3>3 DEF st
  <2>3. ASSUME ~Strayed, ~search.went PROVE search.due \subseteq search.shown
    <3> SUFFICES ASSUME NEW x \in search.due \ search.shown PROVE FALSE
      OBVIOUS
    <3>1. DueAhead(s, k, search.due \ search.shown)
      BY <1>1, <1>2, <1>4, <2>3 DEF Goes
    <3>2. \E j \in DOMAIN s : j > k
      BY <3>1 DEF DueAhead
    <3> QED BY <1>1, <1>2, <1>3, <1>9, <2>3, <3>2
  <2>4. /\ search'.over /\ ~search'.went /\ ~search'.strayed => search'.due \subseteq search'.shown
        /\ search'.twice => search'.came \/ search'.strayed
    BY <1>2, <1>6, <2>2, <2>3
  <2>5. Goes(Matching(listing[Root], search.pattern))'
    BY <2>2 DEF Goes
  <2>6. SearchComplete' /\ SearchShowsOnce'
    BY <2>4 DEF SearchComplete, SearchShowsOnce
  <2> QED BY <1>7, <2>2, <2>5, <2>6 DEF SearchInv
<1> QED BY <1>8, <1>9

(* What another call does to the entries a search goes through.            *)
LEMMA MeanwhileGoes ==
  ASSUME DirInv, DirInv', PlacesKept(dirs, dirs'), SearchInv, DirNext, Meanwhile
  PROVE  SearchInv'
<1>1. path' \in Spelled \cup {Everything}
  BY DEF DirNext
<1>2. search \in Search
  BY DEF SearchInv
<1>3. CASE ~search.on
  <2>1. search' = NoSearch
    BY <1>3 DEF Meanwhile
  <2>2. search' \in Search /\ ~search'.on /\ ~search'.over /\ ~search'.twice
    BY <2>1, SearchFields
  <2>3. SearchComplete' /\ SearchShowsOnce'
    BY <2>2 DEF SearchComplete, SearchShowsOnce
  <2> QED BY <1>1, <2>2, <2>3 DEF SearchInv, Goes
<1>4. CASE search.on
  <2> DEFINE pat == search.pattern
             k == search.next
             s == Matching(listing[Root], pat)
             t == Matching(listing'[Root], pat)
             gone == Inos(s) \ Inos(t) # {}
             new == Inos(t) \ Inos(s) # {}
             n == IF dirs' = dirs THEN search.changes ELSE search.changes + 1
             wt == search.went \/ gone
             cm == search.came \/ new
  <2>1. search' = [search EXCEPT !.changes = n, !.went = wt, !.came = cm]
    BY <1>4 DEF Meanwhile
  <2>2. n \in Nat
    BY <1>2, FieldsOf
  <2>3. wt \in BOOLEAN /\ cm \in BOOLEAN
    OBVIOUS
  <2> HIDE DEF n, wt, cm
  <2>4. search' = [on |-> search.on, next |-> search.next, changes |-> n,
                   pattern |-> search.pattern, due |-> search.due, shown |-> search.shown,
                   twice |-> search.twice, came |-> cm, went |-> wt,
                   strayed |-> search.strayed, over |-> search.over]
    BY <1>2, <2>1 DEF Search
  <2>5. search' \in Search
    BY <1>2, <2>2, <2>3, <2>4, FieldsOf, SearchFields DEF Search
  <2>6. /\ search'.next = k /\ search'.pattern = pat /\ search'.due = search.due
        /\ search'.shown = search.shown /\ search'.twice = search.twice
        /\ search'.came = (search.came \/ new) /\ search'.went = (search.went \/ gone)
        /\ search'.strayed = search.strayed /\ search'.over = search.over
    BY <2>4 DEF cm, wt
  <2>7. pat \in Spelled \cup {Everything} /\ k \in Nat
    BY <1>2, SearchFields
  <2>8. Goes(s)
    BY DEF SearchInv
  <2>9. Matching(listing'[Root], search'.pattern) = t
    BY <2>6
  <2>10. gone <=> ~(Inos(s) \subseteq Inos(t))
    OBVIOUS
  <2>11. new <=> ~(Inos(t) \subseteq Inos(s))
    OBVIOUS
  <2> HIDE DEF gone, new
  <2>12. /\ Inos(t) \subseteq Inos(s) /\ ShownBehind(s, k, search.shown) => ShownBehind(t, k, search.shown)
         /\ Inos(s) \subseteq Inos(t) /\ DueAhead(s, k, search.due \ search.shown)
              => DueAhead(t, k, search.due \ search.shown)
    <3> HIDE DEF k, pat
    <3> DEFINE inos == search.shown
               rest == search.due \ search.shown
    <3> HIDE DEF inos, rest
    <3>1. Inos(t) \subseteq Inos(s) /\ ShownBehind(s, k, inos) => ShownBehind(t, k, inos)
      BY <2>7, MatchingStays
    <3>2. Inos(s) \subseteq Inos(t) /\ DueAhead(s, k, rest) => DueAhead(t, k, rest)
      BY <2>7, MatchingStays
    <3> QED BY <3>1, <3>2 DEF inos, rest
  <2> HIDE DEF s, t
  <2>13. Goes(Matching(listing[Root], search.pattern))'
    BY <1>4, <2>6, <2>8, <2>9, <2>10, <2>11, <2>12 DEF Goes
  <2>14. /\ search'.over /\ ~search'.went /\ ~search'.strayed => search'.due \subseteq search'.shown
         /\ search'.twice => search'.came \/ search'.strayed
    BY <2>6 DEF SearchInv, SearchComplete, SearchShowsOnce
  <2>15. SearchComplete' /\ SearchShowsOnce'
    BY <2>14 DEF SearchComplete, SearchShowsOnce
  <2> QED BY <1>1, <2>5, <2>13, <2>15 DEF SearchInv
<1> QED BY <1>3, <1>4

(* What every step keeps of a search.                                      *)
LEMMA StepGoes ==
  ASSUME DirInv, SearchInv, [Next]_vars
  PROVE  SearchInv'
<1>1. DirInv' /\ PlacesKept(dirs, dirs')
  BY StepShows, PlacesStay
<1>2. CASE DirNext /\ Meanwhile
  BY <1>1, <1>2, MeanwhileGoes
<1>3. ASSUME NEW pat \in Patterns, FindFirst(pat) PROVE SearchInv'
  BY <1>3, FirstGoes
<1>4. CASE FindNext
  BY <1>4, NextGoes
<1>5. ASSUME search' = search, listing' = listing, path' \in Spelled \cup {Everything}
      PROVE  SearchInv'
  BY <1>5 DEF SearchInv, Goes, SearchComplete, SearchShowsOnce
<1>6. ASSUME NEW pat \in Patterns, OtherSearch(pat) PROVE SearchInv'
  BY <1>5, <1>6, SearchAssumption DEF OtherSearch
<1>7. CASE UNCHANGED vars
  BY <1>5, <1>7 DEF SearchInv, vars, dirvars
<1> QED BY <1>2, <1>3, <1>4, <1>6, <1>7 DEF Next

(* SearchInv: what a search whose path no call replaced has shown is       *)
(* behind it unless an entry came, and what it has to show is ahead of it  *)
(* unless one went, whatever else the calls changed (tsr.c:757).           *)
THEOREM SearchInvariant ==
  ASSUME \A ds \in Images : OneBlockEach(ds)
  PROVE  Spec => []SearchInv
<1>1. Init => SearchInv
  BY SearchFields DEF Init, DirInit, SearchInv, Goes, SearchComplete, SearchShowsOnce
<1>2. DirInv /\ SearchInv /\ [Next]_vars => SearchInv'
  BY StepGoes
<1> QED BY <1>1, <1>2, DirInvariant, PTL DEF Spec

(* SearchComplete: a search that ends with no entry gone from its matches  *)
(* and no other path given has shown every one (tsr.c:757).                *)
THEOREM SearchesComplete ==
  ASSUME \A ds \in Images : OneBlockEach(ds)
  PROVE  Spec => []SearchComplete
<1>1. SearchInv => SearchComplete
  BY DEF SearchInv
<1> QED BY <1>1, SearchInvariant, PTL

(* SearchShowsOnce: it shows none twice unless one came meanwhile or       *)
(* another path was given (tsr.c:757).                                     *)
THEOREM SearchesShowOnce ==
  ASSUME \A ds \in Images : OneBlockEach(ds)
  PROVE  Spec => []SearchShowsOnce
<1>1. SearchInv => SearchShowsOnce
  BY DEF SearchInv
<1> QED BY <1>1, SearchInvariant, PTL
==============================================================================
