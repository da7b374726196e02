--------------------------- MODULE ForeignLogProofs ---------------------------
(***************************************************************************)
(* A log that another system left is read for what it means, whatever its  *)
(* size, its transactions and the number of replays that were cut short.   *)
(***************************************************************************)
EXTENDS ForeignLogInv, JournalProofs, FiniteSetTheorems

(***************************************************************************)
(* Positions around the ring.                                              *)
(***************************************************************************)

(* Going around at most once.                                              *)
LEMMA ModIs ==
  ASSUME NEW n \in Nat \ {0}, NEW x \in 0 .. 2 * n - 1
  PROVE  x % n = IF x < n THEN x ELSE x - n
OBVIOUS

(* The log is not empty.                                                   *)
LEMMA LogSizeIs == LogSize \in Nat \ {0} /\ First \in Nat \ {0} /\ MaxLen = First + LogSize
BY FormatAssumption DEF LogSize

(* The position of an offset.                                              *)
LEMMA PosIs ==
  ASSUME NEW d \in DiskState, d.start # 0, NEW i \in 0 .. LogSize
  PROVE  /\ Pos(d, i) = IF d.start + i < MaxLen THEN d.start + i ELSE d.start + i - LogSize
         /\ Pos(d, i) \in LogPos /\ d.start \in LogPos
<1>1. d.start \in LogPos
  BY DEF DiskState
<1>2. d.start \in First .. First + LogSize - 1
  BY <1>1, LogSizeIs DEF LogPos
<1> DEFINE x == d.start - First + i
<1>3. x \in 0 .. 2 * LogSize - 1
  BY <1>2, LogSizeIs
<1>4. Pos(d, i) = First + (x % LogSize)
  BY DEF Pos
<1> HIDE DEF x
<1>5. x % LogSize = IF x < LogSize THEN x ELSE x - LogSize
  BY <1>3, LogSizeIs, ModIs
<1>6. Pos(d, i) = IF d.start + i < MaxLen THEN d.start + i ELSE d.start + i - LogSize
  BY <1>2, <1>4, <1>5, LogSizeIs DEF x
<1>7. Pos(d, i) \in LogPos
  BY <1>2, <1>6, LogSizeIs DEF LogPos
<1> QED BY <1>1, <1>6, <1>7

(* The next position is that of the next offset; the walk is back at the   *)
(* start when it went all around.                                          *)
LEMMA NextPosIs ==
  ASSUME NEW d \in DiskState, d.start # 0, NEW i \in 0 .. LogSize - 1
  PROVE  /\ NextPos(Pos(d, i)) = Pos(d, i + 1)
         /\ Pos(d, i + 1) = d.start <=> i + 1 = LogSize
         /\ Pos(d, 0) = d.start
<1>1. /\ i \in 0 .. LogSize /\ i + 1 \in 0 .. LogSize /\ 0 \in 0 .. LogSize
      /\ d.start \in First .. First + LogSize - 1
  BY LogSizeIs DEF DiskState, LogPos
<1>2. Pos(d, i) = IF d.start + i < MaxLen THEN d.start + i ELSE d.start + i - LogSize
  BY <1>1, PosIs
<1>3. Pos(d, i + 1) = IF d.start + (i + 1) < MaxLen THEN d.start + (i + 1)
                      ELSE d.start + (i + 1) - LogSize
  BY <1>1, PosIs
<1>4. Pos(d, 0) = IF d.start + 0 < MaxLen THEN d.start + 0 ELSE d.start + 0 - LogSize
  BY <1>1, PosIs
<1>5. NextPos(Pos(d, i)) = Pos(d, i + 1)
  BY <1>1, <1>2, <1>3, LogSizeIs DEF NextPos, Wrap
<1>6. Pos(d, i + 1) = d.start <=> i + 1 = LogSize
  BY <1>1, <1>3, LogSizeIs
<1> QED BY <1>1, <1>4, <1>5, <1>6, LogSizeIs

(***************************************************************************)
(* The headers of a log.                                                   *)
(***************************************************************************)

\* places headers can be at, and one step from header to header
Places == [off : Nat, seq : SeqNo]
Onward(d, H) == UNION {IF IsHeader(d, h) THEN {h, After(d, h)} ELSE {h} : h \in H}
Begin(d) == [off |-> 0, seq |-> d.seq]

(* From a header the next place is further on.                             *)
LEMMA AfterIs ==
  ASSUME NEW d \in DiskState, d.start # 0, NEW h \in Places, IsHeader(d, h)
  PROVE  /\ At(d, h.off) \in LogBlock /\ h.off \in 0 .. LogSize - 1
         /\ After(d, h) \in Places /\ After(d, h).off = h.off + 1 + Len(At(d, h.off).tags)
         /\ After(d, h).seq = IF At(d, h.off).kind = "commit" THEN SeqInc(h.seq) ELSE h.seq
         /\ Len(At(d, h.off).tags) \in Nat /\ After(d, h).off > h.off
<1>1. h.off \in 0 .. LogSize - 1 /\ h.seq \in SeqNo
  BY LogSizeIs DEF Places, IsHeader
<1>2. Pos(d, h.off) \in LogPos
  BY <1>1, PosIs, LogSizeIs
<1>3. At(d, h.off) \in LogBlock
  BY <1>2 DEF At, DiskState
<1>4. Len(At(d, h.off).tags) \in Nat
  BY <1>3 DEF LogBlock
<1>5. SeqInc(h.seq) \in SeqNo
  BY <1>1, SeqType
<1> DEFINE a == At(d, h.off)
<1>6. After(d, h) = [off |-> h.off + 1 + Len(a.tags), seq |-> IF a.kind = "commit" THEN SeqInc(h.seq) ELSE h.seq]
  BY DEF After
<1> HIDE DEF a
<1>7. h.off + 1 + Len(a.tags) \in Nat /\ h.off + 1 + Len(a.tags) > h.off
  BY <1>1, <1>4 DEF a
<1>8. After(d, h) \in Places
  BY <1>1, <1>5, <1>6, <1>7 DEF Places
<1> QED BY <1>1, <1>3, <1>4, <1>6, <1>7, <1>8 DEF a

(* Going onward stays among places, and shows what it leads to.            *)
LEMMA OnwardIs ==
  ASSUME NEW d \in DiskState, d.start # 0, NEW H \in SUBSET Places
  PROVE  /\ Onward(d, H) \in SUBSET Places /\ H \subseteq Onward(d, H)
         /\ \A h \in H : IsHeader(d, h) => After(d, h) \in Onward(d, H)
         /\ \A x \in Onward(d, H) : x \in H \/ \E h \in H : IsHeader(d, h) /\ x = After(d, h)
<1>1. \A h \in H : IsHeader(d, h) => After(d, h) \in Places
  BY AfterIs
<1> QED BY <1>1 DEF Onward

(* What is reached in each number of steps.                                *)
Steps(d, r) ==
  /\ r[0] = {Begin(d)}
  /\ \A n \in 0 .. LogSize : r[n] \in SUBSET Places
  /\ \A n \in 0 .. LogSize - 1 : r[n + 1] = Onward(d, r[n])

(* What is reached is what is in as many steps as there are blocks.        *)
LEMMA ReachedIs ==
  ASSUME NEW d \in DiskState, d.start # 0
  PROVE  \E r : Steps(d, r) /\ Reached(d) = r[LogSize]
<1> DEFINE Step(f) == [n \in 0 .. LogSize |->
                        IF n = 0 THEN {[off |-> 0, seq |-> d.seq]}
                        ELSE UNION {IF IsHeader(d, h) THEN {h, After(d, h)} ELSE {h} : h \in f[n - 1]}]
           way == CHOOSE f : f = Step(f)
           up == [H \in SUBSET Places |-> Onward(d, H)]
<1>1. Reached(d) = way[LogSize]
  BY DEF Reached
<1>2. LogSize \in Nat /\ Begin(d) \in Places
  BY LogSizeIs DEF Begin, Places, DiskState
<1>3. up \in [SUBSET Places -> SUBSET Places]
  BY OnwardIs
<1>4. PICK g : PathIn(g, SUBSET Places, up, {Begin(d)}, LogSize)
  <2> HIDE DEF up
  <2>1. {Begin(d)} \in SUBSET Places
    BY <1>2
  <2> QED BY <1>2, <1>3, <2>1, PathExists
<1>5. /\ g = [n \in 0 .. LogSize |-> g[n]]
      /\ \A n \in 0 .. LogSize : g[n] \in SUBSET Places
      /\ \A n \in 0 .. LogSize : g[n] = IF n = 0 THEN {Begin(d)} ELSE up[g[n - 1]]
  BY <1>4 DEF PathIn
<1>6. \A n \in 0 .. LogSize : n # 0 => n - 1 \in 0 .. LogSize
  BY <1>2
<1>7. \A n \in 0 .. LogSize : g[n] = IF n = 0 THEN {Begin(d)} ELSE Onward(d, g[n - 1])
  BY <1>5, <1>6
<1> HIDE DEF up
<1>8. g = Step(g)
  BY <1>5, <1>7 DEF Onward, Begin
<1>9. way = Step(way)
  <2> HIDE DEF Step
  <2> QED BY <1>8
<1> HIDE DEF way
<1>10. \A n \in 0 .. LogSize : way[n] = IF n = 0 THEN {Begin(d)} ELSE Onward(d, way[n - 1])
  BY <1>9 DEF Onward, Begin
<1>11. \A n \in 0 .. LogSize : way[n] = g[n]
  <2> HIDE DEF Step
  <2> DEFINE B == {n \in 0 .. LogSize : way[n] # g[n]}
  <2> SUFFICES ASSUME B # {} PROVE FALSE
    OBVIOUS
  <2>1. PICK n \in B : \A m \in B : n <= m
    <3>1. B \in SUBSET Nat
      BY <1>2
    <3> HIDE DEF B
    <3> QED BY <3>1, LeastExists
  <2>2. n # 0
    BY <1>7, <1>10, <2>1
  <2>3. n - 1 \in 0 .. LogSize /\ n - 1 \notin B
    BY <1>2, <2>1, <2>2
  <2>4. way[n - 1] = g[n - 1]
    BY <2>3
  <2> QED BY <1>7, <1>10, <2>1, <2>2, <2>4
<1>12. Steps(d, way)
  <2>1. \A n \in 0 .. LogSize - 1 : n + 1 \in 0 .. LogSize /\ n + 1 # 0 /\ (n + 1) - 1 = n
    BY <1>2
  <2>2. 0 \in 0 .. LogSize
    BY <1>2
  <2>3. \A n \in 0 .. LogSize - 1 : way[n + 1] = Onward(d, way[n])
    BY <1>10, <2>1
  <2> QED BY <1>5, <1>10, <1>11, <2>2, <2>3 DEF Steps
<1> QED BY <1>1, <1>12

(* Nothing is reached but from the beginning, from header to header.       *)
LEMMA ReachedOnly ==
  ASSUME NEW d \in DiskState, d.start # 0,
         NEW X, Begin(d) \in X, \A h \in X : h \in Places /\ IsHeader(d, h) => After(d, h) \in X
  PROVE  Reached(d) \subseteq X
<1>1. PICK r : Steps(d, r) /\ Reached(d) = r[LogSize]
  BY ReachedIs
<1>2. LogSize \in Nat
  BY LogSizeIs
<1> DEFINE B == {n \in 0 .. LogSize : ~(r[n] \subseteq X)}
<1> SUFFICES ASSUME B # {} PROVE FALSE
  BY <1>1, <1>2
<1>3. PICK n \in B : \A m \in B : n <= m
  <2>1. B \in SUBSET Nat
    BY <1>2
  <2> HIDE DEF B
  <2> QED BY <2>1, LeastExists
<1>4. n # 0
  BY <1>1, <1>3 DEF Steps
<1>5. n - 1 \in 0 .. LogSize - 1 /\ n - 1 \in 0 .. LogSize /\ (n - 1) + 1 = n /\ n - 1 \notin B
  BY <1>2, <1>3, <1>4
<1>6. r[n - 1] \in SUBSET Places /\ r[n - 1] \subseteq X /\ r[n] = Onward(d, r[n - 1])
  <2>1. r[(n - 1) + 1] = Onward(d, r[n - 1])
    BY <1>1, <1>5 DEF Steps
  <2> QED BY <1>1, <1>5, <2>1 DEF Steps
<1>7. \A x \in Onward(d, r[n - 1]) : x \in r[n - 1] \/ \E h \in r[n - 1] : IsHeader(d, h) /\ x = After(d, h)
  BY <1>6, OnwardIs
<1>8. r[n] \subseteq X
  BY <1>6, <1>7
<1> QED BY <1>3, <1>8

(* What is reached are places, and every header leads to another one: there *)
(* are no more headers than blocks.                                        *)
LEMMA ReachedAll ==
  ASSUME NEW d \in DiskState, d.start # 0
  PROVE  /\ Reached(d) \subseteq Places /\ Begin(d) \in Reached(d)
         /\ \A h \in Reached(d) : IsHeader(d, h) => After(d, h) \in Reached(d)
<1>1. PICK r : Steps(d, r) /\ Reached(d) = r[LogSize]
  BY ReachedIs
<1>2. LogSize \in Nat
  BY LogSizeIs
<1>3. \A n \in 0 .. LogSize - 1 :
        /\ n \in 0 .. LogSize /\ n + 1 \in 0 .. LogSize
        /\ r[n] \subseteq r[n + 1]
        /\ \A h \in r[n] : IsHeader(d, h) => After(d, h) \in r[n + 1]
        /\ \A x \in r[n + 1] : x \in r[n] \/ \E h \in r[n] : IsHeader(d, h) /\ x = After(d, h)
  <2> SUFFICES ASSUME NEW n \in 0 .. LogSize - 1
               PROVE  /\ n \in 0 .. LogSize /\ n + 1 \in 0 .. LogSize
                      /\ r[n] \subseteq r[n + 1]
                      /\ \A h \in r[n] : IsHeader(d, h) => After(d, h) \in r[n + 1]
                      /\ \A x \in r[n + 1] : x \in r[n] \/ \E h \in r[n] : IsHeader(d, h) /\ x = After(d, h)
    OBVIOUS
  <2>1. n \in 0 .. LogSize /\ n + 1 \in 0 .. LogSize
    BY <1>2
  <2>2. r[n] \in SUBSET Places /\ r[n + 1] = Onward(d, r[n])
    BY <1>1, <2>1 DEF Steps
  <2> QED BY <2>1, <2>2, OnwardIs
<1>4. \A n \in 0 .. LogSize : r[n] \subseteq Places
  BY <1>1 DEF Steps
\* what is reached late is far on
<1>5. \A n \in 0 .. LogSize : \A h \in r[n] : \E m \in 0 .. n : m <= h.off /\ h \in r[m]
  <2> DEFINE Soon(n) == \A h \in r[n] : \E m \in 0 .. n : m <= h.off /\ h \in r[m]
             B == {n \in 0 .. LogSize : ~Soon(n)}
  <2> SUFFICES ASSUME B # {} PROVE FALSE
    OBVIOUS
  <2>1. PICK n \in B : \A m \in B : n <= m
    <3>1. B \in SUBSET Nat
      BY <1>2
    <3> HIDE DEF B
    <3> QED BY <3>1, LeastExists
  <2>2. CASE n = 0
    <3>1. \A h \in r[0] : h.off = 0
      BY <1>1 DEF Steps, Begin
    <3> QED BY <2>1, <2>2, <3>1
  <2>3. CASE n # 0
    <3>1. n - 1 \in 0 .. LogSize - 1 /\ n - 1 \notin B /\ (n - 1) + 1 = n /\ n - 1 \in 0 .. LogSize
      BY <1>2, <2>1, <2>3
    <3>2. Soon(n - 1)
      BY <3>1
    <3>3. \A x \in r[n] : x \in r[n - 1] \/ \E h \in r[n - 1] : IsHeader(d, h) /\ x = After(d, h)
      BY <1>3, <3>1
    <3> SUFFICES ASSUME NEW x \in r[n] PROVE \E m \in 0 .. n : m <= x.off /\ x \in r[m]
      BY <2>1
    <3>4. CASE x \in r[n - 1]
      <4>1. PICK m \in 0 .. n - 1 : m <= x.off /\ x \in r[m]
        BY <3>2, <3>4
      <4> QED BY <1>2, <3>1, <4>1
    <3>5. ASSUME NEW h \in r[n - 1], IsHeader(d, h), x = After(d, h)
          PROVE  \E m \in 0 .. n : m <= x.off /\ x \in r[m]
      <4>1. PICK m \in 0 .. n - 1 : m <= h.off /\ h \in r[m]
        BY <3>2, <3>5
      <4>2. h \in Places
        BY <1>4, <3>1, <3>5
      <4>3. x.off > h.off /\ h.off \in Nat /\ x.off \in Nat
        BY <3>5, <4>2, AfterIs DEF Places
      <4>4. m \in 0 .. LogSize - 1 /\ m + 1 \in 0 .. n
        BY <1>2, <3>1, <4>1
      <4>5. x \in r[m + 1]
        BY <1>3, <3>5, <4>1, <4>4
      <4>6. m + 1 <= x.off
        BY <4>1, <4>3, <4>4
      <4> QED BY <4>4, <4>5, <4>6
    <3> QED BY <3>3, <3>4, <3>5
  <2> QED BY <2>2, <2>3
<1>6. \A n \in 0 .. LogSize : r[n] \subseteq r[LogSize]
  <2> DEFINE T == {n \in 0 .. LogSize : ~(r[LogSize - n] \subseteq r[LogSize])}
  <2>1. T = {}
    <3> SUFFICES ASSUME T # {} PROVE FALSE
      OBVIOUS
    <3>1. PICK n \in T : \A m \in T : n <= m
      <4>1. T \in SUBSET Nat
        BY <1>2
      <4> HIDE DEF T
      <4> QED BY <4>1, LeastExists
    <3>2. n # 0
      BY <1>2, <3>1
    <3>3. n - 1 \in 0 .. LogSize /\ n - 1 \notin T /\ LogSize - n \in 0 .. LogSize - 1
      BY <1>2, <3>1, <3>2
    <3>4. LogSize - (n - 1) = (LogSize - n) + 1
      BY <1>2, <3>1
    <3>5. r[LogSize - n] \subseteq r[(LogSize - n) + 1]
      BY <1>3, <3>3
    <3> QED BY <3>1, <3>3, <3>4, <3>5
  <2> HIDE DEF T
  <2>2. ASSUME NEW n \in 0 .. LogSize PROVE r[n] \subseteq r[LogSize]
    <3>1. LogSize - n \in 0 .. LogSize /\ LogSize - (LogSize - n) = n
      BY <1>2
    <3> QED BY <2>1, <3>1 DEF T
  <2> QED BY <2>2
<1>7. LogSize \in 0 .. LogSize /\ 0 \in 0 .. LogSize
  BY <1>2
<1>8. Begin(d) \in Reached(d)
  BY <1>1, <1>6, <1>7 DEF Steps
<1>9. ASSUME NEW h \in Reached(d), IsHeader(d, h) PROVE After(d, h) \in Reached(d)
  <2>1. PICK m \in 0 .. LogSize : m <= h.off /\ h \in r[m]
    BY <1>1, <1>5, <1>7
  <2>2. h.off \in Nat /\ h.off < LogSize
    BY <1>1, <1>4, <1>7, <1>9 DEF IsHeader, Places
  <2>3. m \in 0 .. LogSize - 1
    BY <1>2, <2>1, <2>2
  <2>4. After(d, h) \in r[m + 1] /\ m + 1 \in 0 .. LogSize
    BY <1>3, <1>9, <2>1, <2>3
  <2> QED BY <1>1, <1>6, <2>4
<1> QED BY <1>1, <1>4, <1>7, <1>8, <1>9

\* e comes behind h
Leads(d, h, e) == IsHeader(d, h) /\ After(d, h).off <= e.off

(* Of two places that are reached one comes behind the other.              *)
LEMMA ReachedChain ==
  ASSUME NEW d \in DiskState, d.start # 0, NEW h \in Reached(d), NEW e \in Reached(d)
  PROVE  h = e \/ Leads(d, h, e) \/ Leads(d, e, h)
<1> DEFINE R == Reached(d)
           b == Begin(d)
           Y == {x \in R : x = b \/ Leads(d, b, x)}
           X == {x \in R : \A y \in R : x = y \/ Leads(d, x, y) \/ Leads(d, y, x)}
<1>1. /\ R \subseteq Places /\ b \in R
      /\ \A x \in R : IsHeader(d, x) => After(d, x) \in R
  BY ReachedAll
<1>2. ASSUME NEW x \in R, IsHeader(d, x)
      PROVE  x.off \in Nat /\ After(d, x).off \in Nat /\ After(d, x).off > x.off
  BY <1>1, <1>2, AfterIs DEF Places
<1>3. \A x \in R : x.off \in Nat
  BY <1>1 DEF Places
<1> HIDE DEF R, b
<1>4. R \subseteq Y
  <2>1. b \in Y
    BY <1>1
  <2>2. ASSUME NEW x \in Y, IsHeader(d, x) PROVE After(d, x) \in Y
    <3>1. After(d, x) \in R
      BY <1>1, <2>2
    <3>2. Leads(d, b, After(d, x))
      BY <1>1, <1>2, <1>3, <2>2, <3>1 DEF Leads
    <3> QED BY <3>1, <3>2
  <2> HIDE DEF Y
  <2> QED BY <2>1, <2>2, ReachedOnly DEF R, b
<1>5. R \subseteq X
  <2>1. b \in X
    BY <1>1, <1>4
  <2>2. ASSUME NEW x \in X, IsHeader(d, x) PROVE After(d, x) \in X
    <3> DEFINE a == After(d, x)
               Z == {y \in R : Leads(d, x, y) => y = a \/ Leads(d, a, y)}
    <3>1. x \in R /\ a \in R /\ a.off > x.off
      BY <1>1, <1>2, <2>2
    <3>2. b \in Z
      <4>1. b.off = 0
        BY DEF b, Begin
      <4>2. ~Leads(d, x, b)
        BY <1>2, <1>3, <2>2, <3>1, <4>1 DEF Leads
      <4> QED BY <1>1, <4>2
    <3>3. ASSUME NEW y \in Z, IsHeader(d, y) PROVE After(d, y) \in Z
      <4>1. y \in R /\ After(d, y) \in R
        BY <1>1, <3>3
      <4>2. CASE Leads(d, x, y)
        <5>1. y = a \/ Leads(d, a, y)
          BY <3>3, <4>2
        <5>2. Leads(d, a, After(d, y))
          <6> HIDE DEF a
          <6> QED BY <1>2, <1>3, <3>1, <3>3, <4>1, <5>1 DEF Leads
        <5> QED BY <4>1, <5>2
      <4>3. CASE ~Leads(d, x, y)
        <5>1. y = x \/ Leads(d, y, x)
          BY <2>2, <4>1, <4>3
        <5>2. CASE y = x
          BY <4>1, <5>2
        <5>3. CASE Leads(d, y, x)
          <6>1. ~Leads(d, x, After(d, y))
            BY <1>2, <1>3, <2>2, <3>1, <4>1, <5>3 DEF Leads
          <6> QED BY <4>1, <6>1
        <5> QED BY <5>1, <5>2, <5>3
      <4> QED BY <4>2, <4>3
    <3>4. R \subseteq Z
      <4> HIDE DEF Z
      <4> QED BY <3>2, <3>3, ReachedOnly DEF R, b
    <3> SUFFICES ASSUME NEW y \in R PROVE a = y \/ Leads(d, a, y) \/ Leads(d, y, a)
      BY <3>1
    <3>5. x = y \/ Leads(d, x, y) \/ Leads(d, y, x)
      BY <2>2
    <3>6. CASE x = y
      BY <1>3, <2>2, <3>1, <3>6 DEF Leads
    <3>7. CASE Leads(d, x, y)
      BY <3>4, <3>7
    <3>8. CASE Leads(d, y, x)
      BY <1>2, <1>3, <3>1, <3>8 DEF Leads
    <3> QED BY <3>5, <3>6, <3>7, <3>8
  <2> HIDE DEF X
  <2> QED BY <2>1, <2>2, ReachedOnly DEF R, b
<1> QED BY <1>5 DEF R

(***************************************************************************)
(* Sequence numbers.                                                       *)
(***************************************************************************)

(* The signed difference tells which of two numbers is the later one, and  *)
(* the next number is later by one (seq_diff).                             *)
LEMMA SeqDiffIs ==
  ASSUME NEW a \in SeqNo, NEW b \in SeqNo
  PROVE  /\ SeqDiff(a, b) \in Int /\ SeqDiff(a, a) = 0 /\ (SeqDiff(a, b) = 0 => a = b)
         /\ SeqDiff(a, b) >= 0 /\ SeqDiff(b, a) >= 0 => a = b
         /\ SeqInc(a) \in SeqNo /\ SeqDec(SeqInc(a)) = a
         /\ SeqDiff(SeqInc(a), a) = 1 /\ SeqDiff(a, SeqInc(a)) = -1
<1>1. SeqLimit \in Nat /\ SeqLimit > 3 /\ a \in 0 .. SeqLimit - 1 /\ b \in 0 .. SeqLimit - 1
  BY FormatAssumption DEF SeqNo
<1>2. SeqDiff(a, b) \in Int /\ SeqDiff(a, a) = 0 /\ (SeqDiff(a, b) = 0 => a = b)
  BY <1>1 DEF SeqDiff
<1>3. SeqDiff(a, b) >= 0 /\ SeqDiff(b, a) >= 0 => a = b
  BY <1>1 DEF SeqDiff
<1>4. SeqInc(a) \in SeqNo /\ SeqDec(SeqInc(a)) = a
  BY <1>1 DEF SeqInc, SeqDec, SeqNo
<1>5. SeqDiff(SeqInc(a), a) = 1 /\ SeqDiff(a, SeqInc(a)) = -1
  BY <1>1 DEF SeqDiff, SeqInc
<1> QED BY <1>2, <1>3, <1>4, <1>5

(***************************************************************************)
(* A log that somebody wrote.                                              *)
(***************************************************************************)

(* What a dirty log that is not damaged is like.                           *)
LEMMA WrittenIs ==
  ASSUME NEW d \in Written, d.start # 0
  PROVE  /\ d \in DiskState /\ d.seq \in SeqNo
         /\ \A h \in Reached(d) : h.off \in 0 .. LogSize /\ h.seq \in SeqNo
         /\ InOrder(d) /\ PlainBlocks(d)
         /\ Committed(d) = {} => SeqDiff(0, d.seq) < 0
         /\ Headers(d) = {h \in Reached(d) : IsHeader(d, h)}
<1>1. WellWritten(d)
  BY WrittenAssumption
<1>2. d \in DiskState /\ d.seq \in SeqNo
  BY <1>1 DEF WellWritten, DiskState
<1>3. \A h \in Reached(d) : h \in Places /\ h.off <= LogSize
  BY <1>1, <1>2, ReachedAll DEF WellWritten
<1>4. \A h \in Reached(d) : h.off \in 0 .. LogSize /\ h.seq \in SeqNo
  BY <1>3, LogSizeIs DEF Places
<1> QED BY <1>1, <1>2, <1>4 DEF WellWritten, Headers

(* What a header of such a log is like.                                    *)
HeaderLike(d, h) ==
  /\ h \in Reached(d) /\ IsHeader(d, h) /\ h.seq \in SeqNo
  /\ At(d, h.off) \in LogBlock /\ At(d, h.off).kind \in {"descriptor", "commit", "revoke"}
  /\ At(d, h.off).seq = h.seq /\ Verifies(At(d, h.off))
  /\ h.off \in 0 .. LogSize - 1 /\ Len(At(d, h.off).tags) \in Nat
  /\ h.off + 1 + Len(At(d, h.off).tags) \in 0 .. LogSize
  /\ After(d, h) \in Reached(d) /\ After(d, h).off = h.off + 1 + Len(At(d, h.off).tags)
  /\ After(d, h).seq = IF At(d, h.off).kind = "commit" THEN SeqInc(h.seq) ELSE h.seq
  /\ At(d, h.off).kind # "descriptor" => Len(At(d, h.off).tags) = 0
  /\ At(d, h.off).kind # "revoke" => At(d, h.off).revokes = {}

(* Its data do not run into the start of the log.                          *)
LEMMA HeaderIs ==
  ASSUME NEW d \in Written, d.start # 0, NEW h \in Headers(d)
  PROVE  HeaderLike(d, h)
<1>1. /\ d \in DiskState /\ h \in Reached(d) /\ IsHeader(d, h) /\ PlainBlocks(d)
      /\ \A x \in Reached(d) : x.off \in 0 .. LogSize /\ x.seq \in SeqNo
  BY WrittenIs
<1>2. h \in Places /\ After(d, h) \in Reached(d)
  BY <1>1, ReachedAll
<1>3. /\ At(d, h.off) \in LogBlock /\ h.off \in 0 .. LogSize - 1
      /\ After(d, h).off = h.off + 1 + Len(At(d, h.off).tags)
      /\ After(d, h).seq = IF At(d, h.off).kind = "commit" THEN SeqInc(h.seq) ELSE h.seq
      /\ Len(At(d, h.off).tags) \in Nat
  BY <1>1, <1>2, AfterIs
<1>4. At(d, h.off).kind \in {"descriptor", "commit", "revoke"}
  BY <1>1, <1>3 DEF IsHeader, LogBlock
<1>5. h.off + 1 + Len(At(d, h.off).tags) \in 0 .. LogSize
  BY <1>1, <1>2, <1>3
<1>6. Pos(d, h.off) \in LogPos
  BY <1>1, <1>3, PosIs, LogSizeIs
<1>7. /\ At(d, h.off).kind # "descriptor" => At(d, h.off).tags = << >>
      /\ At(d, h.off).kind # "revoke" => At(d, h.off).revokes = {}
  BY <1>1, <1>6 DEF PlainBlocks, At
<1>8. At(d, h.off).kind # "descriptor" => Len(At(d, h.off).tags) = 0
  BY <1>7
<1>9. At(d, h.off).seq = h.seq /\ Verifies(At(d, h.off)) /\ h.seq \in SeqNo
  BY <1>1 DEF IsHeader
<1> QED BY <1>1, <1>2, <1>3, <1>4, <1>5, <1>7, <1>8, <1>9 DEF HeaderLike

(* A place that is reached is a header, or every header is before it; and  *)
(* between a header and the place it leads to there is none.               *)
LEMMA HeadersApart ==
  ASSUME NEW d \in Written, d.start # 0, NEW h \in Reached(d), NEW e \in Headers(d)
  PROVE  /\ h.off = e.off => h = e
         /\ e.off < h.off => e.off + 1 + Len(At(d, e.off).tags) <= h.off
         /\ ~IsHeader(d, h) => e.off < h.off
         /\ h \in Headers(d) /\ h.off < e.off => h.off + 1 + Len(At(d, h.off).tags) <= e.off
<1>1. d \in DiskState /\ e \in Reached(d)
  BY WrittenIs, HeaderIs DEF HeaderLike
<1>2. h = e \/ Leads(d, h, e) \/ Leads(d, e, h)
  BY <1>1, ReachedChain
<1>3. /\ After(d, e).off = e.off + 1 + Len(At(d, e.off).tags) /\ IsHeader(d, e)
      /\ e.off \in Nat /\ Len(At(d, e.off).tags) \in Nat
  BY HeaderIs DEF HeaderLike
<1>4. h.off \in Nat
  BY WrittenIs
<1>5. IsHeader(d, h) => /\ After(d, h).off = h.off + 1 + Len(At(d, h.off).tags)
                        /\ Len(At(d, h.off).tags) \in Nat
  <2> SUFFICES ASSUME IsHeader(d, h)
               PROVE  /\ After(d, h).off = h.off + 1 + Len(At(d, h.off).tags)
                      /\ Len(At(d, h.off).tags) \in Nat
    OBVIOUS
  <2>1. h \in Headers(d)
    BY WrittenIs
  <2> QED BY <2>1, HeaderIs DEF HeaderLike
<1>6. h \in Headers(d) => IsHeader(d, h)
  BY WrittenIs
<1> QED BY <1>2, <1>3, <1>4, <1>5, <1>6 DEF Leads

\* the number at h is what the commit blocks before it make of the first one
Counted(d, h) ==
  /\ (\A c \in Commits(d) : c.off >= h.off) => h.seq = d.seq
  /\ \A f \in Commits(d) :
       /\ f.off < h.off
       /\ \A c \in Commits(d) : c.off < h.off => c.off <= f.off
       => h.seq = SeqInc(f.seq)

(* Commit blocks, and nothing else, advance the number that is expected.   *)
LEMMA CountedIs ==
  ASSUME NEW d \in Written, d.start # 0, NEW h \in Reached(d)
  PROVE  Counted(d, h)
<1> DEFINE X == {x \in Reached(d) : Counted(d, x)}
<1>1. d \in DiskState /\ Begin(d) \in Reached(d)
  BY WrittenIs, ReachedAll
<1>2. \A c \in Commits(d) : c \in Headers(d) /\ c \in Reached(d) /\ c.off \in Nat
  BY HeaderIs DEF Commits, HeaderLike
<1>3. Begin(d) \in X
  BY <1>1, <1>2 DEF Begin, Counted
<1>4. ASSUME NEW x \in X, IsHeader(d, x) PROVE After(d, x) \in X
  <2> DEFINE a == After(d, x)
  <2>1. x \in Headers(d) /\ x.off \in Nat /\ a \in Reached(d) /\ a.off \in Nat
    BY <1>4, WrittenIs, HeaderIs DEF HeaderLike
  <2>2. /\ a.off > x.off
        /\ a.seq = IF At(d, x.off).kind = "commit" THEN SeqInc(x.seq) ELSE x.seq
        /\ a.off = x.off + 1 + Len(At(d, x.off).tags)
    BY <2>1, HeaderIs DEF HeaderLike
  <2>3. \A c \in Commits(d) : c.off < a.off <=> (c = x \/ c.off < x.off)
    <3> SUFFICES ASSUME NEW c \in Commits(d) PROVE c.off < a.off <=> (c = x \/ c.off < x.off)
      OBVIOUS
    <3>1. c \in Headers(d) /\ c.off \in Nat
      BY <1>2
    <3>2. x.off = c.off => x = c
      BY <2>1, <3>1, HeadersApart
    <3>3. x.off < c.off => x.off + 1 + Len(At(d, x.off).tags) <= c.off
      BY <2>1, <3>1, HeadersApart
    <3> HIDE DEF a
    <3> QED BY <2>1, <2>2, <3>1, <3>2, <3>3
  <2>4. x \in Commits(d) <=> At(d, x.off).kind = "commit"
    BY <2>1 DEF Commits
  <2>5. Counted(d, x)
    BY <1>4
  <2> HIDE DEF a
  <2>6. Counted(d, a)
    <3>1. CASE x \in Commits(d)
      <4>1. a.seq = SeqInc(x.seq)
        BY <2>2, <2>4, <3>1
      <4>2. \A f \in Commits(d) : (\A c \in Commits(d) : c.off < a.off => c.off <= f.off) /\ f.off < a.off => f = x
        <5> SUFFICES ASSUME NEW f \in Commits(d), f.off < a.off, \A c \in Commits(d) : c.off < a.off => c.off <= f.off
                     PROVE  f = x
          OBVIOUS
        <5>1. x.off <= f.off
          BY <2>2, <3>1
        <5>2. f = x \/ f.off < x.off
          BY <2>3
        <5> QED BY <1>2, <2>1, <5>1, <5>2
      <4> QED BY <2>1, <2>2, <3>1, <4>1, <4>2 DEF Counted
    <3>2. CASE x \notin Commits(d)
      <4>1. a.seq = x.seq
        BY <2>2, <2>4, <3>2
      <4>2. \A c \in Commits(d) : c.off < a.off <=> c.off < x.off
        BY <2>3, <3>2
      <4>3. \A c \in Commits(d) : c.off >= a.off <=> c.off >= x.off
        BY <1>2, <2>1, <4>2
      <4> QED BY <2>5, <4>1, <4>2, <4>3 DEF Counted
    <3> QED BY <3>1, <3>2
  <2> QED BY <2>1, <2>6 DEF a
<1>5. \A x \in X : x \in Places /\ IsHeader(d, x) => After(d, x) \in X
  BY <1>4
<1> HIDE DEF X
<1>6. Reached(d) \subseteq X
  BY <1>1, <1>3, <1>5, ReachedOnly
<1> QED BY <1>6 DEF X

(* The commit blocks before a place have a last one.                       *)
LEMMA LastCommit ==
  ASSUME NEW d \in Written, d.start # 0, NEW w \in Nat, NEW c \in Commits(d), c.off < w
  PROVE  \E f \in Commits(d) : f.off < w /\ \A e \in Commits(d) : e.off < w => e.off <= f.off
<1> DEFINE S == {n \in 0 .. LogSize : n < w /\ \E e \in Commits(d) : e.off = n}
<1>1. \A e \in Commits(d) : e.off \in 0 .. LogSize
  BY HeaderIs, LogSizeIs DEF Commits, HeaderLike
<1>2. c.off \in S
  BY <1>1
<1>3. S \in SUBSET (0 .. LogSize) /\ LogSize \in Nat
  BY LogSizeIs
<1>4. PICK n \in S : \A m \in S : m <= n
  <2> HIDE DEF S
  <2> QED BY <1>2, <1>3, GreatestExists
<1> QED BY <1>1, <1>4

(* Once the last commit block is known by its number, the headers that     *)
(* count are those whose number is not past it.                            *)
LEMMA FinalIs ==
  ASSUME NEW d \in Written, d.start # 0, NEW s, Final(d, s)
  PROVE  /\ s \in SeqNo
         /\ \A h \in Headers(d) : h \in Committed(d) <=> ~(SeqDiff(h.seq, s) > 0)
         /\ \A h \in Reached(d) : SeqDiff(h.seq, s) > 0 => \A e \in Committed(d) : e.off < h.off
<1>1. PICK f \in Commits(d) : s = f.seq /\ \A e \in Commits(d) : e.off <= f.off
  BY DEF Final
<1>2. f \in Headers(d) /\ HeaderLike(d, f)
  BY HeaderIs DEF Commits
<1>3. f \in Reached(d) /\ f.off \in Nat /\ s \in SeqNo
  BY <1>1, <1>2 DEF HeaderLike
<1>4. \A h \in Reached(d) : h.off \in Nat /\ h.seq \in SeqNo
  BY WrittenIs
<1>5. \A h \in Reached(d) : SeqDiff(h.seq, s) > 0 => f.off < h.off
  <2> SUFFICES ASSUME NEW h \in Reached(d), SeqDiff(h.seq, s) > 0 PROVE f.off < h.off
    OBVIOUS
  <2>1. h.off <= f.off => SeqDiff(f.seq, h.seq) >= 0
    BY <1>3, WrittenIs DEF InOrder
  <2>2. ~(SeqDiff(s, h.seq) >= 0)
    <3>1. h.seq \in SeqNo
      BY <1>4
    <3>2. /\ SeqDiff(h.seq, s) \in Int /\ SeqDiff(s, s) = 0
          /\ SeqDiff(h.seq, s) >= 0 /\ SeqDiff(s, h.seq) >= 0 => h.seq = s
      BY <1>3, <3>1, SeqDiffIs
    <3> QED BY <3>2
  <2> QED BY <1>1, <1>3, <1>4, <2>1, <2>2
<1>6. \A e \in Committed(d) : e \in Headers(d) /\ e.off <= f.off
  <2> SUFFICES ASSUME NEW e \in Committed(d) PROVE e \in Headers(d) /\ e.off <= f.off
    OBVIOUS
  <2>1. PICK c \in Commits(d) : e.off <= c.off
    BY DEF Committed, Commits
  <2>2. e \in Headers(d) /\ e.off \in Nat /\ c.off \in Nat
    BY HeaderIs DEF Committed, Commits, HeaderLike
  <2> QED BY <1>1, <1>3, <2>1, <2>2
<1>7. \A h \in Headers(d) : h \in Reached(d)
  BY HeaderIs DEF HeaderLike
<1>8. ASSUME NEW h \in Headers(d), h \in Committed(d) PROVE ~(SeqDiff(h.seq, s) > 0)
  BY <1>3, <1>4, <1>5, <1>6, <1>7, <1>8
<1>9. ASSUME NEW h \in Headers(d), h \notin Committed(d) PROVE SeqDiff(h.seq, s) > 0
  <2>1. f.off < h.off
    <3>1. ~(h.off <= f.off)
      BY <1>9 DEF Committed, Commits
    <3> QED BY <1>3, <1>4, <1>7, <3>1
  <2>2. h.seq = SeqInc(f.seq)
    BY <1>1, <1>7, <2>1, CountedIs DEF Counted
  <2> QED BY <1>1, <1>3, <2>2, SeqDiffIs
<1>10. ASSUME NEW h \in Reached(d), SeqDiff(h.seq, s) > 0, NEW e \in Committed(d) PROVE e.off < h.off
  <2>1. f.off < h.off /\ e.off <= f.off /\ e.off \in Nat /\ h.off \in Nat
    BY <1>4, <1>5, <1>6, <1>7, <1>10
  <2> QED BY <1>3, <2>1
<1> QED BY <1>3, <1>8, <1>9, <1>10

(***************************************************************************)
(* Revoke records.                                                         *)
(***************************************************************************)

(* A finished revoke table tells of every tag that counts whether it is    *)
(* revoked (is_revoked).                                                   *)
LEMMA RevokedIs ==
  ASSUME NEW d \in Written, d.start # 0, RevokedTo(d, revoked, LogSize),
         NEW h \in Committed(d), NEW b \in FsBlock
  PROVE  IsRevoked(b, h.seq) <=> RevokedBy(d, b, h.seq)
<1> DEFINE R == Revokers(d, b, LogSize)
           By(x) == x \in Committed(d) /\ b \in At(d, x.off).revokes
<1>1. \A x \in Committed(d) : x \in Headers(d)
  BY DEF Committed
<1>2. \A x \in Committed(d) : x \in Reached(d) /\ x.seq \in SeqNo /\ x.off \in 0 .. LogSize - 1
  BY <1>1, HeaderIs DEF HeaderLike
<1>3. \A x : x \in R <=> By(x)
  BY <1>2, LogSizeIs DEF Revokers
<1>4. \A x, y \in Committed(d) : x.off <= y.off => SeqDiff(y.seq, x.seq) >= 0
  BY <1>2, WrittenIs DEF InOrder
<1>5. RevokedBy(d, b, h.seq) <=> \E x : By(x) /\ SeqDiff(x.seq, h.seq) >= 0
  BY DEF RevokedBy
<1>6. \A s \in SeqNo : s # NoSeq
  BY FormatAssumption DEF SeqNo, NoSeq
<1>7. IF R = {} THEN revoked[b] = NoSeq
      ELSE \E x \in R : revoked[b] = x.seq /\ \A e \in R : e.off <= x.off
  BY DEF RevokedTo
<1>8. CASE R = {}
  <2>1. revoked[b] = NoSeq
    BY <1>7, <1>8
  <2>2. \A x : ~By(x)
    BY <1>3, <1>8
  <2> QED BY <1>5, <2>1, <2>2 DEF IsRevoked
<1>9. CASE R # {}
  <2>1. PICK x \in R : revoked[b] = x.seq /\ \A e \in R : e.off <= x.off
    BY <1>7, <1>9
  <2>2. By(x) /\ x.seq # NoSeq
    BY <1>2, <1>3, <1>6, <2>1
  <2>3. IsRevoked(b, h.seq) <=> SeqDiff(x.seq, h.seq) >= 0
    BY <2>1, <2>2 DEF IsRevoked
  <2>4. ASSUME NEW g, By(g), SeqDiff(g.seq, h.seq) >= 0 PROVE SeqDiff(x.seq, h.seq) >= 0
    <3>1. g.off <= x.off /\ g \in Committed(d) /\ x \in Committed(d)
      BY <1>3, <2>1, <2>2, <2>4
    <3>2. /\ g.seq \in SeqNo /\ x.seq \in SeqNo /\ h.seq \in SeqNo
          /\ g.off \in Nat /\ x.off \in Nat /\ h.off \in Nat
      BY <1>2, <3>1
    <3>3. CASE h.off <= x.off
      BY <1>4, <3>1, <3>3
    <3>4. CASE x.off < h.off
      <4>1. SeqDiff(h.seq, g.seq) >= 0 /\ SeqDiff(h.seq, x.seq) >= 0 /\ SeqDiff(x.seq, g.seq) >= 0
        BY <1>4, <3>1, <3>2, <3>4
      <4>2. g.seq = h.seq
        BY <2>4, <3>2, <4>1, SeqDiffIs
      <4>3. x.seq = h.seq
        BY <3>2, <4>1, <4>2, SeqDiffIs
      <4> QED BY <3>2, <4>3, SeqDiffIs
    <3> QED BY <3>2, <3>3, <3>4
  <2> HIDE DEF R, By
  <2> QED BY <1>5, <2>2, <2>3, <2>4
<1> QED BY <1>8, <1>9

(* No header with revokes between two offsets: what was read up to the one *)
(* is what was read up to the other.                                       *)
LEMMA RevokersKept ==
  ASSUME NEW d \in Written, d.start # 0, NEW w \in Nat, NEW w2 \in Nat, w <= w2,
         \A e \in Committed(d) : w <= e.off /\ e.off < w2 => At(d, e.off).revokes = {},
         NEW r, RevokedTo(d, r, w)
  PROVE  RevokedTo(d, r, w2)
<1>1. \A e \in Committed(d) : e.off \in Nat
  BY HeaderIs DEF Committed, HeaderLike
<1>2. \A b \in FsBlock : Revokers(d, b, w2) = Revokers(d, b, w)
  BY <1>1 DEF Revokers
<1> QED BY <1>2 DEF RevokedTo

(* A revoke record of a transaction that counts, added to the table        *)
(* (revoke_upsert).                                                        *)
LEMMA RevokeRead ==
  ASSUME NEW d \in Written, d.start # 0, NEW h \in Committed(d),
         NEW r \in [FsBlock -> SeqNo \cup {NoSeq}], RevokedTo(d, r, h.off)
  PROVE  RevokedTo(d, RevokeUpsert(r, At(d, h.off).revokes, h.seq), h.off + 1)
<1>1. \A x \in Committed(d) : x \in Headers(d)
  BY DEF Committed
<1>2. \A x \in Committed(d) : x \in Reached(d) /\ x.seq \in SeqNo /\ x.off \in Nat
  BY <1>1, HeaderIs DEF HeaderLike
<1> DEFINE blks == At(d, h.off).revokes
           r2 == RevokeUpsert(r, blks, h.seq)
<1>3. \A b \in FsBlock : r2[b] = IF b \in blks /\ (r[b] = NoSeq \/ SeqDiff(h.seq, r[b]) > 0)
                                 THEN h.seq ELSE r[b]
  BY DEF RevokeUpsert
<1>4. \A x \in Committed(d) : x.off < h.off + 1 <=> (x = h \/ x.off < h.off)
  <2>1. \A x \in Committed(d) : x.off = h.off => x = h
    BY <1>1, <1>2, HeadersApart
  <2> QED BY <1>2, <2>1
<1> SUFFICES ASSUME NEW b \in FsBlock
             PROVE  IF Revokers(d, b, h.off + 1) = {} THEN r2[b] = NoSeq
                    ELSE \E x \in Revokers(d, b, h.off + 1) :
                           r2[b] = x.seq /\ \A e \in Revokers(d, b, h.off + 1) : e.off <= x.off
  BY DEF RevokedTo
<1>5. IF Revokers(d, b, h.off) = {} THEN r[b] = NoSeq
      ELSE \E x \in Revokers(d, b, h.off) :
             r[b] = x.seq /\ \A e \in Revokers(d, b, h.off) : e.off <= x.off
  BY DEF RevokedTo
<1>6. CASE b \notin blks
  <2>1. Revokers(d, b, h.off + 1) = Revokers(d, b, h.off)
    BY <1>4, <1>6 DEF Revokers
  <2>2. r2[b] = r[b]
    BY <1>3, <1>6
  <2> QED BY <1>5, <2>1, <2>2
<1>7. CASE b \in blks
  <2>1. h \in Revokers(d, b, h.off + 1)
    BY <1>2, <1>7 DEF Revokers
  <2>2. \A e \in Revokers(d, b, h.off + 1) : e.off <= h.off
    BY <1>2 DEF Revokers
  <2>3. r2[b] = h.seq
    <3>1. CASE Revokers(d, b, h.off) = {}
      BY <1>3, <1>5, <1>7, <3>1
    <3>2. CASE Revokers(d, b, h.off) # {}
      <4>1. PICK x \in Revokers(d, b, h.off) : r[b] = x.seq
        BY <1>5, <3>2
      <4>2. x \in Reached(d) /\ h \in Reached(d) /\ x.off <= h.off /\ x.seq \in SeqNo /\ h.seq \in SeqNo
        BY <1>2 DEF Revokers
      <4>3. SeqDiff(h.seq, x.seq) >= 0
        BY <4>2, WrittenIs DEF InOrder
      <4>4. SeqDiff(h.seq, x.seq) \in Int /\ SeqDiff(x.seq, h.seq) \in Int
        BY <4>2, SeqDiffIs
      <4>5. SeqDiff(h.seq, x.seq) = 0 => h.seq = x.seq
        BY <4>2, FormatAssumption DEF SeqDiff, SeqNo
      <4> QED BY <1>3, <1>7, <4>1, <4>3, <4>4, <4>5
    <3> QED BY <3>1, <3>2
  <2> QED BY <2>1, <2>2, <2>3
<1> QED BY <1>6, <1>7

(***************************************************************************)
(* The copies of a block.                                                  *)
(***************************************************************************)

\* c is the copy of b of the k-th tag of h
CopyOf(d, b, c, h, k) ==
  /\ h \in Committed(d) /\ ~RevokedBy(d, b, h.seq)
  /\ k \in DOMAIN At(d, h.off).tags /\ At(d, h.off).tags[k].blk = b
  /\ c = [off |-> h.off + k, esc |-> At(d, h.off).tags[k].esc]

(* Every copy is that of a tag.                                            *)
LEMMA CopyIs ==
  ASSUME NEW d, NEW b, NEW c
  PROVE  c \in Copies(d, b) <=> \E h, k : CopyOf(d, b, c, h, k)
<1> DEFINE H == {x \in Committed(d) : ~RevokedBy(d, b, x.seq)}
           K(h) == {i \in DOMAIN At(d, h.off).tags : At(d, h.off).tags[i].blk = b}
           C(h) == {[off |-> h.off + k, esc |-> At(d, h.off).tags[k].esc] : k \in K(h)}
<1>1. Copies(d, b) = UNION {C(h) : h \in H}
  BY DEF Copies
<1>2. c \in Copies(d, b) <=> \E h \in H : c \in C(h)
  BY <1>1
<1>3. \A h : c \in C(h) <=> \E k \in K(h) : c = [off |-> h.off + k, esc |-> At(d, h.off).tags[k].esc]
  OBVIOUS
<1> QED BY <1>2, <1>3 DEF CopyOf

(* A copy is below the place behind its header; so it is not the place of  *)
(* any header, and what is behind all headers that count is behind all     *)
(* copies.                                                                 *)
LEMMA CopyPlace ==
  ASSUME NEW d \in Written, d.start # 0, NEW b, NEW c \in Copies(d, b)
  PROVE  /\ c.off \in 0 .. LogSize - 1 /\ c.esc \in BOOLEAN
         /\ \A e \in Reached(d) : c.off # e.off
         /\ \A e \in Reached(d) : (\A h \in Committed(d) : h.off < e.off) => c.off < e.off
<1>1. PICK h, k : CopyOf(d, b, c, h, k)
  BY CopyIs
<1>2. h \in Headers(d) /\ HeaderLike(d, h)
  BY <1>1, HeaderIs DEF CopyOf, Committed
<1> DEFINE ts == At(d, h.off).tags
<1>3. ts \in Seq(Tag) /\ Len(ts) \in Nat /\ h.off \in Nat /\ h.off + 1 + Len(ts) \in 0 .. LogSize
  BY <1>2 DEF HeaderLike, LogBlock
<1>4. k \in 1 .. Len(ts) /\ c.off = h.off + k /\ c.esc = ts[k].esc
  BY <1>1, <1>3 DEF CopyOf
<1>5. ts[k] \in Tag
  BY <1>3, <1>4
<1>6. c.off \in 0 .. LogSize - 1 /\ c.esc \in BOOLEAN /\ h.off < c.off /\ c.off < h.off + 1 + Len(ts)
  BY <1>3, <1>4, <1>5, LogSizeIs DEF Tag
<1>7. \A e \in Reached(d) : e.off \in Nat /\ (h.off < e.off => h.off + 1 + Len(ts) <= e.off)
  BY <1>2, WrittenIs, HeadersApart
<1>8. \A e \in Reached(d) : c.off # e.off
  BY <1>6, <1>7, <1>3
<1>9. \A e \in Reached(d) : (\A x \in Committed(d) : x.off < e.off) => c.off < e.off
  <2>1. h \in Committed(d)
    BY <1>1 DEF CopyOf
  <2> HIDE DEF ts
  <2> QED BY <1>3, <1>6, <1>7, <2>1
<1> QED BY <1>6, <1>8, <1>9

(* The place of a copy tells its tag.                                      *)
LEMMA CopyIsTag ==
  ASSUME NEW d \in Written, d.start # 0, NEW h \in Headers(d),
         NEW k \in 1 .. Len(At(d, h.off).tags),
         NEW b, NEW c \in Copies(d, b), c.off = h.off + k
  PROVE  /\ At(d, h.off).tags[k].blk = b /\ c.esc = At(d, h.off).tags[k].esc
         /\ h \in Committed(d) /\ ~RevokedBy(d, b, h.seq)
<1>1. PICK g, j : CopyOf(d, b, c, g, j)
  BY CopyIs
<1>2. g \in Headers(d) /\ HeaderLike(d, g) /\ HeaderLike(d, h)
  BY <1>1, HeaderIs DEF CopyOf, Committed
<1> DEFINE gs == At(d, g.off).tags
           hs == At(d, h.off).tags
<1>3. /\ gs \in Seq(Tag) /\ Len(gs) \in Nat /\ g.off \in Nat /\ g \in Reached(d)
      /\ hs \in Seq(Tag) /\ Len(hs) \in Nat /\ h.off \in Nat /\ h \in Reached(d)
  BY <1>2 DEF HeaderLike, LogBlock
<1>4. j \in 1 .. Len(gs) /\ c.off = g.off + j /\ gs[j].blk = b /\ c.esc = gs[j].esc
  BY <1>1, <1>3 DEF CopyOf
<1>5. /\ g.off = h.off => g = h
      /\ g.off < h.off => g.off + 1 + Len(gs) <= h.off
      /\ h.off < g.off => h.off + 1 + Len(hs) <= g.off
  <2>1. /\ g.off = h.off => g = h
        /\ h.off < g.off => h.off + 1 + Len(hs) <= g.off
    BY <1>2, <1>3, HeadersApart
  <2>2. g.off < h.off => g.off + 1 + Len(gs) <= h.off
    BY <1>2, <1>3, HeadersApart
  <2> QED BY <2>1, <2>2
<1>6. g.off = h.off
  <2> HIDE DEF gs, hs
  <2>1. k \in 1 .. Len(hs)
    BY DEF hs
  <2> QED BY <1>3, <1>4, <1>5, <2>1
<1>7. g = h
  BY <1>5, <1>6
<1>8. j = k
  BY <1>3, <1>4, <1>7
<1> QED BY <1>1, <1>4, <1>7, <1>8 DEF CopyOf

(* Two copies of a block at the same place are the same one.               *)
LEMMA CopyOnce ==
  ASSUME NEW d \in Written, d.start # 0, NEW b,
         NEW c \in Copies(d, b), NEW e \in Copies(d, b), c.off = e.off
  PROVE  c = e
<1>1. PICK h, k : CopyOf(d, b, c, h, k)
  BY CopyIs
<1>2. PICK g, j : CopyOf(d, b, e, g, j)
  BY CopyIs
<1>3. h \in Headers(d) /\ HeaderLike(d, h)
  BY <1>1, HeaderIs DEF CopyOf, Committed
<1>4. k \in 1 .. Len(At(d, h.off).tags) /\ c = [off |-> h.off + k, esc |-> At(d, h.off).tags[k].esc]
  BY <1>1, <1>3 DEF CopyOf, HeaderLike, LogBlock
<1>5. e.off = h.off + k
  BY <1>4
<1>6. e.esc = At(d, h.off).tags[k].esc
  BY <1>3, <1>4, <1>5, CopyIsTag
<1>7. e = [off |-> e.off, esc |-> e.esc]
  BY <1>2 DEF CopyOf
<1> QED BY <1>4, <1>5, <1>6, <1>7

(* A block with a copy has a last one, and that is what it means; a block  *)
(* without keeps what it has in place.                                     *)
LEMMA MeaningIs ==
  ASSUME NEW d \in Written, d.start # 0, NEW b \in FsBlock
  PROVE  /\ Copies(d, b) = {} => Meaning(d)[b] = Mask(d.home[b])
         /\ Copies(d, b) # {} =>
              \E c \in Copies(d, b) : LastBelow(d, b, c, LogSize) /\ Meaning(d)[b] = CopyVal(d, c)
<1> DEFINE cs == Copies(d, b)
           last == CHOOSE c \in cs : \A e \in cs : e.off <= c.off
<1>1. Meaning(d)[b] = IF cs = {} THEN Mask(d.home[b])
                      ELSE Mask(Restore(At(d, last.off).data, last.esc))
  BY DEF Meaning
<1>2. ASSUME cs # {} PROVE \E c \in cs : LastBelow(d, b, c, LogSize) /\ Meaning(d)[b] = CopyVal(d, c)
  <2>1. \A c \in cs : c.off \in 0 .. LogSize - 1
    BY CopyPlace
  <2> DEFINE S == {n \in 0 .. LogSize : \E c \in cs : c.off = n}
  <2>2. S # {} /\ S \in SUBSET (0 .. LogSize) /\ LogSize \in Nat
    BY <1>2, <2>1, LogSizeIs
  <2>3. PICK n \in S : \A m \in S : m <= n
    <3> HIDE DEF S
    <3> QED BY <2>2, GreatestExists
  <2>4. \E c \in cs : \A e \in cs : e.off <= c.off
    BY <2>1, <2>2, <2>3
  <2>5. last \in cs /\ \A e \in cs : e.off <= last.off
    BY <2>4
  <2> HIDE DEF last
  <2>6. LastBelow(d, b, last, LogSize)
    BY <2>1, <2>2, <2>5 DEF LastBelow
  <2> QED BY <1>1, <1>2, <2>5, <2>6 DEF CopyVal
<1> HIDE DEF last
<1> QED BY <1>1, <1>2

(* Replays that were cut short leave in the place of a block what it had,  *)
(* or, if the log has copies of it, one of them or a torn block.           *)
LEMMA InPlaceIs ==
  ASSUME NEW d, NEW b \in FsBlock
  PROVE  /\ Mask(d.home[b]) \in InPlace(d)[b]
         /\ Copies(d, b) = {} => \A v \in InPlace(d)[b] : v = Mask(d.home[b])
         /\ \A c \in Copies(d, b) : Mask(Torn) \in InPlace(d)[b] /\ CopyVal(d, c) \in InPlace(d)[b]
BY DEF InPlace

(* The last copy of a block is one.                                        *)
LEMMA LastOnce ==
  ASSUME NEW d \in Written, d.start # 0, NEW b, NEW w, NEW c, NEW e,
         LastBelow(d, b, c, w), LastBelow(d, b, e, w)
  PROVE  c = e
<1>1. c \in Copies(d, b) /\ e \in Copies(d, b) /\ c.off <= e.off /\ e.off <= c.off
  BY DEF LastBelow
<1>2. c.off \in Nat /\ e.off \in Nat
  BY <1>1, CopyPlace
<1> QED BY <1>1, <1>2, CopyOnce

(***************************************************************************)
(* The passes.                                                             *)
(***************************************************************************)

\* a recovery that is reading the log
ReadingLog(d) ==
  /\ d \in Written /\ d.log = log /\ d.start # 0 /\ OnDisk(d)
  /\ txn = << >> /\ map \in Seq(MapEntry) /\ walk \in WalkState
  /\ revoked \in [FsBlock -> SeqNo \cup {NoSeq}]
  /\ seq = d.seq /\ jStart = d.start /\ start = d.start /\ ~active

(* Where nothing that the pass looks for lies between two offsets, what    *)
(* was read up to the one is what was read up to the other.                *)
LEMMA PassKept ==
  ASSUME NEW d, ReadingLog(d), NEW w \in Nat, NEW w2 \in Nat, w <= w2,
         NEW v, NEW v2, v2.pass = v.pass, v.pass # "SCAN" => v2.end = v.end,
         NEW r, PassAt(d, v, r, w),
         v.pass = "REVOKE" =>
           \A e \in Committed(d) : w <= e.off /\ e.off < w2 => At(d, e.off).revokes = {},
         v.pass \in {"FLUSH", "BUILD"} =>
           \A b \in FsBlock : \A c \in Copies(d, b) : ~(w <= c.off /\ c.off < w2)
  PROVE  PassAt(d, v2, r, w2)
<1>1. d \in Written /\ d.start # 0 /\ map \in Seq(MapEntry)
  BY DEF ReadingLog
<1>2. v.pass = "REVOKE" /\ RevokedTo(d, r, w) => RevokedTo(d, r, w2)
  BY <1>1, RevokersKept
<1>3. \A b : \A c \in Copies(d, b) : c.off \in Nat
  BY <1>1, CopyPlace
<1>4. ASSUME v.pass \in {"FLUSH", "BUILD"}
      PROVE  \A b \in FsBlock : \A c : LastBelow(d, b, c, w) <=> LastBelow(d, b, c, w2)
  <2> SUFFICES ASSUME NEW b \in FsBlock, NEW c PROVE LastBelow(d, b, c, w) <=> LastBelow(d, b, c, w2)
    OBVIOUS
  <2>1. \A e \in Copies(d, b) : e.off < w <=> e.off < w2
    BY <1>3, <1>4
  <2> QED BY <2>1 DEF LastBelow
<1>5. ASSUME v.pass = "FLUSH", FlushedTo(d, w) PROVE FlushedTo(d, w2)
  BY <1>4, <1>5 DEF FlushedTo
<1>6. ASSUME v.pass = "BUILD", BuiltTo(d, w) PROVE BuiltTo(d, w2)
  <2>1. \A i \in DOMAIN map : map[i].blk \in FsBlock
    <3>1. \A i \in DOMAIN map : map[i] \in MapEntry
      BY <1>1
    <3> QED BY <3>1 DEF MapEntry
  <2>2. \A b \in FsBlock : \A c \in Copies(d, b) : c.off < w2 => c.off < w
    BY <1>3, <1>6
  <2> QED BY <1>4, <1>6, <2>1, <2>2 DEF BuiltTo
<1> QED BY <1>2, <1>5, <1>6 DEF PassAt

(* The SCAN pass ends with the number of the last commit block, or earlier *)
(* than the log begins if there is none (journal.c:438).                   *)
LEMMA ScanEnds ==
  ASSUME NEW d, ReadingLog(d), NEW v, v.pass = "SCAN", NEW h \in Reached(d), Scanned(d, v, h),
         \A e \in Headers(d) : e.off < h.off
  PROVE  IF Committed(d) = {} THEN SeqDiff(LastSeq(v), seq) < 0
         ELSE Final(d, LastSeq(v)) /\ SeqDiff(LastSeq(v), seq) >= 0
<1>1. d \in Written /\ d.start # 0 /\ seq = d.seq
  BY DEF ReadingLog
<1>2. \A c \in Commits(d) : c \in Headers(d)
  BY DEF Commits
<1>3. CASE Committed(d) = {}
  <2>1. Commits(d) = {}
    <3> SUFFICES ASSUME NEW c \in Commits(d) PROVE FALSE
      OBVIOUS
    <3>1. c.off \in Nat
      BY <1>1, <1>2, HeaderIs DEF HeaderLike
    <3>2. c \in Committed(d)
      BY <1>2, <3>1 DEF Committed, Commits
    <3> QED BY <1>3, <3>2
  <2>2. v.end = 0
    BY <2>1 DEF Scanned
  <2>3. SeqDiff(0, d.seq) < 0
    BY <1>1, <1>3, WrittenIs
  <2>4. ~(SeqDiff(0, seq) > 0)
    <3>1. 0 \in SeqNo /\ d.seq \in SeqNo
      BY <1>1, WrittenIs, EmptyTypes
    <3>2. SeqDiff(0, d.seq) \in Int
      BY <3>1, SeqDiffIs
    <3> QED BY <1>1, <2>3, <3>2
  <2>5. LastSeq(v) = 0
    BY <2>2, <2>4 DEF LastSeq
  <2> QED BY <1>1, <1>3, <2>3, <2>5
<1>4. CASE Committed(d) # {}
  <2>1. PICK c0 \in Commits(d) : TRUE
    BY <1>4 DEF Committed, Commits
  <2>2. h.off \in Nat /\ h.seq \in SeqNo
    BY <1>1, WrittenIs
  <2>3. PICK f \in Commits(d) : f.off < h.off /\ \A e \in Commits(d) : e.off < h.off => e.off <= f.off
    BY <1>1, <1>2, <2>1, <2>2, LastCommit
  <2>4. h.seq = SeqInc(f.seq)
    BY <1>1, <2>3, CountedIs DEF Counted
  <2>5. v.end = h.seq
    BY <2>3 DEF Scanned
  <2>6. f \in Reached(d) /\ f.seq \in SeqNo /\ f.off \in Nat
    BY <1>1, <1>2, HeaderIs DEF HeaderLike
  <2>7. Begin(d) \in Reached(d) /\ Begin(d).off = 0 /\ Begin(d).seq = d.seq /\ d.seq \in SeqNo
    BY <1>1, WrittenIs, ReachedAll DEF Begin
  <2>8. SeqDiff(h.seq, d.seq) >= 0 /\ SeqDiff(f.seq, d.seq) >= 0
    BY <1>1, <2>2, <2>6, <2>7, WrittenIs DEF InOrder
  <2>9. h.seq # d.seq
    BY <2>4, <2>6, <2>8, SeqDiffIs
  <2>10. SeqDiff(h.seq, seq) > 0
    BY <1>1, <2>2, <2>7, <2>8, <2>9, SeqDiffIs
  <2>11. LastSeq(v) = f.seq
    BY <2>4, <2>5, <2>6, <2>10, SeqDiffIs DEF LastSeq
  <2>12. Final(d, LastSeq(v))
    BY <1>2, <2>3, <2>11 DEF Final
  <2> QED BY <1>1, <1>4, <2>8, <2>11, <2>12
<1> QED BY <1>3, <1>4

\* where the pass stops, nothing of what it looks for is ahead
Passed(d, pass, h) ==
  \A e \in (IF pass = "SCAN" THEN Headers(d) ELSE Committed(d)) : e.off < h.off

(* All copies written in place, in the order of the log: the disk means    *)
(* what the log does.                                                      *)
LEMMA AllFlushed ==
  ASSUME NEW d, ReadingLog(d), NEW h \in Reached(d), \A e \in Committed(d) : e.off < h.off,
         FlushedTo(d, h.off)
  PROVE  HomeMeans(d)
<1>1. d \in Written /\ d.start # 0 /\ OnDisk(d)
  BY DEF ReadingLog
<1> SUFFICES ASSUME NEW b \in FsBlock PROVE Mask(home[b]) = Meaning(d)[b]
  BY DEF HomeMeans
<1>2. CASE Copies(d, b) = {}
  BY <1>1, <1>2, MeaningIs, InPlaceIs DEF OnDisk
<1>3. CASE Copies(d, b) # {}
  <2>1. PICK c \in Copies(d, b) : LastBelow(d, b, c, LogSize) /\ Meaning(d)[b] = CopyVal(d, c)
    BY <1>1, <1>3, MeaningIs
  <2>2. \A e \in Copies(d, b) : e.off < h.off /\ e.off < LogSize
    BY <1>1, CopyPlace, LogSizeIs
  <2>3. LastBelow(d, b, c, h.off)
    BY <2>1, <2>2 DEF LastBelow
  <2> QED BY <2>1, <2>3 DEF FlushedTo
<1> QED BY <1>2, <1>3

\* a read through the map
Mapped(b) ==
  IF Hits(b) # {} THEN Restore(log[map[FirstHit(b)].jblk].data, map[FirstHit(b)].esc) ELSE home[b]

(* All copies in the map: a read shows what the log means.                 *)
LEMMA AllBuilt ==
  ASSUME NEW d, ReadingLog(d), NEW h \in Reached(d), \A e \in Committed(d) : e.off < h.off,
         BuiltTo(d, h.off), NEW b \in FsBlock
  PROVE  Mask(Mapped(b)) = Meaning(d)[b]
<1>1. d \in Written /\ d.start # 0 /\ OnDisk(d) /\ map \in Seq(MapEntry) /\ d.log = log
  BY DEF ReadingLog
<1>2. CASE Copies(d, b) = {}
  <2>1. Hits(b) = {}
    BY <1>2 DEF BuiltTo, Hits
  <2> QED BY <1>1, <1>2, <2>1, MeaningIs, InPlaceIs DEF OnDisk, Mapped
<1>3. CASE Copies(d, b) # {}
  <2>1. PICK c \in Copies(d, b) : LastBelow(d, b, c, LogSize) /\ Meaning(d)[b] = CopyVal(d, c)
    BY <1>1, <1>3, MeaningIs
  <2>2. \A e \in Copies(d, b) : e.off < h.off /\ e.off < LogSize
    BY <1>1, CopyPlace, LogSizeIs
  <2>3. LastBelow(d, b, c, h.off)
    BY <2>1, <2>2 DEF LastBelow
  <2>4. Hits(b) # {} /\ Hits(b) \in SUBSET Nat
    BY <1>1, <2>1, <2>2 DEF BuiltTo, Hits
  <2>5. FirstHit(b) \in Hits(b)
    <3>1. \E k \in Hits(b) : \A m \in Hits(b) : k <= m
      BY <2>4, LeastExists
    <3> QED BY <3>1 DEF FirstHit
  <2> DEFINE i == FirstHit(b)
  <2>6. i \in DOMAIN map /\ map[i].blk = b
    BY <2>5 DEF Hits
  <2> HIDE DEF i
  <2>7. PICK e \in Copies(d, b) : LastBelow(d, b, e, h.off) /\ map[i].jblk = Pos(d, e.off) /\ map[i].esc = e.esc
    BY <2>6 DEF BuiltTo
  <2>8. e = c
    BY <1>1, <2>3, <2>7, LastOnce
  <2>9. Mapped(b) = Restore(log[map[i].jblk].data, map[i].esc)
    BY <2>4 DEF Mapped, i
  <2> QED BY <1>1, <2>1, <2>7, <2>8, <2>9 DEF CopyVal, At
<1> QED BY <1>2, <1>3

(* A pass begins at the start of the log, with what the passes before it   *)
(* left.                                                                   *)
LEMMA BeginKeeps ==
  ASSUME NEW d, ReadingLog(d), NEW pass \in {"REVOKE", "FLUSH", "BUILD"}, NEW end, Final(d, end),
         pc' = "walk", walk' = StartPass(pass, start, seq, end),
         revoked' \in [FsBlock -> SeqNo \cup {NoSeq}],
         UNCHANGED <<disk, writable, start, seq, active, map, txn>>, map = << >>,
         pass = "REVOKE" => revoked' = NoRevokes,
         pass # "REVOKE" => RevokedTo(d, revoked', LogSize),
         pass = "FLUSH" => writable, pass = "BUILD" => ~writable
  PROVE  Recovering(d)'
<1>1. /\ d \in Written /\ d.log = log /\ d.start # 0 /\ OnDisk(d)
      /\ txn = << >> /\ map \in Seq(MapEntry)
      /\ seq = d.seq /\ jStart = d.start /\ start = d.start /\ ~active
  BY DEF ReadingLog
<1>2. /\ d \in DiskState /\ d.seq \in SeqNo /\ LogSize \in Nat /\ 0 < LogSize
      /\ Begin(d) \in Reached(d) /\ Begin(d).off = 0 /\ Begin(d).seq = d.seq
  BY <1>1, WrittenIs, ReachedAll, LogSizeIs DEF Begin
<1>3. end \in SeqNo
  BY <1>1, FinalIs
<1>4. walk' \in WalkState
  BY <1>1, <1>2, <1>3, WalkTypes DEF Pass, DiskState
<1>5. /\ walk'.pass = pass /\ walk'.blk = d.start /\ walk'.seq = d.seq /\ walk'.end = end
      /\ walk'.n = 0
  BY <1>1 DEF StartPass
<1>6. Pos(d, 0) = d.start
  <2>1. 0 \in 0 .. LogSize - 1
    BY <1>2
  <2> QED BY <1>1, <1>2, <2>1, NextPosIs
<1>7. \A b : \A c \in Copies(d, b) : ~(c.off < 0)
  <2> SUFFICES ASSUME NEW b, NEW c \in Copies(d, b) PROVE ~(c.off < 0)
    OBVIOUS
  <2>1. c.off \in 0 .. LogSize - 1
    BY <1>1, CopyPlace
  <2> QED BY <1>2, <2>1
<1>8. pass = "REVOKE" => RevokedTo(d, revoked', 0)
  <2>1. \A b \in FsBlock : Revokers(d, b, 0) = {}
    <3>1. \A x \in Committed(d) : x.off \in Nat
      BY <1>1, HeaderIs DEF Committed, HeaderLike
    <3> QED BY <3>1 DEF Revokers
  <2> QED BY <2>1 DEF RevokedTo, NoRevokes
<1>9. FlushedTo(d, 0)'
  BY <1>7 DEF FlushedTo, LastBelow
<1>10. BuiltTo(d, 0)'
  <2>1. DOMAIN map' = {}
    BY <1>1
  <2> QED BY <1>7, <2>1 DEF BuiltTo
<1>11. PassAt(d, walk, revoked, 0)'
  <2>1. /\ walk'.pass # "SCAN" /\ Final(d, walk'.end)
        /\ walk'.pass = "REVOKE" => RevokedTo(d, revoked', 0)
        /\ walk'.pass \in {"FLUSH", "BUILD"} => RevokedTo(d, revoked', LogSize)
        /\ walk'.pass = "FLUSH" => writable' /\ FlushedTo(d, 0)'
        /\ walk'.pass = "BUILD" => ~writable' /\ BuiltTo(d, 0)'
        /\ map' = << >>
    BY <1>5, <1>8, <1>9, <1>10
  <2> QED BY <2>1 DEF PassAt
<1>12. AtHeader(d)'
  <2>1. Begin(d).off < LogSize /\ walk'.blk = Pos(d, Begin(d).off)
        /\ walk'.seq = Begin(d).seq /\ walk'.n <= Begin(d).off
    BY <1>2, <1>5, <1>6
  <2>2. Scanned(d, walk', Begin(d))
    BY <1>5 DEF Scanned
  <2>3. PassAt(d, walk, revoked, Begin(d).off)'
    BY <1>2, <1>11
  <2> QED BY <1>2, <2>1, <2>2, <2>3 DEF AtHeader
<1>13. OnDisk(d)'
  BY <1>1 DEF OnDisk, HomeMeans, disk
<1> QED BY <1>1, <1>4, <1>12, <1>13 DEF Recovering, disk

\* the state of a pass that is over at h, or steps there
HasRead(d, v, r, h) ==
  /\ v \in WalkState /\ r \in [FsBlock -> SeqNo \cup {NoSeq}] /\ h \in Reached(d)
  /\ Scanned(d, v, h) /\ PassAt(d, v, r, h.off)

(* A mount that is done reading shows what the log means.                  *)
LEMMA FinishKeeps ==
  ASSUME NEW d, ReadingLog(d), FinishReplay, UNCHANGED disk,
         revoked' \in [FsBlock -> SeqNo \cup {NoSeq}],
         walk.pass = "BUILD" => ~writable /\ \A b \in FsBlock : Mask(Mapped(b)) = Meaning(d)[b],
         walk.pass # "BUILD" => HomeMeans(d)
  PROVE  Recovering(d)'
<1>1. /\ d \in Written /\ d.log = log /\ d.start # 0 /\ OnDisk(d)
      /\ txn = << >> /\ map \in Seq(MapEntry)
      /\ seq = d.seq /\ jStart = d.start /\ start = d.start /\ ~active
  BY DEF ReadingLog
<1>2. /\ active' = (walk.pass = "BUILD" /\ map # << >>)
      /\ pc' \in {"ckJsb", "idle"} /\ (pc' = "ckJsb" => writable)
      /\ walk' = IdleWalk /\ UNCHANGED <<writable, start, seq, rec, map, revoked, txn, idx, reply>>
  BY DEF FinishReplay
<1>3. walk' \in WalkState
  BY <1>2, WalkTypes
<1>4. UNCHANGED <<home, log, jStart, jSeq>>
  BY DEF disk
<1>5. OnDisk(d)'
  BY <1>1, <1>4 DEF OnDisk, HomeMeans
<1>6. ReadsMean(d)'
  <2> SUFFICES ASSUME NEW b \in FsBlock PROVE Mask(ReadView(b)') = Meaning(d)[b]
    BY DEF ReadsMean
  <2>1. Hits(b)' = Hits(b) /\ FirstHit(b)' = FirstHit(b)
    BY <1>2 DEF Hits, FirstHit
  <2>2. ReadView(b)' = IF active' THEN Mapped(b) ELSE home[b]
    BY <1>2, <1>4, <2>1 DEF ReadView, Mapped
  <2>3. walk.pass = "BUILD" /\ map = << >> => Mapped(b) = home[b]
    BY DEF Mapped, Hits
  <2>4. CASE walk.pass = "BUILD"
    <3>1. ReadView(b)' = Mapped(b)
      BY <1>2, <2>2, <2>3, <2>4
    <3> QED BY <2>4, <3>1
  <2>5. CASE walk.pass # "BUILD"
    <3>1. ReadView(b)' = home[b]
      BY <1>2, <2>2, <2>5
    <3> QED BY <2>5, <3>1 DEF HomeMeans
  <2> QED BY <2>4, <2>5
<1>7. pc' = "ckJsb" => ~active'
  BY <1>2
<1> QED BY <1>1, <1>2, <1>3, <1>4, <1>5, <1>6, <1>7 DEF Recovering

(* The end of a pass: the next one begins, or the mount is done.           *)
LEMMA EndPassKeeps ==
  ASSUME NEW d, ReadingLog(d), NEW v, NEW r, NEW h, HasRead(d, v, r, h), v.pass = walk.pass,
         Passed(d, v.pass, h), EndPass(v), revoked' = r, UNCHANGED disk
  PROVE  Recovering(d)'
<1>1. /\ d \in Written /\ d.log = log /\ d.start # 0 /\ OnDisk(d)
      /\ txn = << >> /\ map \in Seq(MapEntry)
      /\ seq = d.seq /\ jStart = d.start /\ start = d.start /\ ~active
  BY DEF ReadingLog
<1>2. /\ v \in WalkState /\ r \in [FsBlock -> SeqNo \cup {NoSeq}] /\ h \in Reached(d)
      /\ Scanned(d, v, h) /\ PassAt(d, v, r, h.off) /\ v.pass \in Pass
  BY DEF HasRead, WalkState
<1>3. h.off \in 0 .. LogSize /\ LogSize \in Nat
  BY <1>1, <1>2, WrittenIs, LogSizeIs
<1>4. v.pass # "SCAN" => \A e \in Committed(d) : e.off < h.off
  BY DEF Passed
<1>5. CASE v.pass = "SCAN"
  <2>1. \A e \in Headers(d) : e.off < h.off
    BY <1>5 DEF Passed
  <2>2. IF Committed(d) = {} THEN SeqDiff(LastSeq(v), seq) < 0
        ELSE Final(d, LastSeq(v)) /\ SeqDiff(LastSeq(v), seq) >= 0
    BY <1>2, <1>5, <2>1, ScanEnds
  <2>3. r = NoRevokes /\ map = << >>
    BY <1>2, <1>5 DEF PassAt
  <2>4. CASE Committed(d) = {}
    <3>1. SeqDiff(LastSeq(v), seq) < 0
      BY <2>2, <2>4
    <3>2. 0 \in SeqNo /\ d.seq \in SeqNo /\ LastSeq(v) \in SeqNo
      <4>1. v.end \in SeqNo
        BY <1>2 DEF WalkState
      <4> QED BY <1>1, <4>1, WrittenIs, EmptyTypes, SeqType DEF LastSeq
    <3>3. ~(SeqDiff(LastSeq(v), seq) >= 0)
      <4>1. SeqDiff(LastSeq(v), seq) \in Int
        BY <1>1, <3>2, SeqDiffIs
      <4> QED BY <3>1, <4>1
    <3>4. FinishReplay
      BY <1>5, <3>3 DEF EndPass
    <3>5. HomeMeans(d)
      <4> SUFFICES ASSUME NEW b \in FsBlock PROVE Mask(home[b]) = Meaning(d)[b]
        BY DEF HomeMeans
      <4>1. Copies(d, b) = {}
        BY <2>4 DEF Copies
      <4> QED BY <1>1, <4>1, MeaningIs, InPlaceIs DEF OnDisk
    <3> QED BY <1>2, <1>5, <3>4, <3>5, FinishKeeps
  <2>5. CASE Committed(d) # {}
    <3>1. Final(d, LastSeq(v)) /\ SeqDiff(LastSeq(v), seq) >= 0
      BY <2>2, <2>5
    <3>2. LastSeq(v) \in SeqNo
      BY <1>1, <3>1, FinalIs
    <3>3. ~(SeqDiff(LastSeq(v), seq) < 0)
      <4>1. SeqDiff(LastSeq(v), seq) \in Int
        BY <1>1, <3>2, WrittenIs, SeqDiffIs
      <4> QED BY <3>1, <4>1
    <3>4. /\ walk' = StartPass("REVOKE", start, seq, LastSeq(v)) /\ pc' = "walk"
          /\ UNCHANGED <<writable, start, seq, active, map, txn>>
      BY <1>5, <3>3 DEF EndPass
    <3> QED BY <1>2, <2>3, <3>1, <3>4, BeginKeeps
  <2> QED BY <2>4, <2>5
<1>6. CASE v.pass = "REVOKE"
  <2>1. Final(d, v.end) /\ RevokedTo(d, r, h.off) /\ map = << >>
    BY <1>2, <1>6 DEF PassAt
  <2>2. RevokedTo(d, r, LogSize)
    <3>1. \A e \in Committed(d) : ~(h.off <= e.off)
      <4>1. \A e \in Committed(d) : e.off \in Nat
        BY <1>1, HeaderIs DEF Committed, HeaderLike
      <4> QED BY <1>3, <1>4, <1>6, <4>1
    <3> QED BY <1>1, <1>3, <2>1, <3>1, RevokersKept
  <2> DEFINE pass == IF writable THEN "FLUSH" ELSE "BUILD"
  <2>3. /\ walk' = StartPass(pass, start, seq, v.end) /\ pc' = "walk"
        /\ UNCHANGED <<writable, start, seq, active, map, txn>>
    BY <1>6 DEF EndPass
  <2>4. pass \in {"REVOKE", "FLUSH", "BUILD"} /\ pass # "REVOKE"
        /\ (pass = "FLUSH" => writable) /\ (pass = "BUILD" => ~writable)
    OBVIOUS
  <2> HIDE DEF pass
  <2> QED BY <1>2, <2>1, <2>2, <2>3, <2>4, BeginKeeps
<1>7. CASE v.pass \in {"FLUSH", "BUILD"}
  <2>1. FinishReplay
    BY <1>7 DEF EndPass
  <2>2. \A e \in Committed(d) : e.off < h.off
    BY <1>4, <1>7
  <2>3. CASE v.pass = "FLUSH"
    <3>1. HomeMeans(d)
      BY <1>2, <2>2, <2>3, AllFlushed DEF PassAt
    <3> QED BY <1>2, <2>1, <2>3, <3>1, FinishKeeps
  <2>4. CASE v.pass = "BUILD"
    <3>1. ~writable /\ BuiltTo(d, h.off)
      BY <1>2, <2>4 DEF PassAt
    <3>2. \A b \in FsBlock : Mask(Mapped(b)) = Meaning(d)[b]
      BY <1>2, <2>2, <3>1, AllBuilt
    <3> QED BY <1>2, <2>1, <2>4, <3>1, <3>2, FinishKeeps
  <2> QED BY <1>7, <2>3, <2>4
<1> QED BY <1>2, <1>5, <1>6, <1>7 DEF Pass

(* A mount that is refused leaves the disk as it is.                       *)
LEMMA RefusedKeeps ==
  ASSUME NEW d, Recovering(d), RefuseMount, OnDisk(d)'
  PROVE  Recovering(d)'
<1>1. /\ pc' = "refused" /\ map' = << >> /\ revoked' = NoRevokes /\ walk' = IdleWalk /\ txn' = << >>
  BY DEF RefuseMount, Reset
<1> QED BY <1>1, WalkTypes, EmptyTypes DEF Recovering

(* A place that is not a header ends a pass, and so does the end of the    *)
(* ring, and a number past the last one that counts.                       *)
LEMMA PassedIs ==
  ASSUME NEW d \in Written, d.start # 0, NEW h \in Reached(d), NEW v,
         \/ ~IsHeader(d, h)
         \/ v.pass # "SCAN" /\ Final(d, v.end) /\ SeqDiff(h.seq, v.end) > 0
  PROVE  Passed(d, v.pass, h)
<1>1. Committed(d) \subseteq Headers(d)
  BY DEF Committed
<1>2. CASE ~IsHeader(d, h)
  BY <1>1, <1>2, HeadersApart DEF Passed
<1>3. CASE v.pass # "SCAN" /\ Final(d, v.end) /\ SeqDiff(h.seq, v.end) > 0
  BY <1>3, FinalIs DEF Passed
<1> QED BY <1>2, <1>3

(* The step over a block that was read, to the place h.                    *)
LEMMA StepOverKeeps ==
  ASSUME NEW d, ReadingLog(d), Recovering(d), NEW v, NEW r, NEW h, HasRead(d, v, r, h),
         v.pass = walk.pass, h.off # 0,
         NextPos(v.blk) = Pos(d, h.off), v.seq = h.seq, v.n + 1 <= h.off,
         StepOver(v, r), UNCHANGED disk
  PROVE  Recovering(d)'
<1>1. /\ d \in Written /\ d.log = log /\ d.start # 0 /\ OnDisk(d)
      /\ txn = << >> /\ map \in Seq(MapEntry)
      /\ seq = d.seq /\ jStart = d.start /\ start = d.start /\ ~active
  BY DEF ReadingLog
<1>2. /\ v \in WalkState /\ r \in [FsBlock -> SeqNo \cup {NoSeq}] /\ h \in Reached(d)
      /\ Scanned(d, v, h) /\ PassAt(d, v, r, h.off)
  BY DEF HasRead
<1>3. h.off \in 0 .. LogSize /\ LogSize \in Nat /\ d \in DiskState
  BY <1>1, <1>2, WrittenIs, LogSizeIs
<1>4. Pos(d, h.off) = d.start <=> h.off = LogSize
  <2>1. h.off - 1 \in 0 .. LogSize - 1 /\ (h.off - 1) + 1 = h.off
    BY <1>3
  <2>2. Pos(d, (h.off - 1) + 1) = d.start <=> (h.off - 1) + 1 = LogSize
    BY <1>1, <1>3, <2>1, NextPosIs
  <2> QED BY <2>1, <2>2
<1> DEFINE p == NextPos(v.blk)
           u == [v EXCEPT !.blk = p, !.n = Visited(v)]
<1>5. /\ u.pass = v.pass /\ u.seq = v.seq /\ u.end = v.end /\ u.blk = p /\ u.n = v.n + 1
      /\ u \in WalkState
  <2>1. p \in LogPos /\ Visited(v) \in Nat
    BY <1>2, NextPosType DEF WalkState, Visited
  <2> HIDE DEF p
  <2> QED BY <1>2, <2>1 DEF WalkState, Visited
<1>6. StepOver(v, r) <=>
        \/ u.n > MaxLen + 4 /\ RefuseMount
        \/ u.n <= MaxLen + 4 /\ p = start /\ EndPass(u) /\ revoked' = r
        \/ /\ u.n <= MaxLen + 4 /\ p # start
           /\ pc' = "walk" /\ walk' = u /\ revoked' = r
           /\ UNCHANGED <<writable, start, seq, rec, active, map, txn, idx, reply>>
  BY DEF StepOver
<1> HIDE DEF u, p
<1>7. UNCHANGED <<home, log, jStart, jSeq>>
  BY DEF disk
<1>8. OnDisk(d)'
  BY <1>1, <1>7 DEF OnDisk, HomeMeans
<1>9. Scanned(d, u, h) /\ PassAt(d, u, r, h.off)
  BY <1>2, <1>5 DEF Scanned, PassAt
<1>10. CASE RefuseMount
  BY <1>8, <1>10, RefusedKeeps
<1>11. CASE p = start /\ EndPass(u) /\ revoked' = r
  <2>1. h.off = LogSize
    BY <1>1, <1>4, <1>11 DEF p
  <2>2. \A e \in Headers(d) : e.off < h.off
    <3>1. \A e \in Headers(d) : e.off \in 0 .. LogSize - 1
      BY <1>1, HeaderIs DEF HeaderLike
    <3> QED BY <1>3, <2>1, <3>1
  <2>3. Passed(d, u.pass, h)
    BY <2>2 DEF Passed, Committed
  <2>4. HasRead(d, u, r, h)
    BY <1>2, <1>5, <1>9 DEF HasRead
  <2> QED BY <1>5, <1>11, <2>3, <2>4, EndPassKeeps
<1>12. CASE /\ p # start /\ pc' = "walk" /\ walk' = u /\ revoked' = r
            /\ UNCHANGED <<writable, start, seq, rec, active, map, txn, idx, reply>>
  <2>1. h.off < LogSize
    BY <1>1, <1>3, <1>4, <1>12 DEF p
  <2>2. PassAt(d, walk, revoked, h.off)'
    BY <1>7, <1>9, <1>12 DEF PassAt, FlushedTo, BuiltTo
  <2>3. AtHeader(d)'
    <3>1. h.off < LogSize /\ walk'.blk = Pos(d, h.off) /\ walk'.seq = h.seq /\ walk'.n <= h.off
      BY <1>5, <1>12, <2>1 DEF p
    <3>2. Scanned(d, walk', h)
      BY <1>9, <1>12
    <3> QED BY <1>2, <2>2, <3>1, <3>2 DEF AtHeader
  <2>4. walk' \in WalkState /\ revoked' \in [FsBlock -> SeqNo \cup {NoSeq}]
    BY <1>2, <1>5, <1>12
  <2> QED BY <1>1, <1>7, <1>8, <1>12, <2>3, <2>4 DEF Recovering
<1> QED BY <1>6, <1>10, <1>11, <1>12

(***************************************************************************)
(* The steps of the walk.                                                  *)
(***************************************************************************)

(* While the driver walks, memory and disk agree on where the log begins.  *)
LEMMA ReadingIs ==
  ASSUME NEW d \in Written, d.log = log, Recovering(d), pc \in {"walk", "tags"}
  PROVE  ReadingLog(d)
BY DEF Recovering, OnDisk, ReadingLog

(* A header was read: with its revoke records, if this is the pass for     *)
(* them, the pass is right up to the place behind it.                      *)
LEMMA HeaderRead ==
  ASSUME NEW d, ReadingLog(d), NEW h \in Headers(d),
         ~(walk.pass # "SCAN" /\ SeqDiff(h.seq, walk.end) > 0),
         PassAt(d, walk, revoked, h.off),
         NEW v, v.pass = walk.pass, v.pass # "SCAN" => v.end = walk.end,
         NEW r, \/ r = revoked /\ (walk.pass = "REVOKE" => At(d, h.off).kind # "revoke")
                \/ walk.pass = "REVOKE" /\ r = RevokeUpsert(revoked, At(d, h.off).revokes, h.seq)
  PROVE  /\ PassAt(d, v, r, h.off + 1)
         /\ walk.pass # "SCAN" => h \in Committed(d)
<1>1. d \in Written /\ d.start # 0 /\ revoked \in [FsBlock -> SeqNo \cup {NoSeq}]
  BY DEF ReadingLog
<1>2. HeaderLike(d, h)
  BY <1>1, HeaderIs
<1>3. h.off \in Nat /\ h.off + 1 \in Nat /\ h \in Reached(d)
  BY <1>2 DEF HeaderLike
<1>4. walk.pass # "SCAN" => h \in Committed(d)
  <2> SUFFICES ASSUME walk.pass # "SCAN" PROVE h \in Committed(d)
    OBVIOUS
  <2>1. Final(d, walk.end)
    BY DEF PassAt
  <2> QED BY <1>1, <2>1, FinalIs
<1>5. \A e \in Headers(d) : h.off <= e.off /\ e.off < h.off + 1 => e = h
  <2> SUFFICES ASSUME NEW e \in Headers(d), h.off <= e.off, e.off < h.off + 1 PROVE e = h
    OBVIOUS
  <2>1. e.off \in Nat
    BY <1>1, HeaderIs DEF HeaderLike
  <2>2. h.off = e.off
    BY <1>3, <2>1
  <2> QED BY <1>1, <1>3, <2>2, HeadersApart
<1>6. \A b : \A c \in Copies(d, b) : ~(h.off <= c.off /\ c.off < h.off + 1)
  <2> SUFFICES ASSUME NEW b, NEW c \in Copies(d, b) PROVE ~(h.off <= c.off /\ c.off < h.off + 1)
    OBVIOUS
  <2>1. c.off \in 0 .. LogSize - 1 /\ c.off # h.off
    BY <1>1, <1>3, CopyPlace
  <2> QED BY <1>3, <2>1, LogSizeIs
<1>7. CASE r = revoked /\ (walk.pass = "REVOKE" => At(d, h.off).kind # "revoke")
  <2>1. v.pass = "REVOKE" =>
          \A e \in Committed(d) : h.off <= e.off /\ e.off < h.off + 1 => At(d, e.off).revokes = {}
    BY <1>2, <1>5, <1>7 DEF HeaderLike, Committed
  <2>2. PassAt(d, walk, r, h.off)
    BY <1>7
  <2>3. h.off <= h.off + 1
    BY <1>3
  <2>4. PassAt(d, v, r, h.off + 1)
    BY <1>3, <1>6, <2>1, <2>2, <2>3, PassKept
  <2> QED BY <1>4, <2>4
<1>8. CASE walk.pass = "REVOKE" /\ r = RevokeUpsert(revoked, At(d, h.off).revokes, h.seq)
  <2>1. RevokedTo(d, revoked, h.off) /\ Final(d, walk.end) /\ map = << >>
    BY <1>8 DEF PassAt
  <2>2. RevokedTo(d, r, h.off + 1)
    <3>1. h \in Committed(d)
      BY <1>4, <1>8
    <3>2. RevokedTo(d, RevokeUpsert(revoked, At(d, h.off).revokes, h.seq), h.off + 1)
      BY <1>1, <2>1, <3>1, RevokeRead
    <3> QED BY <1>8, <3>2
  <2> QED BY <1>4, <1>8, <2>1, <2>2 DEF PassAt
<1> QED BY <1>7, <1>8

(* A header without data, stepped over.                                    *)
LEMMA HeaderStepped ==
  ASSUME NEW d, ReadingLog(d), Recovering(d), NEW h \in Headers(d),
         At(d, h.off).kind # "descriptor", walk.blk = Pos(d, h.off), walk.n <= h.off,
         NEW v \in WalkState, NEW r \in [FsBlock -> SeqNo \cup {NoSeq}],
         PassAt(d, v, r, h.off + 1), Scanned(d, v, After(d, h)), v.pass = walk.pass,
         v.blk = walk.blk, v.n = walk.n, v.seq = After(d, h).seq,
         StepOver(v, r), UNCHANGED disk
  PROVE  Recovering(d)'
<1>1. d \in Written /\ d.start # 0 /\ walk \in WalkState /\ d \in DiskState
  BY WrittenIs DEF ReadingLog
<1>2. HeaderLike(d, h)
  BY <1>1, HeaderIs
<1>3. h.off \in 0 .. LogSize - 1 /\ After(d, h) \in Reached(d) /\ After(d, h).off = h.off + 1
  BY <1>2, LogSizeIs DEF HeaderLike
<1>4. NextPos(v.blk) = Pos(d, h.off + 1)
  BY <1>1, <1>3, NextPosIs
<1>5. walk.n \in Nat
  BY <1>1 DEF WalkState
<1>6. HasRead(d, v, r, After(d, h))
  BY <1>3 DEF HasRead
<1>7. After(d, h).off # 0 /\ v.n + 1 <= After(d, h).off /\ NextPos(v.blk) = Pos(d, After(d, h).off)
  BY <1>3, <1>4, <1>5, LogSizeIs
<1> QED BY <1>6, <1>7, StepOverKeeps

(* Every iteration of walk_log's loop keeps what was read right.           *)
LEMMA WalkKeeps ==
  ASSUME NEW d \in Written, d.log = log, Recovering(d), Walk
  PROVE  Recovering(d)'
<1>1. pc = "walk" /\ ReadingLog(d) /\ AtHeader(d)
  <2>1. pc = "walk"
    BY DEF Walk, WalkStop, WalkMismatch, WalkCommit, WalkRevoke, WalkDescriptor
  <2> QED BY <2>1, ReadingIs DEF Recovering
<1>2. PICK h \in Reached(d) :
        /\ h.off < LogSize /\ walk.blk = Pos(d, h.off) /\ walk.seq = h.seq /\ walk.n <= h.off
        /\ Scanned(d, walk, h) /\ PassAt(d, walk, revoked, h.off)
  BY <1>1 DEF AtHeader
<1>3. /\ d.start # 0 /\ d \in DiskState /\ OnDisk(d) /\ walk \in WalkState
      /\ revoked \in [FsBlock -> SeqNo \cup {NoSeq}] /\ map \in Seq(MapEntry)
      /\ txn = << >> /\ seq = d.seq /\ jStart = d.start /\ start = d.start /\ ~active
  BY <1>1, WrittenIs DEF ReadingLog
<1>4. Header = At(d, h.off)
  BY <1>2 DEF Header, At
<1>5. Expected /\ Verifies(Header) <=> IsHeader(d, h)
  BY <1>2, <1>4 DEF Expected, IsHeader
<1>6. walk.pass # "SCAN" => Final(d, walk.end)
  BY <1>2 DEF PassAt
<1>7. UNCHANGED disk => OnDisk(d)'
  BY <1>3 DEF disk, OnDisk, HomeMeans
<1>8. CASE WalkStop
  <2>1. ~IsHeader(d, h) \/ (walk.pass # "SCAN" /\ Final(d, walk.end) /\ SeqDiff(h.seq, walk.end) > 0)
    BY <1>2, <1>5, <1>6, <1>8 DEF WalkStop, PastLast, HasMagic, Expected
  <2>2. Passed(d, walk.pass, h)
    BY <1>3, <2>1, PassedIs
  <2>3. HasRead(d, walk, revoked, h)
    BY <1>2, <1>3 DEF HasRead
  <2> QED BY <1>1, <1>8, <2>2, <2>3, EndPassKeeps DEF WalkStop, disk
<1>9. CASE WalkMismatch
  BY <1>7, <1>9, RefusedKeeps DEF WalkMismatch
<1>10. ASSUME ~PastLast, Expected, Verifies(Header)
       PROVE  /\ h \in Headers(d) /\ HeaderLike(d, h)
              /\ ~(walk.pass # "SCAN" /\ SeqDiff(h.seq, walk.end) > 0)
  <2>1. h \in Headers(d)
    BY <1>3, <1>5, <1>10, WrittenIs
  <2> QED BY <1>2, <1>3, <1>10, <2>1, HeaderIs DEF PastLast
<1>11. CASE WalkCommit
  <2>1. /\ ~PastLast /\ Expected /\ Header.kind = "commit" /\ Verifies(Header) /\ UNCHANGED disk
        /\ StepOver([walk EXCEPT !.seq = SeqInc(walk.seq),
                                 !.end = IF walk.pass = "SCAN" THEN SeqInc(walk.seq) ELSE @], revoked)
    BY <1>11 DEF WalkCommit
  <2>2. /\ h \in Headers(d) /\ HeaderLike(d, h)
        /\ ~(walk.pass # "SCAN" /\ SeqDiff(h.seq, walk.end) > 0)
    BY <1>10, <2>1
  <2> DEFINE s == SeqInc(walk.seq)
             w == [walk EXCEPT !.seq = s, !.end = IF walk.pass = "SCAN" THEN s ELSE @]
  <2>3. s \in SeqNo
    BY <1>3, SeqType DEF WalkState
  <2>4. /\ w \in WalkState /\ w.pass = walk.pass /\ w.blk = walk.blk /\ w.seq = s
        /\ w.n = walk.n /\ w.end = IF walk.pass = "SCAN" THEN s ELSE walk.end
    BY <1>3, <2>3 DEF WalkState
  <2>5. StepOver(w, revoked)
    BY <2>1
  <2> HIDE DEF w
  <2>6. After(d, h).seq = s /\ After(d, h).off = h.off + 1 /\ h.off \in Nat
    BY <1>2, <1>4, <2>1, <2>2 DEF HeaderLike
  <2>7. PassAt(d, w, revoked, h.off + 1)
    <3>1. At(d, h.off).kind # "revoke"
      BY <1>4, <2>1
    <3> QED BY <1>1, <1>2, <2>2, <2>4, <3>1, HeaderRead
  <2>8. Scanned(d, w, After(d, h))
    <3>1. h \in Commits(d)
      BY <1>4, <2>1, <2>2 DEF Commits
    <3>2. h.off < After(d, h).off
      BY <2>6
    <3> QED BY <2>4, <2>6, <3>1, <3>2 DEF Scanned
  <2>9. At(d, h.off).kind # "descriptor"
    BY <1>4, <2>1
  <2> HIDE DEF s
  <2> QED BY <1>1, <1>2, <1>3, <2>1, <2>2, <2>4, <2>5, <2>6, <2>7, <2>8, <2>9, HeaderStepped
<1>12. CASE WalkRevoke
  <2> DEFINE r == IF walk.pass = "REVOKE"
                  THEN RevokeUpsert(revoked, Header.revokes, walk.seq)
                  ELSE revoked
  <2>1. /\ ~PastLast /\ Expected /\ Header.kind = "revoke" /\ Verifies(Header) /\ UNCHANGED disk
        /\ RefuseMount \/ StepOver(walk, r)
    BY <1>12 DEF WalkRevoke
  <2>2. /\ h \in Headers(d) /\ HeaderLike(d, h)
        /\ ~(walk.pass # "SCAN" /\ SeqDiff(h.seq, walk.end) > 0)
    BY <1>10, <2>1
  <2>3. CASE RefuseMount
    BY <1>7, <2>1, <2>3, RefusedKeeps
  <2>4. CASE StepOver(walk, r)
    <3>1. r \in [FsBlock -> SeqNo \cup {NoSeq}]
      BY <1>3 DEF RevokeUpsert, WalkState
    <3>2. \/ r = revoked /\ (walk.pass = "REVOKE" => At(d, h.off).kind # "revoke")
          \/ walk.pass = "REVOKE" /\ r = RevokeUpsert(revoked, At(d, h.off).revokes, h.seq)
      BY <1>2, <1>4
    <3> HIDE DEF r
    <3>3. PassAt(d, walk, r, h.off + 1)
      BY <1>1, <1>2, <2>2, <3>2, HeaderRead
    <3>4. After(d, h).seq = h.seq /\ After(d, h).off = h.off + 1 /\ h.off \in Nat
      BY <1>2, <1>4, <2>1, <2>2 DEF HeaderLike
    <3>5. Scanned(d, walk, After(d, h))
      <4>1. \A c \in Commits(d) : c.off < After(d, h).off <=> c.off < h.off
        <5>1. \A c \in Commits(d) : c.off \in Nat /\ (c.off = h.off => h = c)
          BY <1>3, HeaderIs, HeadersApart DEF Commits, HeaderLike
        <5>2. h \notin Commits(d)
          BY <1>4, <2>1 DEF Commits
        <5> QED BY <3>4, <5>1, <5>2
      <4> QED BY <1>2, <3>4, <4>1 DEF Scanned
    <3>6. At(d, h.off).kind # "descriptor"
      BY <1>4, <2>1
    <3> QED BY <1>1, <1>2, <1>3, <2>1, <2>2, <2>4, <3>1, <3>3, <3>4, <3>5, <3>6, HeaderStepped
  <2> QED BY <2>1, <2>3, <2>4
<1>13. CASE WalkDescriptor
  <2>1. /\ ~PastLast /\ Expected /\ Header.kind = "descriptor" /\ Verifies(Header) /\ UNCHANGED disk
        /\ pc' = "tags" /\ walk' = [walk EXCEPT !.desc = walk.blk, !.k = 0]
        /\ UNCHANGED <<writable, start, seq, rec, active, map, revoked, txn, idx, reply>>
    BY <1>13 DEF WalkDescriptor
  <2>2. /\ h \in Headers(d) /\ HeaderLike(d, h)
        /\ ~(walk.pass # "SCAN" /\ SeqDiff(h.seq, walk.end) > 0)
    BY <1>10, <2>1
  <2>3. /\ walk' \in WalkState /\ walk'.pass = walk.pass /\ walk'.blk = walk.blk
        /\ walk'.seq = walk.seq /\ walk'.n = walk.n /\ walk'.end = walk.end
        /\ walk'.desc = walk.blk /\ walk'.k = 0
    BY <1>3, <2>1 DEF WalkState
  <2>4. /\ PassAt(d, walk', revoked, h.off + 1)
        /\ walk.pass # "SCAN" => h \in Committed(d)
    <3>1. At(d, h.off).kind # "revoke"
      BY <1>4, <2>1
    <3> HIDE <2>1
    <3> QED BY <1>1, <1>2, <2>2, <2>3, <3>1, HeaderRead
  <2>5. PassAt(d, walk, revoked, h.off + 1)'
    BY <2>1, <2>4 DEF PassAt, FlushedTo, BuiltTo, disk
  <2>6. AmongTags(d)'
    <3>1. h.off + 0 = h.off /\ h.off + walk'.k + 1 = h.off + 1 /\ 0 <= Len(At(d, h.off).tags)
      BY <2>2, <2>3 DEF HeaderLike
    <3>2. At(d, h.off).kind = "descriptor"
      BY <1>4, <2>1
    <3>3. Scanned(d, walk', h)
      BY <1>2, <2>3 DEF Scanned
    <3> QED BY <1>2, <2>2, <2>3, <2>4, <2>5, <3>1, <3>2, <3>3 DEF AmongTags
  <2> QED BY <1>3, <1>7, <2>1, <2>3, <2>6 DEF Recovering, disk
<1> QED BY <1>8, <1>9, <1>11, <1>12, <1>13 DEF Walk

(***************************************************************************)
(* The steps along the tags of a descriptor.                               *)
(***************************************************************************)

\* the walk is among the tags of h
InTags(d, h) ==
  /\ h \in Headers(d) /\ At(d, h.off).kind = "descriptor"
  /\ walk.desc = Pos(d, h.off) /\ walk.seq = h.seq /\ walk.n <= h.off
  /\ walk.k <= Len(At(d, h.off).tags) /\ walk.blk = Pos(d, h.off + walk.k)
  /\ walk.pass # "SCAN" => h \in Committed(d)
  /\ Scanned(d, walk, h) /\ PassAt(d, walk, revoked, h.off + walk.k + 1)

\* the copy of the current tag
CurCopy(h) == [off |-> h.off + walk.k + 1, esc |-> CurTag.esc]

(* Where the walk is among the tags.                                       *)
LEMMA InTagsIs ==
  ASSUME NEW d, ReadingLog(d), NEW h, InTags(d, h)
  PROVE  /\ Tags = At(d, h.off).tags /\ Tags \in Seq(Tag) /\ Len(Tags) \in Nat
         /\ walk.k \in 0 .. Len(Tags) /\ h.off \in Nat
         /\ h.off + 1 + Len(Tags) \in 0 .. LogSize
         /\ NextPos(walk.blk) = Pos(d, h.off + walk.k + 1)
<1>1. d \in Written /\ d.start # 0 /\ d.log = log /\ walk \in WalkState /\ d \in DiskState
  BY WrittenIs DEF ReadingLog
<1>2. HeaderLike(d, h)
  BY <1>1, HeaderIs DEF InTags
<1>3. Tags = At(d, h.off).tags
  BY <1>1 DEF Tags, InTags, At
<1>4. /\ Tags \in Seq(Tag) /\ Len(Tags) \in Nat /\ h.off \in Nat
      /\ h.off + 1 + Len(Tags) \in 0 .. LogSize
  BY <1>2, <1>3 DEF HeaderLike, LogBlock
<1>5. walk.k \in 0 .. Len(Tags)
  <2>1. walk.k \in Nat
    BY <1>1 DEF WalkState
  <2> QED BY <1>3, <1>4, <2>1 DEF InTags
<1>6. NextPos(walk.blk) = Pos(d, h.off + walk.k + 1)
  <2>1. h.off + walk.k \in 0 .. LogSize - 1
    BY <1>4, <1>5, LogSizeIs
  <2>2. NextPos(Pos(d, h.off + walk.k)) = Pos(d, h.off + walk.k + 1)
    BY <1>1, <2>1, NextPosIs
  <2> QED BY <2>2 DEF InTags
<1> QED BY <1>3, <1>4, <1>5, <1>6

\* what is known of the current tag
TagLike(d, h) ==
  /\ CurTag \in Tag /\ CurTag = At(d, h.off).tags[walk.k + 1]
  /\ walk.k + 1 \in 1 .. Len(At(d, h.off).tags)
  /\ TagPos = Pos(d, h.off + walk.k + 1) /\ TagPos \in LogPos
  /\ TagData = At(d, h.off + walk.k + 1).data /\ TagData \in Content
  /\ h.off + walk.k + 1 \in Nat
  /\ Applies => CurCopy(h) \in Copies(d, CurTag.blk)
  /\ \A e \in Headers(d) : e.off # h.off + walk.k + 1
  /\ walk.pass \in {"FLUSH", "BUILD"} =>
       \A b \in FsBlock : \A c \in Copies(d, b) :
         c.off = h.off + walk.k + 1 => b = CurTag.blk /\ c = CurCopy(h) /\ Applies

(* The current tag has a copy that counts exactly if the third pass takes  *)
(* it.                                                                     *)
LEMMA CurTagIs ==
  ASSUME NEW d, ReadingLog(d), NEW h, InTags(d, h), AtTag
  PROVE  TagLike(d, h)
<1>1. /\ d \in Written /\ d.start # 0 /\ d.log = log /\ walk \in WalkState /\ d \in DiskState
      /\ h \in Headers(d)
  BY WrittenIs DEF ReadingLog, InTags
<1>2. /\ Tags = At(d, h.off).tags /\ Tags \in Seq(Tag) /\ Len(Tags) \in Nat
      /\ walk.k \in 0 .. Len(Tags) /\ h.off \in Nat
      /\ h.off + 1 + Len(Tags) \in 0 .. LogSize
      /\ NextPos(walk.blk) = Pos(d, h.off + walk.k + 1)
  BY InTagsIs
<1>3. walk.k + 1 \in 1 .. Len(Tags) /\ CurTag = At(d, h.off).tags[walk.k + 1] /\ CurTag \in Tag
  BY <1>2 DEF AtTag, CurTag
<1>4. h.off + walk.k + 1 \in 0 .. LogSize - 1 /\ h.off + walk.k + 1 = h.off + (walk.k + 1)
  <2>1. /\ Len(Tags) \in Nat /\ walk.k \in Nat /\ walk.k + 1 <= Len(Tags) /\ h.off \in Nat
        /\ h.off + 1 + Len(Tags) <= LogSize /\ LogSize \in Nat
    BY <1>2, <1>3, LogSizeIs
  <2> QED BY <2>1
<1>5. TagPos = Pos(d, h.off + walk.k + 1) /\ TagPos \in LogPos
  <2>1. h.off + walk.k + 1 \in 0 .. LogSize
    BY <1>4, LogSizeIs
  <2> QED BY <1>1, <1>2, <2>1, PosIs DEF TagPos
<1>6. TagData = At(d, h.off + walk.k + 1).data /\ TagData \in Content
  BY <1>1, <1>5 DEF TagData, At, DiskState, LogBlock
<1>7. \A e \in Headers(d) : e.off # h.off + walk.k + 1
  <2> SUFFICES ASSUME NEW e \in Headers(d), e.off = h.off + walk.k + 1 PROVE FALSE
    OBVIOUS
  <2>1. h \in Reached(d) /\ (h.off < e.off => h.off + 1 + Len(At(d, h.off).tags) <= e.off)
    BY <1>1, HeaderIs, HeadersApart DEF HeaderLike
  <2> QED BY <1>2, <1>3, <2>1
<1>8. CurTag.blk \in FsBlock /\ CurTag.esc \in BOOLEAN
  BY <1>3 DEF Tag
<1>9. walk.pass \in {"FLUSH", "BUILD"} =>
        /\ h \in Committed(d)
        /\ Applies <=> ~RevokedBy(d, CurTag.blk, h.seq)
  <2> SUFFICES ASSUME walk.pass \in {"FLUSH", "BUILD"}
               PROVE  /\ h \in Committed(d)
                      /\ Applies <=> ~RevokedBy(d, CurTag.blk, h.seq)
    OBVIOUS
  <2>1. h \in Committed(d) /\ RevokedTo(d, revoked, LogSize) /\ walk.seq = h.seq
    BY DEF InTags, PassAt
  <2>2. IsRevoked(CurTag.blk, h.seq) <=> RevokedBy(d, CurTag.blk, h.seq)
    BY <1>1, <1>8, <2>1, RevokedIs
  <2> QED BY <2>1, <2>2 DEF Applies
<1>10. Applies => CurCopy(h) \in Copies(d, CurTag.blk)
  <2> SUFFICES ASSUME Applies PROVE CurCopy(h) \in Copies(d, CurTag.blk)
    OBVIOUS
  <2>1. walk.pass \in {"FLUSH", "BUILD"}
    BY DEF Applies
  <2>2. CopyOf(d, CurTag.blk, CurCopy(h), h, walk.k + 1)
    BY <1>2, <1>3, <1>4, <1>9, <2>1 DEF CopyOf, CurCopy
  <2> QED BY <2>2, CopyIs
<1>11. ASSUME walk.pass \in {"FLUSH", "BUILD"}, NEW b \in FsBlock, NEW c \in Copies(d, b),
              c.off = h.off + walk.k + 1
       PROVE  b = CurTag.blk /\ c = CurCopy(h) /\ Applies
  <2>1. /\ At(d, h.off).tags[walk.k + 1].blk = b /\ c.esc = At(d, h.off).tags[walk.k + 1].esc
        /\ h \in Committed(d) /\ ~RevokedBy(d, b, h.seq)
    <3>1. walk.k + 1 \in 1 .. Len(At(d, h.off).tags) /\ c.off = h.off + (walk.k + 1)
      BY <1>2, <1>3, <1>4, <1>11
    <3> QED BY <1>1, <1>11, <3>1, CopyIsTag
  <2>2. b = CurTag.blk /\ Applies
    BY <1>3, <1>9, <1>11, <2>1
  <2>3. CurCopy(h) \in Copies(d, b) /\ CurCopy(h).off = c.off
    BY <1>10, <1>11, <2>2 DEF CurCopy
  <2> QED BY <1>1, <2>2, <2>3, CopyOnce
<1> QED BY <1>2, <1>3, <1>4, <1>5, <1>6, <1>7, <1>10, <1>11 DEF TagLike

(* The step over a tag, when the pass is right behind it.                  *)
LEMMA TagStepKeeps ==
  ASSUME NEW d, ReadingLog(d), NEW h, InTags(d, h), AtTag, TagStep,
         OnDisk(d)', map' \in Seq(MapEntry), PassAt(d, walk, revoked, h.off + walk.k + 1)'
  PROVE  Recovering(d)'
<1>1. /\ d \in Written /\ d.log = log /\ d.start # 0 /\ OnDisk(d)
      /\ txn = << >> /\ walk \in WalkState /\ revoked \in [FsBlock -> SeqNo \cup {NoSeq}]
      /\ seq = d.seq /\ jStart = d.start /\ start = d.start /\ ~active
  BY DEF ReadingLog
<1>2. TagLike(d, h)
  BY CurTagIs
<1>3. /\ walk' = [walk EXCEPT !.blk = TagPos, !.k = walk.k + 1]
      /\ UNCHANGED <<log, jStart, jSeq, pc, writable, start, seq, rec, active, revoked, txn, idx, reply>>
      /\ pc = "tags"
  BY DEF TagStep, AtTag
<1>4. /\ walk' \in WalkState /\ walk'.pass = walk.pass /\ walk'.blk = TagPos
      /\ walk'.seq = walk.seq /\ walk'.n = walk.n /\ walk'.end = walk.end
      /\ walk'.desc = walk.desc /\ walk'.k = walk.k + 1
  <2>1. walk.k + 1 \in Nat /\ TagPos \in LogPos
    BY <1>1, <1>2 DEF WalkState, TagLike
  <2>2. walk' = [walk EXCEPT !.blk = TagPos, !.k = walk.k + 1]
    BY <1>3
  <2> QED BY <1>1, <2>1, <2>2 DEF WalkState
<1>5. AmongTags(d)'
  <2>1. /\ h.off + (walk.k + 1) = h.off + walk.k + 1 /\ walk.k + 1 <= Len(At(d, h.off).tags)
    <3>1. walk.k \in Nat /\ h.off \in Nat
      BY InTagsIs
    <3> QED BY <1>2, <3>1 DEF TagLike
  <2>2. /\ h \in Headers(d) /\ At(d, h.off).kind = "descriptor"
        /\ walk'.desc = Pos(d, h.off) /\ walk'.seq = h.seq /\ walk'.n <= h.off
        /\ walk'.k <= Len(At(d, h.off).tags) /\ walk'.blk = Pos(d, h.off + walk'.k)
        /\ walk'.pass # "SCAN" => h \in Committed(d)
    BY <1>2, <1>4, <2>1 DEF InTags, TagLike
  <2>3. Scanned(d, walk', h)
    BY <1>4 DEF Scanned, InTags
  <2> QED BY <2>2, <2>3 DEF AmongTags
<1> QED BY <1>1, <1>3, <1>4, <1>5 DEF Recovering

(* A tag that is passed over.                                              *)
LEMMA TagSkipKeeps ==
  ASSUME NEW d, ReadingLog(d), NEW h, InTags(d, h), TagSkip
  PROVE  Recovering(d)'
<1>1. AtTag /\ ~Applies /\ TagStep /\ UNCHANGED <<home, map>>
  BY DEF TagSkip
<1>2. TagLike(d, h)
  BY <1>1, CurTagIs
<1>3. d \in Written /\ d.start # 0 /\ OnDisk(d) /\ map \in Seq(MapEntry)
  BY DEF ReadingLog
<1> DEFINE w == h.off + walk.k + 1
<1>4. w \in Nat /\ w + 1 \in Nat /\ w <= w + 1
  BY <1>2 DEF TagLike
<1>5. \A e \in Committed(d) : ~(w <= e.off /\ e.off < w + 1)
  <2> SUFFICES ASSUME NEW e \in Committed(d), w <= e.off, e.off < w + 1 PROVE FALSE
    OBVIOUS
  <2>1. e \in Headers(d) /\ e.off \in Nat /\ e.off # w
    BY <1>2, <1>3, HeaderIs DEF Committed, HeaderLike, TagLike
  <2> QED BY <1>4, <2>1
<1>6. walk.pass \in {"FLUSH", "BUILD"} =>
        \A b \in FsBlock : \A c \in Copies(d, b) : ~(w <= c.off /\ c.off < w + 1)
  <2> SUFFICES ASSUME walk.pass \in {"FLUSH", "BUILD"}, NEW b \in FsBlock, NEW c \in Copies(d, b),
                      w <= c.off, c.off < w + 1
               PROVE  FALSE
    OBVIOUS
  <2>1. c.off \in Nat
    BY <1>3, CopyPlace
  <2>2. c.off = w
    BY <1>4, <2>1
  <2> QED BY <1>1, <1>2, <2>2 DEF TagLike
<1>7. PassAt(d, walk, revoked, w)
  BY DEF InTags
<1> HIDE DEF w
<1>8. PassAt(d, walk, revoked, w + 1)
  BY <1>4, <1>5, <1>6, <1>7, PassKept
<1>9. /\ walk'.k = walk.k + 1 /\ walk'.pass = walk.pass /\ walk'.end = walk.end
      /\ UNCHANGED <<log, jStart, jSeq, writable, revoked>>
  <2>1. walk' = [walk EXCEPT !.blk = TagPos, !.k = walk.k + 1] /\ walk \in WalkState
    BY <1>1 DEF TagStep, ReadingLog
  <2>2. walk'.k = walk.k + 1 /\ walk'.pass = walk.pass /\ walk'.end = walk.end
    BY <2>1 DEF WalkState
  <2> QED BY <1>1, <2>2 DEF TagStep
<1>10. PassAt(d, walk, revoked, h.off + walk.k + 1)'
  <2>1. h.off + walk'.k + 1 = w + 1
    <3>1. h.off \in Nat /\ walk.k \in Nat
      BY InTagsIs
    <3> QED BY <1>9, <3>1 DEF w
  <2> QED BY <1>1, <1>8, <1>9, <2>1 DEF PassAt, FlushedTo, BuiltTo
<1>11. OnDisk(d)'
  BY <1>1, <1>3, <1>9 DEF OnDisk, HomeMeans
<1> QED BY <1>1, <1>3, <1>10, <1>11, TagStepKeeps

(* A copy written in place, whole or torn, changes nothing but its block,  *)
(* and leaves there what a replay may.                                     *)
LEMMA FlushOnDisk ==
  ASSUME NEW d, ReadingLog(d), NEW h, TagLike(d, h), Applies, NEW x \in Content,
         Mask(x) \in InPlace(d)[CurTag.blk],
         home' = [home EXCEPT ![CurTag.blk] = x], UNCHANGED <<log, jStart, jSeq>>
  PROVE  OnDisk(d)'
<1>1. OnDisk(d) /\ jStart = d.start /\ d.start # 0
  BY DEF ReadingLog
<1>2. CurTag.blk \in FsBlock /\ Copies(d, CurTag.blk) # {}
  BY DEF TagLike, Tag
<1>3. home' \in [FsBlock -> Content] /\ \A b \in FsBlock : b # CurTag.blk => home'[b] = home[b]
  BY <1>1, <1>2 DEF OnDisk
<1> QED BY <1>1, <1>2, <1>3 DEF OnDisk

(* The copy of a tag, written in place.                                    *)
LEMMA TagFlushKeeps ==
  ASSUME NEW d, ReadingLog(d), NEW h, InTags(d, h), TagFlush
  PROVE  Recovering(d)'
<1>1. /\ AtTag /\ Applies /\ walk.pass = "FLUSH" /\ TagStep /\ UNCHANGED map
      /\ home' = [home EXCEPT ![CurTag.blk] = Restore(TagData, CurTag.esc)]
  BY DEF TagFlush
<1>2. TagLike(d, h)
  BY <1>1, CurTagIs
<1>3. d \in Written /\ d.start # 0 /\ OnDisk(d) /\ map \in Seq(MapEntry) /\ home \in [FsBlock -> Content]
  BY DEF ReadingLog, OnDisk
<1>4. /\ CurTag.blk \in FsBlock /\ CurTag.esc \in BOOLEAN /\ TagData \in Content
      /\ h.off + walk.k + 1 \in Nat
  BY <1>2 DEF TagLike, Tag
<1>5. Restore(TagData, CurTag.esc) \in Content
  BY <1>4, EscapeType
<1>6. /\ walk'.k = walk.k + 1 /\ walk'.pass = walk.pass /\ walk'.end = walk.end
      /\ UNCHANGED <<log, jStart, jSeq, writable, revoked>>
  <2>1. walk' = [walk EXCEPT !.blk = TagPos, !.k = walk.k + 1] /\ walk \in WalkState
    BY <1>1 DEF TagStep, ReadingLog
  <2>2. walk'.k = walk.k + 1 /\ walk'.pass = walk.pass /\ walk'.end = walk.end
    BY <2>1 DEF WalkState
  <2> QED BY <1>1, <2>2 DEF TagStep
<1> DEFINE w == h.off + walk.k + 1
<1>7. h.off + walk'.k + 1 = w + 1 /\ w \in Nat
  <2>1. h.off \in Nat /\ walk.k \in Nat
    BY InTagsIs
  <2> QED BY <1>6, <2>1
<1>8. /\ writable /\ FlushedTo(d, w) /\ map = << >> /\ Final(d, walk.end)
      /\ RevokedTo(d, revoked, LogSize)
  BY <1>1 DEF InTags, PassAt
<1>9. CurCopy(h) \in Copies(d, CurTag.blk) /\ CurCopy(h).off = w /\ CurCopy(h).esc = CurTag.esc
  BY <1>1, <1>2 DEF TagLike, CurCopy
<1>10. TagData = At(d, w).data
  BY <1>2 DEF TagLike
<1>11. OnDisk(d)'
  <2>1. Mask(Restore(TagData, CurTag.esc)) = CopyVal(d, CurCopy(h))
    BY <1>9, <1>10 DEF CopyVal
  <2>2. Mask(Restore(TagData, CurTag.esc)) \in InPlace(d)[CurTag.blk]
    BY <1>4, <1>9, <2>1, InPlaceIs
  <2> QED BY <1>1, <1>2, <1>5, <1>6, <2>2, FlushOnDisk
<1>12. \A b \in FsBlock : \A c \in Copies(d, b) : c.off = w => b = CurTag.blk /\ c = CurCopy(h)
  BY <1>1, <1>2 DEF TagLike
<1> HIDE DEF w
<1>13. ASSUME NEW b \in FsBlock, NEW c \in Copies(d, b), LastBelow(d, b, c, w + 1)
       PROVE  Mask(home'[b]) = CopyVal(d, c)
  <2>1. \A e \in Copies(d, b) : e.off \in Nat
    BY <1>3, CopyPlace
  <2>2. CASE c.off = w
    <3>1. b = CurTag.blk /\ c = CurCopy(h)
      BY <1>12, <2>2
    <3>2. home'[b] = Restore(TagData, CurTag.esc)
      BY <1>1, <1>3, <3>1
    <3> QED BY <1>9, <1>10, <3>1, <3>2 DEF CopyVal
  <2>3. CASE c.off # w
    <3>1. c.off < w
      BY <1>7, <1>13, <2>1, <2>3 DEF LastBelow
    <3>2. LastBelow(d, b, c, w)
      BY <1>7, <1>13, <2>1, <3>1 DEF LastBelow
    <3>3. b # CurTag.blk
      BY <1>7, <1>9, <1>13, <2>1, <3>1 DEF LastBelow
    <3>4. home'[b] = home[b]
      BY <1>1, <1>3, <3>3
    <3> QED BY <1>8, <3>2, <3>4 DEF FlushedTo
  <2> QED BY <2>2, <2>3
<1>14. FlushedTo(d, h.off + walk.k + 1)'
  BY <1>7, <1>13 DEF FlushedTo
<1>15. PassAt(d, walk, revoked, h.off + walk.k + 1)'
  BY <1>1, <1>6, <1>8, <1>14 DEF PassAt
<1> QED BY <1>1, <1>3, <1>11, <1>15, TagStepKeeps

(* The map has the entry that was added (replay_upsert).                   *)
LEMMA UpsertHas ==
  ASSUME NEW m \in Seq(MapEntry), NEW e
  PROVE  \E i \in DOMAIN Upsert(m, e) : Upsert(m, e)[i] = e
BY UpsertShows

(* The map keeps the entries of other blocks.                              *)
LEMMA UpsertKeeps ==
  ASSUME NEW m \in Seq(MapEntry), NEW e
  PROVE  \A j \in DOMAIN m :
           m[j].blk # e.blk => \E i \in DOMAIN Upsert(m, e) : Upsert(m, e)[i] = m[j]
BY UpsertShows

(* The copy of a tag, added to the map.                                    *)
LEMMA TagBuildKeeps ==
  ASSUME NEW d, ReadingLog(d), NEW h, InTags(d, h), TagBuild
  PROVE  Recovering(d)'
<1> DEFINE t == [blk |-> CurTag.blk, jblk |-> TagPos, esc |-> CurTag.esc]
<1>1. /\ AtTag /\ Applies /\ walk.pass = "BUILD" /\ TagStep /\ UNCHANGED home
      /\ map' = Upsert(map, t)
  BY DEF TagBuild
<1>2. TagLike(d, h)
  BY <1>1, CurTagIs
<1>3. d \in Written /\ d.start # 0 /\ OnDisk(d) /\ map \in Seq(MapEntry)
  BY DEF ReadingLog
<1>4. /\ t \in MapEntry /\ t.blk = CurTag.blk /\ t.esc = CurTag.esc /\ t.jblk = TagPos
      /\ CurTag.blk \in FsBlock
  BY <1>2 DEF TagLike, Tag, MapEntry
<1> HIDE DEF t
<1>5. map' \in Seq(MapEntry)
  BY <1>1, <1>3, <1>4, UpsertType
<1>6. /\ walk'.k = walk.k + 1 /\ walk'.pass = walk.pass /\ walk'.end = walk.end
      /\ UNCHANGED <<log, jStart, jSeq, writable, revoked>>
  <2>1. walk' = [walk EXCEPT !.blk = TagPos, !.k = walk.k + 1] /\ walk \in WalkState
    BY <1>1 DEF TagStep, ReadingLog
  <2>2. walk'.k = walk.k + 1 /\ walk'.pass = walk.pass /\ walk'.end = walk.end
    BY <2>1 DEF WalkState
  <2> QED BY <1>1, <2>2 DEF TagStep
<1>7. OnDisk(d)'
  BY <1>1, <1>3, <1>6 DEF OnDisk, HomeMeans
<1> DEFINE w == h.off + walk.k + 1
<1>8. h.off + walk'.k + 1 = w + 1 /\ w \in Nat
  <2>1. h.off \in Nat /\ walk.k \in Nat
    BY InTagsIs
  <2> QED BY <1>2, <1>6, <2>1 DEF TagLike
<1>9. ~writable /\ BuiltTo(d, w) /\ Final(d, walk.end) /\ RevokedTo(d, revoked, LogSize)
  BY <1>1 DEF InTags, PassAt
<1>10. /\ CurCopy(h) \in Copies(d, CurTag.blk) /\ CurCopy(h).off = w /\ CurCopy(h).esc = CurTag.esc
       /\ TagPos = Pos(d, w)
  BY <1>1, <1>2 DEF TagLike, CurCopy
<1>11. \A b \in FsBlock : \A c \in Copies(d, b) : c.off = w => b = CurTag.blk /\ c = CurCopy(h)
  BY <1>1, <1>2 DEF TagLike
<1> HIDE DEF w
<1>12. /\ \A i \in DOMAIN map' : map'[i] = t \/ \E j \in DOMAIN map : map'[i] = map[j] /\ map[j].blk # t.blk
       /\ \E i \in DOMAIN map' : map'[i] = t
       /\ \A j \in DOMAIN map : map[j].blk # t.blk => \E i \in DOMAIN map' : map'[i] = map[j]
  <2>1. \A i \in DOMAIN Upsert(map, t) :
          \/ Upsert(map, t)[i] = t
          \/ \E j \in DOMAIN map : Upsert(map, t)[i] = map[j] /\ map[j].blk # t.blk
    BY <1>3, UpsertShows
  <2>2. \E i \in DOMAIN Upsert(map, t) : Upsert(map, t)[i] = t
    BY <1>3, UpsertHas
  <2>3. \A j \in DOMAIN map :
          map[j].blk # t.blk => \E i \in DOMAIN Upsert(map, t) : Upsert(map, t)[i] = map[j]
    BY <1>3, UpsertKeeps
  <2> DEFINE u == Upsert(map, t)
  <2> HIDE DEF u
  <2>4. map' = u
    BY <1>1 DEF u
  <2> QED BY <2>1, <2>2, <2>3, <2>4 DEF u
<1>13. \A j \in DOMAIN map : map[j].blk \in FsBlock
  <2>1. \A j \in DOMAIN map : map[j] \in MapEntry
    BY <1>3
  <2> QED BY <2>1 DEF MapEntry
<1>14. \A b : \A c \in Copies(d, b) : c.off \in Nat
  BY <1>3, CopyPlace
<1>15. LastBelow(d, CurTag.blk, CurCopy(h), w + 1)
  BY <1>8, <1>10, <1>14 DEF LastBelow
<1>16. ASSUME NEW b \in FsBlock, NEW c, LastBelow(d, b, c, w), b # CurTag.blk
       PROVE  LastBelow(d, b, c, w + 1)
  <2>1. \A e \in Copies(d, b) : e.off # w
    BY <1>11, <1>16
  <2> QED BY <1>8, <1>14, <1>16, <2>1 DEF LastBelow
<1>17. ASSUME NEW i \in DOMAIN map'
       PROVE  \E c \in Copies(d, map'[i].blk) :
                /\ LastBelow(d, map'[i].blk, c, w + 1)
                /\ map'[i].jblk = Pos(d, c.off) /\ map'[i].esc = c.esc
  <2>1. CASE map'[i] = t
    <3>1. map'[i].blk = CurTag.blk /\ map'[i].jblk = Pos(d, w) /\ map'[i].esc = CurTag.esc
      BY <1>4, <1>10, <2>1
    <3> QED BY <1>10, <1>15, <3>1
  <2>2. ASSUME NEW j \in DOMAIN map, map'[i] = map[j], map[j].blk # t.blk
        PROVE  \E c \in Copies(d, map'[i].blk) :
                 /\ LastBelow(d, map'[i].blk, c, w + 1)
                 /\ map'[i].jblk = Pos(d, c.off) /\ map'[i].esc = c.esc
    <3>1. PICK c \in Copies(d, map[j].blk) :
            LastBelow(d, map[j].blk, c, w) /\ map[j].jblk = Pos(d, c.off) /\ map[j].esc = c.esc
      BY <1>9 DEF BuiltTo
    <3>2. LastBelow(d, map[j].blk, c, w + 1)
      BY <1>4, <1>13, <1>16, <2>2, <3>1
    <3> QED BY <2>2, <3>1, <3>2
  <2> QED BY <1>12, <2>1, <2>2
<1>18. ASSUME NEW b \in FsBlock, NEW c \in Copies(d, b), c.off < w + 1
       PROVE  \E i \in DOMAIN map' : map'[i].blk = b
  <2>1. CASE b = CurTag.blk
    BY <1>4, <1>12, <2>1
  <2>2. CASE b # CurTag.blk
    <3>1. c.off < w
      BY <1>8, <1>11, <1>14, <1>18, <2>2
    <3>2. PICK j \in DOMAIN map : map[j].blk = b
      BY <1>9, <3>1 DEF BuiltTo
    <3> QED BY <1>4, <1>12, <2>2, <3>2
  <2> QED BY <2>1, <2>2
<1>19. BuiltTo(d, h.off + walk.k + 1)'
  BY <1>8, <1>17, <1>18 DEF BuiltTo
<1>20. PassAt(d, walk, revoked, h.off + walk.k + 1)'
  BY <1>1, <1>6, <1>9, <1>19 DEF PassAt
<1> QED BY <1>1, <1>5, <1>7, <1>20, TagStepKeeps

(* The last tag is behind; the next header is the place the descriptor     *)
(* leads to.                                                               *)
LEMMA TagsDoneKeeps ==
  ASSUME NEW d, ReadingLog(d), Recovering(d), NEW h, InTags(d, h), TagsDone
  PROVE  Recovering(d)'
<1>1. pc = "tags" /\ ~AtTag /\ StepOver(walk, revoked) /\ UNCHANGED disk
  BY DEF TagsDone
<1>2. /\ d \in Written /\ d.start # 0 /\ walk \in WalkState
      /\ revoked \in [FsBlock -> SeqNo \cup {NoSeq}] /\ h \in Headers(d)
  BY DEF ReadingLog, InTags
<1>3. /\ Tags = At(d, h.off).tags /\ Len(Tags) \in Nat /\ walk.k \in 0 .. Len(Tags)
      /\ h.off \in Nat /\ NextPos(walk.blk) = Pos(d, h.off + walk.k + 1)
  BY InTagsIs
<1>4. walk.k = Len(Tags)
  BY <1>1, <1>3 DEF AtTag
<1>5. HeaderLike(d, h)
  BY <1>2, HeaderIs
<1> DEFINE e == After(d, h)
<1>6. e \in Reached(d) /\ e.off = h.off + 1 + Len(Tags) /\ e.seq = h.seq
  BY <1>3, <1>5 DEF HeaderLike, InTags
<1>7. e.off = h.off + walk.k + 1 /\ e.off # 0 /\ walk.n \in Nat /\ h.off < e.off
  BY <1>2, <1>3, <1>4, <1>6 DEF WalkState
<1> HIDE DEF e
<1>8. \A c \in Commits(d) : c.off < e.off <=> c.off < h.off
  <2> SUFFICES ASSUME NEW c \in Commits(d) PROVE c.off < e.off <=> c.off < h.off
    OBVIOUS
  <2>1. c \in Headers(d) /\ c.off \in Nat /\ c # h /\ h \in Reached(d)
    BY <1>2, <1>5, HeaderIs DEF Commits, HeaderLike, InTags
  <2>2. c.off # h.off /\ (h.off < c.off => h.off + 1 + Len(At(d, h.off).tags) <= c.off)
    BY <1>2, <2>1, HeadersApart
  <2> QED BY <1>3, <1>6, <2>1, <2>2
<1>9. HasRead(d, walk, revoked, e)
  <2>1. Scanned(d, walk, e)
    BY <1>6, <1>8 DEF Scanned, InTags
  <2> QED BY <1>2, <1>6, <1>7, <2>1 DEF HasRead, InTags
<1>10. NextPos(walk.blk) = Pos(d, e.off) /\ walk.seq = e.seq /\ walk.n + 1 <= e.off
  BY <1>2, <1>3, <1>6, <1>7 DEF InTags, WalkState
<1> QED BY <1>1, <1>7, <1>9, <1>10, StepOverKeeps

(* Every step along the tags keeps what was read right.                    *)
LEMMA TagsKeep ==
  ASSUME NEW d \in Written, d.log = log, Recovering(d), TagNext
  PROVE  Recovering(d)'
<1>1. pc = "tags"
  BY DEF TagNext, TagSkip, TagFlush, TagBuild, TagRefused, TagsDone, AtTag
<1>2. ReadingLog(d) /\ AmongTags(d)
  BY <1>1, ReadingIs DEF Recovering
<1>3. PICK h \in Headers(d) : InTags(d, h)
  BY <1>2 DEF AmongTags, InTags
<1>4. CASE TagSkip
  BY <1>2, <1>3, <1>4, TagSkipKeeps
<1>5. CASE TagFlush
  BY <1>2, <1>3, <1>5, TagFlushKeeps
<1>6. CASE TagBuild
  BY <1>2, <1>3, <1>6, TagBuildKeeps
<1>7. CASE TagRefused
  <2>1. RefuseMount /\ UNCHANGED disk
    BY <1>7 DEF TagRefused
  <2>2. OnDisk(d)'
    BY <1>2, <2>1 DEF ReadingLog, OnDisk, HomeMeans, disk
  <2> QED BY <2>1, <2>2, RefusedKeeps
<1>8. CASE TagsDone
  BY <1>2, <1>3, <1>8, TagsDoneKeeps
<1> QED BY <1>4, <1>5, <1>6, <1>7, <1>8 DEF TagNext

(***************************************************************************)
(* The other steps.                                                        *)
(***************************************************************************)

(* The RECOVER bit is not part of what a block means.                      *)
LEMMA RecoverUnseen ==
  ASSUME home \in [FsBlock -> Content], NEW bit \in BOOLEAN
  PROVE  /\ SetRecover(bit) \in [FsBlock -> Content]
         /\ \A b \in FsBlock : Mask(SetRecover(bit)[b]) = Mask(home[b])
BY FormatAssumption, SetRecoverType DEF SetRecover, Mask, Content

(* The disk still means the log when nothing but the RECOVER bit changed.  *)
LEMMA DiskKept ==
  ASSUME NEW d, OnDisk(d), home' \in [FsBlock -> Content],
         \A b \in FsBlock : Mask(home'[b]) = Mask(home[b]),
         UNCHANGED log, jSeq' = d.seq, jStart' \in {jStart, 0}, jStart' # jStart => HomeMeans(d)
  PROVE  OnDisk(d)'
BY DEF OnDisk, HomeMeans

(* A mount begins to read, or finds the log clean.                         *)
LEMMA OpenKeeps ==
  ASSUME NEW d \in Written, d.log = log, Recovering(d), NEW w \in BOOLEAN, Open(w)
  PROVE  Recovering(d)'
<1>1. OnDisk(d) /\ WellWritten(d) /\ d \in DiskState /\ home \in [FsBlock -> Content] /\ jSeq = d.seq
  BY WrittenAssumption DEF Recovering, WellWritten, OnDisk
<1>2. /\ writable' = w /\ start' = jStart /\ seq' = jSeq /\ active' = FALSE
      /\ map' = << >> /\ revoked' = NoRevokes /\ txn' = << >> /\ UNCHANGED <<home, log, jStart, jSeq>>
  BY DEF Open, disk
<1>3. OnDisk(d)'
  BY <1>1, <1>2 DEF OnDisk, HomeMeans
<1>4. CASE jStart = 0
  <2>1. pc' \in {"ckJsb", "idle"} /\ walk' = IdleWalk
    BY <1>4 DEF Open
  <2>2. ReadsMean(d)'
    BY <1>1, <1>2, <1>4 DEF ReadsMean, ReadView, OnDisk, HomeMeans
  <2> QED BY <1>1, <1>2, <1>3, <2>1, <2>2, WalkTypes, EmptyTypes DEF Recovering
<1>5. CASE jStart # 0
  <2>1. pc' = "walk" /\ walk' = StartPass("SCAN", jStart, jSeq, 0)
    BY <1>5 DEF Open
  <2>2. jStart = d.start /\ d.start # 0
    BY <1>1, <1>5 DEF OnDisk
  <2>3. /\ d.seq \in SeqNo /\ 0 < LogSize /\ d.start \in LogPos
        /\ Begin(d) \in Reached(d) /\ Begin(d).off = 0 /\ Begin(d).seq = d.seq
    BY <1>1, <2>2, ReachedAll, LogSizeIs DEF Begin, DiskState
  <2>4. walk' \in WalkState
    <3>1. "SCAN" \in Pass /\ 0 \in SeqNo
      BY EmptyTypes DEF Pass
    <3> QED BY <1>1, <2>1, <2>2, <2>3, <3>1, WalkTypes
  <2>5. /\ walk'.pass = "SCAN" /\ walk'.blk = d.start /\ walk'.seq = d.seq /\ walk'.end = 0
        /\ walk'.n = 0
    BY <1>1, <2>1, <2>2 DEF StartPass
  <2>6. Pos(d, 0) = d.start
    <3>1. 0 \in 0 .. LogSize - 1
      BY LogSizeIs
    <3> QED BY <1>1, <2>2, <3>1, NextPosIs
  <2>7. Scanned(d, walk', Begin(d))
    <3>1. \A c \in Commits(d) : ~(c.off < Begin(d).off)
      BY <2>2, <2>3, HeaderIs DEF Commits, HeaderLike
    <3> QED BY <2>5, <3>1 DEF Scanned
  <2>8. PassAt(d, walk, revoked, Begin(d).off)'
    BY <1>2, <2>5 DEF PassAt
  <2>9. AtHeader(d)'
    <3>1. /\ Begin(d).off < LogSize /\ walk'.blk = Pos(d, Begin(d).off)
          /\ walk'.seq = Begin(d).seq /\ walk'.n <= Begin(d).off
      BY <2>3, <2>5, <2>6
    <3> QED BY <2>3, <2>7, <2>8, <3>1 DEF AtHeader
  <2> QED BY <1>1, <1>2, <1>3, <1>5, <2>1, <2>2, <2>4, <2>9, WalkTypes, EmptyTypes DEF Recovering
<1> QED BY <1>4, <1>5

(* The checkpoint of a mount: the home blocks mean the log, so that the    *)
(* log can be declared clean.                                              *)
LEMMA CheckpointKeeps ==
  ASSUME NEW d \in Written, d.log = log, Recovering(d), Checkpoint
  PROVE  Recovering(d)'
<1>1. /\ OnDisk(d) /\ home \in [FsBlock -> Content] /\ jSeq = d.seq /\ txn = << >>
      /\ pc \notin {"down", "refused", "bare"} => seq = d.seq
      /\ map \in Seq(MapEntry) /\ revoked \in [FsBlock -> SeqNo \cup {NoSeq}] /\ walk \in WalkState
  BY DEF Recovering, OnDisk
<1>2. pc \in {"ckJsb", "ckSb"} => HomeMeans(d) /\ ~active
  <2>1. ~active => \A b \in FsBlock : ReadView(b) = home[b]
    BY DEF ReadView
  <2> QED BY <2>1 DEF Recovering, ReadsMean, HomeMeans
<1>3. pc # "ckFlush"
  BY DEF Recovering
<1>4. CASE CkptJsb
  <2>1. /\ pc = "ckJsb" /\ jStart' = 0 /\ jSeq' = seq /\ pc' = "ckSb"
        /\ UNCHANGED <<home, log, txn>> /\ UNCHANGED <<writable, start, seq, active, map, revoked, walk>>
    BY <1>4 DEF CkptJsb, jbd
  <2>2. OnDisk(d)'
    BY <1>1, <1>2, <2>1 DEF OnDisk, HomeMeans
  <2>3. ReadsMean(d)'
    BY <1>2, <2>1 DEF ReadsMean, ReadView, HomeMeans
  <2> QED BY <1>1, <1>2, <2>1, <2>2, <2>3 DEF Recovering
<1>5. CASE CkptSb
  <2>1. /\ pc = "ckSb" /\ home' = SetRecover(FALSE) /\ pc' = "idle" /\ active' = FALSE
        /\ map' = << >> /\ revoked' = NoRevokes /\ txn' = << >>
        /\ seq' = seq
        /\ UNCHANGED <<log, jStart, jSeq, walk>>
    BY <1>1, <1>5 DEF CkptSb
  <2>2. /\ home' \in [FsBlock -> Content] /\ \A b \in FsBlock : Mask(home'[b]) = Mask(home[b])
    BY <1>1, <2>1, RecoverUnseen
  <2>3. OnDisk(d)'
    BY <1>1, <2>1, <2>2, DiskKept
  <2>4. ReadsMean(d)'
    BY <1>2, <2>1, <2>2 DEF ReadsMean, ReadView, HomeMeans
  <2> QED BY <1>1, <2>1, <2>3, <2>4, WalkTypes, EmptyTypes DEF Recovering
<1>6. CASE CkptFlush
  BY <1>3, <1>6 DEF CkptFlush
<1> QED BY <1>4, <1>5, <1>6 DEF Checkpoint

(* A write that is cut short while the driver recovers tears a block of    *)
(* which the log has a copy, or nothing.                                   *)
LEMMA CutKeeps ==
  ASSUME NEW d \in Written, d.log = log, Recovering(d), CutShort, UNCHANGED <<jStart, jSeq>>
  PROVE  OnDisk(d)' /\ (pc # "tags" => UNCHANGED <<home, log>>)
<1>1. OnDisk(d) /\ pc \in {"down", "refused", "bare", "idle", "walk", "tags", "ckJsb", "ckSb"}
  BY DEF Recovering
<1>2. LogTarget = {}
  BY <1>1 DEF LogTarget
<1>3. CASE UNCHANGED <<home, log>>
  BY <1>1, <1>3 DEF OnDisk, HomeMeans
<1>4. CASE HomeTorn /\ UNCHANGED log
  <2>1. PICK b \in HomeTarget, bit \in BOOLEAN :
          home' = [home EXCEPT ![b] = [Torn EXCEPT !.recover = bit /\ b = SB]]
    BY <1>4 DEF HomeTorn
  <2>2. AtTag /\ Applies /\ b = CurTag.blk
    BY <1>1, <2>1 DEF HomeTarget, AtTag
  <2>3. ReadingLog(d) /\ AmongTags(d) /\ pc = "tags"
    BY <2>2, ReadingIs DEF AtTag, Recovering
  <2>4. PICK h \in Headers(d) : InTags(d, h)
    BY <2>3 DEF AmongTags, InTags
  <2>5. TagLike(d, h)
    BY <2>2, <2>3, <2>4, CurTagIs
  <2>6. /\ [Torn EXCEPT !.recover = bit /\ b = SB] \in Content
        /\ Mask([Torn EXCEPT !.recover = bit /\ b = SB]) \in InPlace(d)[CurTag.blk]
    <3>1. (bit /\ b = SB) \in BOOLEAN
      BY <2>1
    <3>2. Mask([Torn EXCEPT !.recover = bit /\ b = SB]) = Mask(Torn)
      BY DEF Mask, Torn
    <3>3. CurTag.blk \in FsBlock /\ Copies(d, CurTag.blk) # {}
      BY <2>2, <2>5 DEF TagLike, Tag
    <3>4. Mask(Torn) \in InPlace(d)[CurTag.blk]
      BY <3>3, InPlaceIs
    <3> QED BY <3>1, <3>2, <3>4, TornType
  <2>7. OnDisk(d)'
    <3> DEFINE x == [Torn EXCEPT !.recover = bit /\ b = SB]
    <3>1. /\ x \in Content /\ Mask(x) \in InPlace(d)[CurTag.blk]
          /\ home' = [home EXCEPT ![CurTag.blk] = x]
      BY <2>1, <2>2, <2>6
    <3> HIDE DEF x
    <3> QED BY <1>4, <2>2, <2>3, <2>5, <3>1, FlushOnDisk
  <2> QED BY <2>3, <2>7
<1>5. CASE LogTorn
  BY <1>2, <1>5 DEF LogTorn
<1> QED BY <1>3, <1>4, <1>5 DEF CutShort

(* A mount without the journal leaves the disk as it is.                   *)
LEMMA OpenBareKeeps ==
  ASSUME NEW d, Recovering(d), NEW w \in BOOLEAN, OpenBare(w)
  PROVE  Recovering(d)'
<1>1. OnDisk(d)
  BY DEF Recovering
<1>2. /\ UNCHANGED <<home, log, jStart, jSeq>> /\ pc' = "bare" /\ active' = FALSE
      /\ map' = << >> /\ revoked' = NoRevokes /\ walk' = IdleWalk /\ txn' = << >>
  BY DEF OpenBare, disk
<1>3. OnDisk(d)'
  BY <1>1, <1>2 DEF OnDisk, HomeMeans
<1> QED BY <1>2, <1>3, WalkTypes, EmptyTypes DEF Recovering

(* A failed write, a failed read, a mount without the journal or a power   *)
(* cut loses no block of which the log has no copy.                        *)
LEMMA FailureKeeps ==
  ASSUME NEW d \in Written, d.log = log, Recovering(d), Failure
  PROVE  Recovering(d)'
<1>1. /\ OnDisk(d) /\ home \in [FsBlock -> Content] /\ jSeq = d.seq /\ txn = << >>
      /\ pc \notin {"down", "refused", "bare"} => seq = d.seq
      /\ map \in Seq(MapEntry) /\ revoked \in [FsBlock -> SeqNo \cup {NoSeq}] /\ walk \in WalkState
      /\ pc \in {"down", "refused", "bare", "idle", "walk", "tags", "ckJsb", "ckSb"}
  BY DEF Recovering, OnDisk
<1>2. pc \in {"ckJsb", "ckSb"} => HomeMeans(d) /\ ~active
  <2>1. ~active => \A b \in FsBlock : ReadView(b) = home[b]
    BY DEF ReadView
  <2> QED BY <2>1 DEF Recovering, ReadsMean, HomeMeans
<1>3. CASE ReadError
  <2>1. RefuseMount /\ UNCHANGED <<home, log, jStart, jSeq>>
    BY <1>3 DEF ReadError, disk
  <2>2. OnDisk(d)'
    BY <1>1, <2>1 DEF OnDisk, HomeMeans
  <2> QED BY <2>1, <2>2, RefusedKeeps
<1>4. CASE Crash
  <2>1. /\ CutShort /\ UNCHANGED <<jStart, jSeq>> /\ pc' = "down" /\ map' = << >>
        /\ revoked' = NoRevokes /\ walk' = IdleWalk /\ txn' = << >>
    BY <1>4 DEF Crash, Reset
  <2>2. OnDisk(d)'
    BY <2>1, CutKeeps
  <2> QED BY <2>1, <2>2, WalkTypes, EmptyTypes DEF Recovering
<1>5. CASE WriteError
  <2>1. CASE CutShort /\ (HomeTarget # {} \/ LogTarget # {}) /\ UNCHANGED <<jStart, jSeq>>
    <3>1. OnDisk(d)'
      BY <2>1, CutKeeps
    <3>2. pc = "tags"
      BY <1>1, <2>1 DEF HomeTarget, LogTarget, AtTag
    <3>3. RefuseMount
      BY <1>5, <3>2 DEF WriteError
    <3> QED BY <3>1, <3>3, RefusedKeeps
  <2>2. CASE pc = "ckSb" /\ home' \in {home, SetRecover(FALSE)} /\ UNCHANGED <<log, jStart, jSeq>>
    <3>1. /\ home' \in [FsBlock -> Content] /\ \A b \in FsBlock : Mask(home'[b]) = Mask(home[b])
      BY <1>1, <2>2, RecoverUnseen
    <3>2. pc' = "idle" /\ txn' = << >> /\ UNCHANGED <<writable, start, seq, active, map, revoked, walk>>
      BY <1>5, <2>2 DEF WriteError, jbd
    <3>3. OnDisk(d)'
      BY <1>1, <2>2, <3>1, DiskKept
    <3>4. ReadsMean(d)'
      BY <1>2, <2>2, <3>1, <3>2 DEF ReadsMean, ReadView, HomeMeans
    <3> QED BY <1>1, <2>2, <3>2, <3>3, <3>4 DEF Recovering
  <2>3. CASE /\ pc = "ckJsb" /\ UNCHANGED <<home, log>>
             /\ UNCHANGED <<jStart, jSeq>> \/ (jStart' = 0 /\ jSeq' = seq)
    <3>1. pc' = "idle" /\ txn' = << >> /\ UNCHANGED <<writable, start, seq, active, map, revoked, walk>>
      BY <1>5, <2>3 DEF WriteError, jbd
    <3>2. OnDisk(d)'
      BY <1>1, <1>2, <2>3 DEF OnDisk, HomeMeans
    <3>3. ReadsMean(d)'
      BY <1>2, <2>3, <3>1 DEF ReadsMean, ReadView, HomeMeans
    <3> QED BY <1>1, <2>3, <3>1, <3>2, <3>3 DEF Recovering
  <2> QED BY <1>1, <1>5, <2>1, <2>2, <2>3 DEF WriteError, WriteFails
<1> QED BY <1>3, <1>4, <1>5, OpenBareKeeps DEF Failure

(* Without transactions to commit, nothing is written to the log.          *)
LEMMA LogNeverWritten ==
  ASSUME Txns = {}, NoCommits, Next
  PROVE  NoCommits' /\ log' = log
<1>1. LogTarget = {}
  BY DEF LogTarget, NoCommits, CommitPC, PC
<1>2. CutShort => log' = log
  BY <1>1 DEF CutShort, LogTorn, HomeTorn
<1>3. RefuseMount => NoCommits'
  BY DEF RefuseMount, NoCommits, PC, CommitPC
<1>4. \A v : EndPass(v) => NoCommits'
  BY DEF EndPass, FinishReplay, NoCommits, PC, CommitPC, CkptPC
<1>5. \A v, r : StepOver(v, r) => NoCommits'
  BY <1>3, <1>4 DEF StepOver, NoCommits, PC, CommitPC
<1>6. ASSUME NEW w \in BOOLEAN, Open(w) PROVE NoCommits' /\ log' = log
  BY <1>6 DEF Open, NoCommits, PC, CommitPC, CkptPC, disk
<1>7. ASSUME Walk PROVE NoCommits' /\ log' = log
  <2>1. CASE WalkStop
    BY <1>4, <2>1 DEF WalkStop, disk
  <2>2. CASE WalkMismatch
    BY <1>3, <2>2 DEF WalkMismatch, disk
  <2>3. CASE WalkCommit
    BY <1>5, <2>3 DEF WalkCommit, disk
  <2>4. CASE WalkRevoke
    BY <1>3, <1>5, <2>4 DEF WalkRevoke, disk
  <2>5. CASE WalkDescriptor
    BY <2>5 DEF WalkDescriptor, disk, NoCommits, PC, CommitPC
  <2> QED BY <1>7, <2>1, <2>2, <2>3, <2>4, <2>5 DEF Walk
<1>8. ASSUME TagNext PROVE NoCommits' /\ log' = log
  <2>1. TagStep => pc' = pc /\ log' = log
    BY DEF TagStep
  <2>2. CASE TagSkip \/ TagFlush \/ TagBuild
    BY <2>1, <2>2 DEF TagSkip, TagFlush, TagBuild, NoCommits
  <2>3. CASE TagRefused
    BY <1>3, <2>3 DEF TagRefused, disk
  <2>4. CASE TagsDone
    BY <1>5, <2>4 DEF TagsDone, disk
  <2> QED BY <1>8, <2>2, <2>3, <2>4 DEF TagNext
<1>9. ASSUME Checkpoint PROVE NoCommits' /\ log' = log
  BY <1>9 DEF Checkpoint, CkptFlush, CkptJsb, CkptSb, NoCommits, PC, CommitPC, CkptPC
<1>10. ~Commit
  BY DEF Commit, CommitSetRecover, CommitDescriptor, CommitData, CommitBlockWrite, CommitJsb,
         NoCommits, PC, CommitPC
<1>11. ASSUME WriteError PROVE NoCommits' /\ log' = log
  <2>1. log' = log
    BY <1>2, <1>11 DEF WriteError, WriteFails, NoCommits, CommitPC
  <2>2. NoCommits'
    BY <1>3, <1>11 DEF WriteError, NoCommits, PC, CommitPC
  <2> QED BY <2>1, <2>2
<1>12. ASSUME ReadError PROVE NoCommits' /\ log' = log
  BY <1>3, <1>12 DEF ReadError, disk
<1>13. ASSUME Crash PROVE NoCommits' /\ log' = log
  BY <1>2, <1>13 DEF Crash, NoCommits, PC, CommitPC
<1>14. ASSUME NEW w \in BOOLEAN, OpenBare(w) PROVE NoCommits' /\ log' = log
  BY <1>14 DEF OpenBare, NoCommits, PC, CommitPC, disk
<1> QED BY <1>6, <1>7, <1>8, <1>9, <1>10, <1>11, <1>12, <1>13, <1>14
        DEF Next, Work, Driver, Failure

(* Every step of a recovery keeps it right.                                *)
LEMMA RecoveringStep ==
  ASSUME Txns = {}, NEW d \in Written, d.log = log, NoCommits, Recovering(d), [Next]_vars
  PROVE  Recovering(d)'
<1>1. CASE UNCHANGED vars
  <2>1. UNCHANGED <<home, log, jStart, jSeq, pc, writable, start, seq, active, map, revoked, walk, txn>>
    BY <1>1 DEF vars, disk, jbd
  <2>2. OnDisk(d)' /\ ReadsMean(d)' = ReadsMean(d)
    BY <2>1 DEF Recovering, OnDisk, HomeMeans, ReadsMean, ReadView, Hits, FirstHit
  <2>3. (AtHeader(d) => AtHeader(d)') /\ (AmongTags(d) => AmongTags(d)')
    <3>1. \A w : PassAt(d, walk, revoked, w) => PassAt(d, walk, revoked, w)'
      BY <2>1 DEF PassAt, FlushedTo, BuiltTo
    <3> QED BY <2>1, <3>1 DEF AtHeader, AmongTags
  <2> QED BY <2>1, <2>2, <2>3 DEF Recovering
<1>2. CASE \E w \in BOOLEAN : Open(w)
  BY <1>2, OpenKeeps
<1>3. CASE Walk
  BY <1>3, WalkKeeps
<1>4. CASE TagNext
  BY <1>4, TagsKeep
<1>5. CASE Checkpoint
  BY <1>5, CheckpointKeeps
<1>6. CASE Failure
  BY <1>6, FailureKeeps
<1>7. ~Commit
  BY DEF Commit, CommitSetRecover, CommitDescriptor, CommitData, CommitBlockWrite, CommitJsb,
         NoCommits, PC, CommitPC
<1> QED BY <1>1, <1>2, <1>3, <1>4, <1>5, <1>6, <1>7 DEF Next, Work, Driver

(* A disk that nobody has recovered yet is as it was written.              *)
LEMMA RecoveringInit == InitDirty => ForeignInv
<1> SUFFICES ASSUME NEW e \in Disk, PowerUp(e) PROVE ForeignInv
  BY DEF InitDirty
<1>1. /\ home = e.home /\ log = e.log /\ jStart = e.start /\ jSeq = e.seq /\ pc = "down"
      /\ map = << >> /\ revoked = NoRevokes /\ walk = IdleWalk /\ txn = << >>
  BY DEF PowerUp
<1>2. NoCommits
  BY <1>1 DEF NoCommits, PC, CommitPC
<1>3. ASSUME NEW d \in Written, d.log = log PROVE Recovering(d)
  <2>1. d = e
    BY <1>1, <1>3, WrittenAssumption
  <2>2. d \in DiskState
    BY WrittenAssumption DEF WellWritten
  <2>3. jStart = 0 => HomeMeans(d)
    <3> SUFFICES ASSUME jStart = 0, NEW b \in FsBlock PROVE Mask(home[b]) = Meaning(d)[b]
      BY DEF HomeMeans
    <3>1. Committed(d) = {}
      BY <1>1, <2>1 DEF Committed, Headers
    <3>2. Copies(d, b) = {}
      BY <3>1 DEF Copies
    <3>3. Meaning(d)[b] = Mask(d.home[b])
      BY <3>2 DEF Meaning
    <3> QED BY <1>1, <2>1, <3>3
  <2>4. OnDisk(d)
    BY <1>1, <2>1, <2>2, <2>3, InPlaceIs DEF OnDisk, DiskState
  <2> QED BY <1>1, <2>4, WalkTypes, EmptyTypes DEF Recovering
<1>4. OnePerBlock
  BY <1>1 DEF OnePerBlock
<1> QED BY <1>2, <1>3, <1>4 DEF ForeignInv

(* An entry for a block that the map has takes the place of the old one    *)
(* (replay_upsert).                                                        *)
LEMMA OnePerBlockStep ==
  ASSUME NEW d \in Written, d.log = log, NoCommits, Recovering(d), OnePerBlock, [Next]_vars
  PROVE  OnePerBlock'
<1>1. map' = << >> => OnePerBlock'
  BY DEF OnePerBlock
<1>2. map' = map => OnePerBlock'
  BY DEF OnePerBlock
<1>3. RefuseMount => map' = << >>
  BY DEF RefuseMount, Reset
<1>4. \A v : EndPass(v) => map' = map
  BY DEF EndPass, FinishReplay
<1>5. \A v, r : StepOver(v, r) => map' = map \/ map' = << >>
  BY <1>3, <1>4 DEF StepOver
<1>6. ASSUME Walk PROVE map' = map \/ map' = << >>
  BY <1>3, <1>4, <1>5, <1>6
  DEF Walk, WalkStop, WalkMismatch, WalkCommit, WalkRevoke, WalkDescriptor
<1>7. CASE TagBuild
  <2> DEFINE t == [blk |-> CurTag.blk, jblk |-> TagPos, esc |-> CurTag.esc]
  <2>1. AtTag /\ map' = Upsert(map, t)
    BY <1>7 DEF TagBuild
  <2>2. pc = "tags"
    BY <2>1 DEF AtTag
  <2>3. ReadingLog(d) /\ AmongTags(d)
    BY <2>2, ReadingIs DEF Recovering
  <2>4. PICK h \in Headers(d) : InTags(d, h)
    BY <2>3 DEF AmongTags, InTags
  <2>5. TagLike(d, h)
    BY <2>1, <2>3, <2>4, CurTagIs
  <2>6. t \in MapEntry /\ map \in Seq(MapEntry)
    BY <2>3, <2>5 DEF TagLike, Tag, MapEntry, ReadingLog
  <2> HIDE DEF t
  <2>7. \A i, j \in DOMAIN map : map[i].blk = map[j].blk => i = j
    BY DEF OnePerBlock
  <2> DEFINE u == Upsert(map, t)
  <2>8. \A i, j \in DOMAIN u : u[i].blk = u[j].blk => i = j
    BY <2>6, <2>7, UpsertOnce
  <2> HIDE DEF u
  <2>9. map' = u
    BY <2>1 DEF u
  <2> QED BY <2>8, <2>9 DEF OnePerBlock
<1>8. ASSUME TagNext, ~TagBuild PROVE map' = map \/ map' = << >>
  BY <1>3, <1>5, <1>8 DEF TagNext, TagSkip, TagFlush, TagRefused, TagsDone
<1>9. ASSUME Checkpoint PROVE map' = map \/ map' = << >>
  BY <1>9 DEF Checkpoint, CkptFlush, CkptJsb, CkptSb, jbd
<1>10. ~Commit
  BY DEF Commit, CommitSetRecover, CommitDescriptor, CommitData, CommitBlockWrite, CommitJsb,
         NoCommits, PC, CommitPC
<1>11. ASSUME Failure PROVE map' = map \/ map' = << >>
  BY <1>3, <1>11 DEF Failure, WriteError, ReadError, Crash, OpenBare, Reset, jbd
<1>12. ASSUME NEW w \in BOOLEAN, Open(w) PROVE map' = << >>
  BY <1>12 DEF Open
<1>13. ASSUME NEW t, Submit(t) \/ RefuseCommit(t) PROVE map' = map
  BY <1>13 DEF Submit, RefuseCommit, jbd
<1>14. UNCHANGED vars => map' = map
  BY DEF vars, jbd
<1> QED BY <1>1, <1>2, <1>6, <1>7, <1>8, <1>9, <1>10, <1>11, <1>12, <1>13, <1>14
        DEF Next, Work, Driver

(***************************************************************************)
(* Reasons to refuse a mount.                                              *)
(***************************************************************************)
(* A walk that is still in its first round is not cut off.                 *)
LEMMA FirstRound ==
  ASSUME NEW v \in WalkState, v.n <= LogSize, NEW r, StepOver(v, r)
  PROVE  pc' # "refused"
<1> DEFINE u == [v EXCEPT !.blk = NextPos(v.blk), !.n = Visited(v)]
<1>1. v.n \in Nat /\ u.n = v.n + 1
  BY DEF WalkState, Visited
<1>2. u.n <= MaxLen + 4 /\ ~(u.n > MaxLen + 4)
  BY <1>1, LogSizeIs
<1>3. ASSUME EndPass(u) PROVE pc' # "refused"
  BY <1>3 DEF EndPass, FinishReplay
<1> QED BY <1>2, <1>3 DEF StepOver

(* A place that is not a header has the number that follows the last       *)
(* commit block's: the passes after SCAN do not look at what is there.     *)
LEMMA NoMismatch ==
  ASSUME NEW d \in Written, d.start # 0, NEW h \in Reached(d), ~IsHeader(d, h),
         NEW s, Final(d, s)
  PROVE  SeqDiff(h.seq, s) > 0
<1>1. PICK c \in Commits(d) : s = c.seq /\ \A e \in Commits(d) : e.off <= c.off
  BY DEF Final
<1>2. c \in Headers(d) /\ c.seq \in SeqNo
  BY <1>1, HeaderIs DEF Commits, HeaderLike
<1>3. c.off < h.off
  BY <1>2, HeadersApart
<1>4. h.seq = SeqInc(c.seq)
  BY <1>1, <1>3, CountedIs DEF Counted
<1> QED BY <1>1, <1>2, <1>4, SeqDiffIs

(* The revoke table holds blocks that the log revokes.                     *)
LEMMA RevokesHeld ==
  ASSUME NEW d \in Written, d.start # 0, NEW w, NEW r, RevokedTo(d, r, w), IsFiniteSet(FsBlock),
         Cardinality({b \in FsBlock : r[b] # NoSeq}) > RevokeMax
  PROVE  BeyondLimits(d)
<1> DEFINE R == {b \in FsBlock : r[b] # NoSeq}
<1>1. ASSUME NEW b \in R PROVE b \in RevokedBlocks(d)
  <2>1. PICK h \in Committed(d) : b \in At(d, h.off).revokes
    BY <1>1 DEF RevokedTo, Revokers
  <2>2. h \in Reached(d) /\ h.off \in Nat
    BY <2>1, HeaderIs DEF Committed, HeaderLike
  <2>3. Begin(d) \in Reached(d) /\ Begin(d).off = 0 /\ Begin(d).seq = d.seq
    BY WrittenIs, ReachedAll DEF Begin
  <2>4. SeqDiff(h.seq, d.seq) >= 0
    BY <2>2, <2>3, WrittenIs DEF InOrder
  <2> QED BY <1>1, <2>1, <2>4 DEF RevokedBlocks, RevokedBy
<1>2. IsFiniteSet(RevokedBlocks(d))
  BY FS_Subset DEF RevokedBlocks
<1>3. IsFiniteSet(R) /\ Cardinality(R) <= Cardinality(RevokedBlocks(d))
  BY <1>1, <1>2, FS_Subset
<1>4. Cardinality(R) \in Nat /\ Cardinality(RevokedBlocks(d)) \in Nat
  BY <1>2, <1>3, FS_CardinalityType
<1>5. Cardinality(R) > RevokeMax
  OBVIOUS
<1> HIDE DEF R
<1>6. Cardinality(RevokedBlocks(d)) > RevokeMax
  BY <1>3, <1>4, <1>5, JournalAssumption
<1> QED BY <1>6 DEF BeyondLimits

(* A list without repetitions over a finite set is no longer than that.    *)
LEMMA ListFits ==
  ASSUME NEW T, IsFiniteSet(T), NEW n \in Nat, NEW f \in [1 .. n -> T],
         \A i, j \in 1 .. n : f[i] = f[j] => i = j
  PROVE  n <= Cardinality(T)
<1>1. f \in Injection(1 .. n, T)
  BY DEF Injection, IsInjective
<1>2. Cardinality(1 .. n) <= Cardinality(T)
  BY <1>1, FS_Injection
<1>3. Cardinality(1 .. n) = n
  <2>1. Cardinality(1 .. n) = IF 1 > n THEN 0 ELSE n - 1 + 1
    BY FS_Interval
  <2> QED BY <2>1
<1> QED BY <1>2, <1>3

(* The map holds blocks of which the log has a copy that counts.           *)
LEMMA MapHolds ==
  ASSUME NEW d, ReadingLog(d), NEW h, InTags(d, h), AtTag, Applies, walk.pass = "BUILD",
         OnePerBlock, IsFiniteSet(FsBlock),
         Len(Upsert(map, [blk |-> CurTag.blk, jblk |-> TagPos, esc |-> CurTag.esc])) > ReplayMax
  PROVE  BeyondLimits(d)
<1> DEFINE t == [blk |-> CurTag.blk, jblk |-> TagPos, esc |-> CurTag.esc]
           u == Upsert(map, t)
<1>1. TagLike(d, h) /\ map \in Seq(MapEntry)
  BY CurTagIs DEF ReadingLog
<1>2. t \in MapEntry /\ t.blk = CurTag.blk /\ CurTag.blk \in FsBlock
  BY <1>1 DEF TagLike, Tag, MapEntry
<1>3. Len(u) > ReplayMax
  OBVIOUS
<1> HIDE DEF t
<1>4. u \in Seq(MapEntry)
  BY <1>1, <1>2, UpsertType
<1>5. \A i, j \in DOMAIN u : u[i].blk = u[j].blk => i = j
  BY <1>1, <1>2, UpsertOnce DEF OnePerBlock
<1>6. \A i \in DOMAIN u : u[i] = t \/ \E j \in DOMAIN map : u[i] = map[j] /\ map[j].blk # t.blk
  BY <1>1, UpsertShows
<1> HIDE DEF u
<1>7. ~writable /\ BuiltTo(d, h.off + walk.k + 1)
  BY DEF InTags, PassAt
<1>8. CurCopy(h) \in Copies(d, CurTag.blk)
  BY <1>1 DEF TagLike
<1>9. ASSUME NEW i \in DOMAIN u PROVE u[i].blk \in MappedBlocks(d)
  <2>1. u[i].blk \in FsBlock
    <3>1. u[i] \in MapEntry
      BY <1>4, <1>9
    <3> QED BY <3>1 DEF MapEntry
  <2>2. Copies(d, u[i].blk) # {}
    BY <1>2, <1>6, <1>7, <1>8, <1>9 DEF BuiltTo
  <2> QED BY <2>1, <2>2 DEF MappedBlocks
<1>10. IsFiniteSet(MappedBlocks(d))
  BY FS_Subset DEF MappedBlocks
<1> DEFINE n == Len(u)
           f == [i \in 1 .. n |-> u[i].blk]
<1>11. n \in Nat /\ DOMAIN u = 1 .. n
  BY <1>4
<1>12. f \in [1 .. n -> MappedBlocks(d)] /\ \A i, j \in 1 .. n : f[i] = f[j] => i = j
  BY <1>5, <1>9, <1>11
<1> HIDE DEF f, n
<1>13. n <= Cardinality(MappedBlocks(d))
  BY <1>10, <1>11, <1>12, ListFits
<1>14. Cardinality(MappedBlocks(d)) \in Nat
  BY <1>10, FS_CardinalityType
<1>15. n > ReplayMax
  BY <1>3 DEF n
<1>16. Cardinality(MappedBlocks(d)) > ReplayMax
  BY <1>11, <1>13, <1>14, <1>15, JournalAssumption
<1> QED BY <1>7, <1>16 DEF BeyondLimits

(* walk_log refuses a log for its revoke records, and for nothing else.    *)
LEMMA WalkRefusal ==
  ASSUME NEW d \in Written, d.log = log, Recovering(d), IsFiniteSet(FsBlock),
         Walk, pc' = "refused"
  PROVE  BeyondLimits(d)
<1>1. pc = "walk" /\ ReadingLog(d) /\ AtHeader(d)
  <2>1. pc = "walk"
    BY DEF Walk, WalkStop, WalkMismatch, WalkCommit, WalkRevoke, WalkDescriptor
  <2> QED BY <2>1, ReadingIs DEF Recovering
<1>2. PICK h \in Reached(d) :
        /\ h.off < LogSize /\ walk.blk = Pos(d, h.off) /\ walk.seq = h.seq /\ walk.n <= h.off
        /\ Scanned(d, walk, h) /\ PassAt(d, walk, revoked, h.off)
  BY <1>1 DEF AtHeader
<1>3. d.start # 0 /\ walk \in WalkState
  BY <1>1 DEF ReadingLog
<1>4. Header = At(d, h.off)
  BY <1>2 DEF Header, At
<1>5. Expected /\ Verifies(Header) <=> IsHeader(d, h)
  BY <1>2, <1>4 DEF Expected, IsHeader
<1>6. walk.n \in Nat /\ walk.n <= LogSize
  <2>1. walk.n \in Nat /\ h.off \in 0 .. LogSize
    BY <1>3, WrittenIs DEF WalkState
  <2> QED BY <1>2, <2>1, LogSizeIs
<1>7. ~WalkStop
  BY DEF WalkStop, EndPass, FinishReplay
<1>8. ~WalkMismatch
  <2> SUFFICES ASSUME WalkMismatch PROVE FALSE
    OBVIOUS
  <2>1. ~PastLast /\ ~Expected /\ walk.pass # "SCAN"
    BY DEF WalkMismatch
  <2>2. ~IsHeader(d, h) /\ Final(d, walk.end)
    BY <1>2, <1>5, <2>1 DEF PassAt
  <2>3. SeqDiff(h.seq, walk.end) > 0
    BY <1>3, <2>2, NoMismatch
  <2> QED BY <1>2, <2>1, <2>3 DEF PastLast
<1>9. ~WalkCommit
  <2> SUFFICES ASSUME WalkCommit PROVE FALSE
    OBVIOUS
  <2> DEFINE s == SeqInc(walk.seq)
             w == [walk EXCEPT !.seq = s, !.end = IF walk.pass = "SCAN" THEN s ELSE @]
  <2>1. StepOver(w, revoked)
    BY DEF WalkCommit
  <2>2. s \in SeqNo
    BY <1>3, SeqType DEF WalkState
  <2>3. w \in WalkState /\ w.n = walk.n
    BY <1>3, <2>2 DEF WalkState
  <2> HIDE DEF w
  <2> QED BY <1>6, <2>1, <2>3, FirstRound
<1>10. CASE WalkRevoke
  <2> DEFINE r == IF walk.pass = "REVOKE"
                  THEN RevokeUpsert(revoked, Header.revokes, walk.seq)
                  ELSE revoked
             full == Cardinality({b \in FsBlock : r[b] # NoSeq}) > RevokeMax
  <2>1. /\ ~PastLast /\ Expected /\ Header.kind = "revoke" /\ Verifies(Header)
        /\ IF full THEN RefuseMount ELSE StepOver(walk, r)
    BY <1>10 DEF WalkRevoke
  <2>2. full
    BY <1>3, <1>6, <2>1, FirstRound
  <2>3. h \in Headers(d) /\ ~(walk.pass # "SCAN" /\ SeqDiff(h.seq, walk.end) > 0)
    BY <1>2, <1>3, <1>5, <2>1, WrittenIs DEF PastLast
  <2>4. \/ r = revoked /\ (walk.pass = "REVOKE" => At(d, h.off).kind # "revoke")
        \/ walk.pass = "REVOKE" /\ r = RevokeUpsert(revoked, At(d, h.off).revokes, h.seq)
    BY <1>2, <1>4
  <2> HIDE DEF r
  <2>5. PassAt(d, walk, r, h.off + 1)
    BY <1>1, <1>2, <2>3, <2>4, HeaderRead
  <2>6. walk.pass # "SCAN"
    <3> SUFFICES ASSUME r = NoRevokes PROVE FALSE
      BY <2>5 DEF PassAt
    <3>1. {b \in FsBlock : r[b] # NoSeq} = {}
      BY DEF NoRevokes
    <3>2. Cardinality({b \in FsBlock : r[b] # NoSeq}) = 0
      BY <3>1, FS_EmptySet
    <3> QED BY <2>2, <3>2, JournalAssumption
  <2>7. RevokedTo(d, r, h.off + 1) \/ RevokedTo(d, r, LogSize)
    BY <1>3, <2>5, <2>6 DEF PassAt, WalkState, Pass
  <2> QED BY <1>3, <2>2, <2>7, RevokesHeld
<1>11. ~WalkDescriptor
  BY DEF WalkDescriptor
<1> QED BY <1>7, <1>8, <1>9, <1>10, <1>11 DEF Walk

(* iterate_descriptor_tags refuses a log for more blocks than its map      *)
(* takes, and for nothing else.                                            *)
LEMMA TagRefusal ==
  ASSUME NEW d \in Written, d.log = log, Recovering(d), OnePerBlock, IsFiniteSet(FsBlock),
         TagNext, pc' = "refused"
  PROVE  BeyondLimits(d)
<1>1. pc = "tags"
  BY DEF TagNext, TagSkip, TagFlush, TagBuild, TagRefused, TagsDone, AtTag
<1>2. ReadingLog(d) /\ AmongTags(d)
  BY <1>1, ReadingIs DEF Recovering
<1>3. PICK h \in Headers(d) : InTags(d, h)
  BY <1>2 DEF AmongTags, InTags
<1>4. d.start # 0 /\ walk \in WalkState
  BY <1>2 DEF ReadingLog
<1>5. ~(TagSkip \/ TagFlush \/ TagBuild)
  BY <1>1 DEF TagSkip, TagFlush, TagBuild, TagStep
<1>6. ~TagsDone
  <2> SUFFICES ASSUME TagsDone PROVE FALSE
    OBVIOUS
  <2>1. walk.n \in Nat /\ h.off \in 0 .. LogSize - 1 /\ walk.n <= h.off
    BY <1>3, <1>4, HeaderIs DEF WalkState, HeaderLike, InTags
  <2>2. walk.n <= LogSize /\ StepOver(walk, revoked)
    BY <2>1, LogSizeIs DEF TagsDone
  <2> QED BY <1>4, <2>2, FirstRound
<1>7. CASE TagRefused
  <2>1. AtTag /\ Applies
    BY <1>7 DEF TagRefused
  <2>2. TagLike(d, h)
    BY <1>2, <1>3, <2>1, CurTagIs
  <2>3. h \in Committed(d)
    BY <1>3, <2>1 DEF InTags, Applies
  <2>4. walk.k + 1 \in DOMAIN At(d, h.off).tags /\ h.off + (walk.k + 1) = h.off + walk.k + 1
    <3>1. At(d, h.off).tags = Tags /\ Tags \in Seq(Tag) /\ walk.k \in Nat /\ h.off \in Nat
      BY <1>2, <1>3, InTagsIs
    <3> QED BY <2>2, <3>1 DEF TagLike
  <2>5. TagVerifies(CurTag, walk.seq, TagData)
    <3>1. TagVerifies(At(d, h.off).tags[walk.k + 1], h.seq, At(d, h.off + (walk.k + 1)).data)
      BY <2>3, <2>4, SumsAssumption DEF SumsMatch
    <3>2. /\ CurTag = At(d, h.off).tags[walk.k + 1] /\ walk.seq = h.seq
          /\ TagData = At(d, h.off + (walk.k + 1)).data
      BY <1>3, <2>2, <2>4 DEF TagLike, InTags
    <3> QED BY <3>1, <3>2
  <2>6. /\ walk.pass = "BUILD"
        /\ Len(Upsert(map, [blk |-> CurTag.blk, jblk |-> TagPos, esc |-> CurTag.esc])) > ReplayMax
    BY <1>7, <2>5 DEF TagRefused
  <2> QED BY <1>2, <1>3, <2>1, <2>6, MapHolds
<1> QED BY <1>5, <1>6, <1>7 DEF TagNext

(***************************************************************************)
(* The theorems.                                                           *)
(***************************************************************************)

(* What the disk, the walk and the map are while a log that another system *)
(* left is recovered, through every crash, every failed write and every    *)
(* mount without the journal; the map and the disk show together what the  *)
(* log meant in the mounts that have their journal, and only there.        *)
THEOREM ForeignInvariant ==
  ASSUME Txns = {}
  PROVE  ForeignSpec => []ForeignInv
<1>1. InitDirty => ForeignInv
  BY RecoveringInit
<1>2. ForeignInv /\ [Next]_vars => ForeignInv'
  <2> SUFFICES ASSUME ForeignInv, [Next]_vars PROVE ForeignInv'
    OBVIOUS
  <2>1. NoCommits' /\ log' = log
    <3>1. CASE Next
      BY <3>1, LogNeverWritten DEF ForeignInv
    <3>2. CASE UNCHANGED vars
      BY <3>2 DEF ForeignInv, NoCommits, vars, disk
    <3> QED BY <3>1, <3>2
  <2>2. ASSUME NEW d \in Written, d.log = log' PROVE Recovering(d)' /\ OnePerBlock'
    <3>1. d.log = log /\ NoCommits /\ Recovering(d) /\ OnePerBlock
      BY <2>1, <2>2 DEF ForeignInv
    <3> QED BY <3>1, RecoveringStep, OnePerBlockStep
  <2> QED BY <2>1, <2>2 DEF ForeignInv
<1> QED BY <1>1, <1>2, PTL DEF ForeignSpec

(* A mount that has its journal shows what the log meant when the volume   *)
(* was first seen, for every log that is not damaged: the last copy of     *)
(* every block whose transaction has its commit block and that no later    *)
(* record revoked (ext4_journal_replay, replay_lookup); whatever replays   *)
(* were cut short before it, and whatever mounts without the journal came  *)
(* between.                                                                *)
THEOREM RecoveredReads ==
  ASSUME Txns = {}
  PROVE  ForeignSpec => []ReadsSeeRecovered
<1>1. ForeignInv => ReadsSeeRecovered
  <2> SUFFICES ASSUME ForeignInv, pc = "idle", NEW d \in Written, d.log = log
               PROVE  [b \in FsBlock |-> Mask(ReadView(b))] = MeaningOf[d]
    BY DEF ReadsSeeRecovered
  <2>1. ReadsMean(d)
    BY DEF ForeignInv, Recovering
  <2>2. MeaningOf[d] = Meaning(d)
    BY DEF MeaningOf
  <2>3. Meaning(d) = [b \in FsBlock |-> Meaning(d)[b]]
    BY DEF Meaning
  <2> QED BY <2>1, <2>2, <2>3 DEF ReadsMean
<1>2. ForeignSpec => []ForeignInv
  BY ForeignInvariant
<1> QED BY <1>1, <1>2, PTL

(* A mount whose ext4_journal_init failed shows of every block what was in *)
(* its place before, or a copy that the log committed and did not revoke,  *)
(* or a torn write of one, where an earlier replay was cut short; and once *)
(* the log was cleaned, what it meant.                                     *)
THEOREM BareReads ==
  ASSUME Txns = {}
  PROVE  ForeignSpec => []BareReadsExplained
<1>1. ForeignInv => BareReadsExplained
  <2> SUFFICES ASSUME ForeignInv, pc = "bare", NEW d \in Written, d.log = log, NEW b \in FsBlock
               PROVE  Mask(ReadView(b)) \in
                        IF jStart = 0 THEN {MeaningOf[d][b]} ELSE InPlaceOf[d][b]
    BY DEF BareReadsExplained
  <2>1. OnDisk(d) /\ ~active
    BY DEF ForeignInv, Recovering
  <2>2. ReadView(b) = home[b]
    BY <2>1 DEF ReadView
  <2>3. MeaningOf[d] = Meaning(d) /\ InPlaceOf[d] = InPlace(d)
    BY DEF MeaningOf, InPlaceOf
  <2> QED BY <2>1, <2>2, <2>3 DEF OnDisk, HomeMeans
<1>2. ForeignSpec => []ForeignInv
  BY ForeignInvariant
<1> QED BY <1>1, <1>2, PTL

(* No log that is not damaged is refused by a step of the driver's own,    *)
(* but for the capacity of the revoke table and that of the map of a       *)
(* read-only mount: not for its sequence numbers, its checksums, or the    *)
(* number of its blocks (walk_log, iterate_descriptor_tags).               *)
THEOREM RefusalsAreLimits ==
  ASSUME Txns = {}, IsFiniteSet(FsBlock)
  PROVE  ForeignSpec => RefusesOnlyBeyondLimits
<1>1. ASSUME ForeignInv, Driver, pc' = "refused", NEW d \in Written, d.log = log
      PROVE  BeyondLimits(d)
  <2>1. NoCommits /\ Recovering(d) /\ OnePerBlock
    BY <1>1 DEF ForeignInv
  <2>2. CASE Walk
    BY <1>1, <2>1, <2>2, WalkRefusal
  <2>3. CASE TagNext
    BY <1>1, <2>1, <2>3, TagRefusal
  <2>4. ~Checkpoint
    BY <1>1 DEF Checkpoint, CkptFlush, CkptJsb, CkptSb
  <2>5. ~Commit
    BY <2>1 DEF Commit, CommitSetRecover, CommitDescriptor, CommitData, CommitBlockWrite,
                CommitJsb, NoCommits, PC, CommitPC
  <2> QED BY <1>1, <2>2, <2>3, <2>4, <2>5 DEF Driver
<1>2. ForeignInv /\ [Next]_vars =>
        [Driver /\ pc' = "refused" => \A d \in Written : d.log = log => BeyondLimits(d)]_vars
  BY <1>1
<1> QED BY <1>2, ForeignInvariant, PTL DEF ForeignSpec, RefusesOnlyBeyondLimits
==============================================================================
