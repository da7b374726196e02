---------------------------- MODULE FsImageProofs ----------------------------
(***************************************************************************)
(* What the operators of FsImage compute, for every geometry: where a      *)
(* block or an inode is, which one an allocation finds, what each          *)
(* transaction leaves behind, what inodes and extent lists hold; and what  *)
(* it does to the tree of names.                                           *)
(***************************************************************************)
EXTENDS FileOpsInv, OverlayProofs, FiniteSetTheorems

(***************************************************************************)
(* Numbers.                                                                *)
(***************************************************************************)
(* A division by a positive number.                                        *)
LEMMA Division ==
  ASSUME NEW n \in Nat \ {0}, NEW x \in Nat
  PROVE  /\ x \div n \in Nat
         /\ (x \div n) * n <= x
         /\ x < (x \div n) * n + n
  BY SMTT(30)

(* Its quotient is the only one.                                           *)
LEMMA DivisionIs ==
  ASSUME NEW n \in Nat \ {0}, NEW x \in Nat, NEW q \in Nat, q * n <= x, x < q * n + n
  PROVE  x \div n = q
  BY SMTT(30)

(* Whole groups lie one behind the other.                                  *)
LEMMA GroupsApart ==
  ASSUME NEW n \in Nat \ {0}, NEW q \in Nat, NEW r \in Nat, q < r
  PROVE  q * n + n <= r * n
  BY SMTT(30)

(* The numbers 1 .. m * n fall into m groups of n, each into one.          *)
LEMMA Grouping ==
  ASSUME NEW m \in Nat \ {0}, NEW n \in Nat \ {0}, NEW x \in Int
  PROVE  /\ x \in 1 .. m * n =>
              /\ (x - 1) \div n + 1 \in 1 .. m
              /\ x \in ((x - 1) \div n + 1 - 1) * n + 1 .. ((x - 1) \div n + 1) * n
         /\ \A g \in 1 .. m : x \in (g - 1) * n + 1 .. g * n =>
              x \in 1 .. m * n /\ (x - 1) \div n + 1 = g
<1>1. ASSUME x \in 1 .. m * n
      PROVE  /\ (x - 1) \div n + 1 \in 1 .. m
             /\ x \in ((x - 1) \div n + 1 - 1) * n + 1 .. ((x - 1) \div n + 1) * n
  <2> DEFINE q == (x - 1) \div n
  <2>0. m * n \in Nat
    BY SMTT(30)
  <2>1. x - 1 \in Nat /\ x - 1 < m * n
    BY <1>1, <2>0
  <2>2. q \in Nat /\ q * n <= x - 1 /\ x - 1 < q * n + n
    BY <2>1, Division
  <2> HIDE DEF q
  <2>3. q < m
    <3>1. SUFFICES ASSUME m <= q PROVE FALSE
      BY <2>2
    <3>2. m * n <= q * n
      <4>1. CASE m = q
        BY <4>1, <2>0
      <4>2. CASE m < q
        <5>1. m * n + n <= q * n
          BY <4>2, <2>2, GroupsApart
        <5>2. q * n \in Nat
          BY <2>2, SMTT(30)
        <5> QED BY <5>1, <5>2, <2>0
      <4> QED BY <3>1, <4>1, <4>2, <2>2
    <3>3. q * n \in Nat
      BY <2>2, SMTT(30)
    <3> QED BY <3>2, <3>3, <2>0, <2>1, <2>2
  <2>4. (q + 1) * n = q * n + n /\ q * n \in Nat
    BY <2>2, SMTT(30)
  <2>5. q + 1 - 1 = q
    BY <2>2
  <2>6. q + 1 \in 1 .. m
    BY <2>2, <2>3
  <2>7. x \in (q + 1 - 1) * n + 1 .. (q + 1) * n
    BY <2>1, <2>2, <2>4, <2>5
  <2> QED BY <2>6, <2>7 DEF q
<1>2. ASSUME NEW g \in 1 .. m, x \in (g - 1) * n + 1 .. g * n
      PROVE  x \in 1 .. m * n /\ (x - 1) \div n + 1 = g
  <2> DEFINE q == g - 1
  <2>1. q \in Nat /\ g = q + 1 /\ q < m
    OBVIOUS
  <2>2. g * n = q * n + n /\ q * n \in Nat /\ m * n \in Nat
    BY <2>1, SMTT(30)
  <2>3. q * n + n <= m * n
    BY <2>1, GroupsApart
  <2> HIDE DEF q
  <2>4. x \in q * n + 1 .. g * n
    BY <1>2 DEF q
  <2>5. x - 1 \in Nat /\ q * n <= x - 1 /\ x - 1 < q * n + n
    BY <2>2, <2>4
  <2>6. (x - 1) \div n = q
    BY <2>1, <2>5, DivisionIs
  <2> QED BY <2>1, <2>2, <2>3, <2>4, <2>6
<1> QED BY <1>1, <1>2

(* The least of some numbers.                                              *)
LEMMA MinIs ==
  ASSUME NEW S \in SUBSET Nat, S # {}
  PROVE  Min(S) \in S /\ \A x \in S : Min(S) <= x
<1>1. \E n \in S : \A m \in S : n <= m
  BY LeastExists
<1> QED BY <1>1 DEF Min

(***************************************************************************)
(* Lists of writes.                                                        *)
(***************************************************************************)
(* What a list applied after another leaves is what the two leave as one.  *)
LEMMA OverlayConcat ==
  ASSUME NEW W, NEW us \in Seq(W), NEW ws \in Seq(W), NEW s
  PROVE  Overlay(s, us \o ws) = Overlay(Overlay(s, us), ws)
<1> DEFINE n == Len(us)
           m == Len(ws)
           vs == us \o ws
<1>1. /\ n \in Nat /\ m \in Nat /\ n + m \in Nat
      /\ DOMAIN us = 1 .. n /\ DOMAIN ws = 1 .. m /\ DOMAIN vs = 1 .. n + m
      /\ \A k \in 1 .. n : vs[k] = us[k]
      /\ \A k \in 1 .. m : n + k \in 1 .. n + m /\ n + k > n /\ vs[n + k] = ws[k]
  OBVIOUS
<1>2. \A k \in 1 .. n + m : k \in 1 .. n \/ (k - n \in 1 .. m /\ vs[k] = ws[k - n] /\ n + (k - n) = k)
  OBVIOUS
<1> HIDE DEF n, m, vs
<1> DEFINE v == Overlay(s, vs)
           u == Overlay(s, us)
           t == Overlay(u, ws)
<1>3. DOMAIN v = DOMAIN s /\ DOMAIN u = DOMAIN s /\ DOMAIN t = DOMAIN s
  BY DEF Overlay
<1>4. ASSUME NEW b \in DOMAIN s
      PROVE  v[b] = t[b]
  <2>1. CASE Writes(ws, b)
    <3>1. PICK k \in 1 .. m : LastWrite(ws, b, k)
      BY <1>1, <2>1, LastWriteExists
    <3>2. LastWrite(vs, b, n + k)
      <4>1. ASSUME NEW j \in 1 .. n + m, j > n + k PROVE vs[j].blk # b
        <5>1. j - n \in 1 .. m /\ vs[j] = ws[j - n] /\ j - n > k
          BY <1>1, <1>2, <4>1
        <5> QED BY <3>1, <1>1, <5>1 DEF LastWrite
      <4> QED BY <3>1, <4>1, <1>1 DEF LastWrite
    <3>3. t[b] = ws[k].val
      BY <1>1, <1>3, <3>1, OverlayShows
    <3>4. v[b] = vs[n + k].val
      BY <1>1, <3>2, OverlayShows
    <3> QED BY <1>1, <3>3, <3>4
  <2>2. CASE ~Writes(ws, b) /\ Writes(us, b)
    <3>1. PICK k \in 1 .. n : LastWrite(us, b, k)
      BY <1>1, <2>2, LastWriteExists
    <3>2. LastWrite(vs, b, k) /\ k \in 1 .. n + m
      <4>1. ASSUME NEW j \in 1 .. n + m, j > k PROVE vs[j].blk # b
        <5>1. CASE j \in 1 .. n
          BY <3>1, <1>1, <4>1, <5>1 DEF LastWrite
        <5>2. CASE j - n \in 1 .. m /\ vs[j] = ws[j - n]
          BY <2>2, <1>1, <5>2 DEF Writes
        <5> QED BY <1>2, <5>1, <5>2
      <4>2. k \in 1 .. n + m /\ vs[k] = us[k] /\ us[k].blk = b
        BY <3>1, <1>1 DEF LastWrite
      <4> QED BY <4>1, <4>2, <1>1 DEF LastWrite
    <3>3. t[b] = u[b] /\ u[b] = us[k].val
      BY <1>1, <1>3, <2>2, <3>1, OverlayShows
    <3>4. v[b] = vs[k].val
      BY <1>1, <3>2, OverlayShows
    <3> QED BY <1>1, <3>3, <3>4
  <2>3. CASE ~Writes(ws, b) /\ ~Writes(us, b)
    <3>1. ~Writes(vs, b)
      BY <2>3, <1>1, <1>2 DEF Writes
    <3>2. t[b] = u[b] /\ u[b] = s[b]
      BY <1>1, <1>3, <2>3, OverlayShows
    <3>3. v[b] = s[b]
      BY <1>1, <3>1, OverlayShows
    <3> QED BY <3>2, <3>3
  <2> QED BY <2>1, <2>2, <2>3
<1>5. v = [b \in DOMAIN s |-> v[b]] /\ t = [b \in DOMAIN s |-> t[b]]
  BY DEF Overlay
<1> HIDE DEF v, t
<1>6. v = t
  BY <1>4, <1>5
<1> QED BY <1>6 DEF v, t, u, vs

(* One write.                                                              *)
LEMMA OverlayOne ==
  ASSUME NEW s, NEW w
  PROVE  Overlay(s, << w >>) = [b \in DOMAIN s |-> IF b = w.blk THEN w.val ELSE s[b]]
<1> DEFINE ws == << w >>
<1>1. DOMAIN ws = 1 .. 1 /\ ws[1] = w
  OBVIOUS
<1> HIDE DEF ws
<1>2. \A b : Writes(ws, b) <=> b = w.blk
  BY <1>1 DEF Writes
<1>3. \A b : b = w.blk => \A k \in DOMAIN ws : LastWrite(ws, b, k) <=> k = 1
  BY <1>1 DEF LastWrite
<1>4. \A b : b = w.blk => ws[CHOOSE k \in DOMAIN ws : LastWrite(ws, b, k)] = w
  BY <1>1, <1>3
<1>5. Overlay(s, ws) = [b \in DOMAIN s |-> IF b = w.blk THEN w.val ELSE s[b]]
  BY <1>2, <1>4 DEF Overlay
<1> QED BY <1>5 DEF ws

(* Two writes.                                                             *)
LEMMA OverlayTwo ==
  ASSUME NEW s, NEW w1, NEW w2
  PROVE  Overlay(s, << w1, w2 >>) =
           [b \in DOMAIN s |-> IF b = w2.blk THEN w2.val
                               ELSE IF b = w1.blk THEN w1.val ELSE s[b]]
<1> DEFINE ws == << w1, w2 >>
<1>1. DOMAIN ws = {1, 2} /\ ws[1] = w1 /\ ws[2] = w2
  OBVIOUS
<1> HIDE DEF ws
<1>2. \A b : Writes(ws, b) <=> b = w1.blk \/ b = w2.blk
  BY <1>1 DEF Writes
<1>3. /\ \A b : \A k \in DOMAIN ws : b = w2.blk => (LastWrite(ws, b, k) <=> k = 2)
      /\ \A b : \A k \in DOMAIN ws :
           b = w1.blk /\ b # w2.blk => (LastWrite(ws, b, k) <=> k = 1)
  BY <1>1 DEF LastWrite
<1>4. /\ \A b : b = w2.blk => ws[CHOOSE k \in DOMAIN ws : LastWrite(ws, b, k)] = w2
      /\ \A b : b = w1.blk /\ b # w2.blk =>
           ws[CHOOSE k \in DOMAIN ws : LastWrite(ws, b, k)] = w1
  BY <1>1, <1>3
<1>5. Overlay(s, ws) = [b \in DOMAIN s |-> IF b = w2.blk THEN w2.val
                               ELSE IF b = w1.blk THEN w1.val ELSE s[b]]
  BY <1>2, <1>4 DEF Overlay
<1> QED BY <1>5 DEF ws

(* Three writes.                                                           *)
LEMMA OverlayThree ==
  ASSUME NEW s, NEW w1, NEW w2, NEW w3
  PROVE  Overlay(s, << w1, w2, w3 >>) =
           [b \in DOMAIN s |-> IF b = w3.blk THEN w3.val ELSE IF b = w2.blk THEN w2.val
                               ELSE IF b = w1.blk THEN w1.val ELSE s[b]]
<1> DEFINE ws == << w1, w2, w3 >>
<1>1. DOMAIN ws = {1, 2, 3} /\ ws[1] = w1 /\ ws[2] = w2 /\ ws[3] = w3
  OBVIOUS
<1> HIDE DEF ws
<1>2. \A b : Writes(ws, b) <=> b = w1.blk \/ b = w2.blk \/ b = w3.blk
  BY <1>1 DEF Writes
<1>3. /\ \A b : \A k \in DOMAIN ws : b = w3.blk => (LastWrite(ws, b, k) <=> k = 3)
      /\ \A b : \A k \in DOMAIN ws :
           b = w2.blk /\ b # w3.blk => (LastWrite(ws, b, k) <=> k = 2)
      /\ \A b : \A k \in DOMAIN ws :
           b = w1.blk /\ b # w2.blk /\ b # w3.blk => (LastWrite(ws, b, k) <=> k = 1)
  BY <1>1 DEF LastWrite
<1>4. /\ \A b : b = w3.blk => ws[CHOOSE k \in DOMAIN ws : LastWrite(ws, b, k)] = w3
      /\ \A b : b = w2.blk /\ b # w3.blk =>
           ws[CHOOSE k \in DOMAIN ws : LastWrite(ws, b, k)] = w2
      /\ \A b : b = w1.blk /\ b # w2.blk /\ b # w3.blk =>
           ws[CHOOSE k \in DOMAIN ws : LastWrite(ws, b, k)] = w1
  BY <1>1, <1>3
<1>5. Overlay(s, ws) =
        [b \in DOMAIN s |-> IF b = w3.blk THEN w3.val ELSE IF b = w2.blk THEN w2.val
                            ELSE IF b = w1.blk THEN w1.val ELSE s[b]]
  BY <1>2, <1>4 DEF Overlay
<1> QED BY <1>5 DEF ws

(***************************************************************************)
(* Groups and their maps.                                                  *)
(***************************************************************************)
(* The sizes of a volume.                                                  *)
LEMMA Geometry ==
  /\ NumGroups \in Nat \ {0} /\ InosPerGroup \in Nat \ {0} /\ BlksPerGroup \in Nat \ {0}
  /\ InosPerBlock \in Nat \ {0} /\ Unit \in Nat \ {0} /\ MaxExt \in Nat \ {0}
  /\ LenBit \in Nat \ {0, 1} /\ DirSlots \in Nat /\ DirSlots > 2
<1>1. {NumGroups, InosPerGroup, BlksPerGroup, InosPerBlock, Unit, MaxExt, LenBit} \subseteq Nat \ {0}
  BY ImageAssumption
<1>2. DirSlots \in Nat \ 0 .. 2 /\ LenBit > 1
  BY ImageAssumption
<1> QED BY <1>1, <1>2

(* Every data block is in one group.                                       *)
LEMMA BlkPlaced ==
  /\ \A b \in Blk : BlkGroup(b) \in Group /\ b \in BlksOf(BlkGroup(b))
  /\ \A g \in Group : \A b \in BlksOf(g) : b \in Blk /\ BlkGroup(b) = g
  BY Geometry, Grouping DEF Blk, Group, BlksOf, BlkGroup

(* Every inode is in one group.                                            *)
LEMMA InoPlaced ==
  /\ \A i \in Ino : InoGroup(i) \in Group /\ i \in InosOf(InoGroup(i))
  /\ \A g \in Group : \A i \in InosOf(g) : i \in Ino /\ InoGroup(i) = g
  BY Geometry, Grouping DEF Ino, Group, InosOf, InoGroup

(* Blocks and inodes are finitely many.                                    *)
LEMMA Finite ==
  /\ IsFiniteSet(Blk) /\ IsFiniteSet(Ino)
  /\ \A g \in Group : IsFiniteSet(BlksOf(g)) /\ IsFiniteSet(InosOf(g))
<1>1. NumGroups * InosPerGroup \in Int /\ NumGroups * BlksPerGroup \in Int
  BY Geometry, SMTT(30)
<1>2. \A g \in Group : /\ g * InosPerGroup \in Int /\ g * BlksPerGroup \in Int
                       /\ (g - 1) * InosPerGroup + 1 \in Int /\ (g - 1) * BlksPerGroup + 1 \in Int
  BY Geometry, SMTT(30) DEF Group
<1> QED BY <1>1, <1>2, FS_Interval DEF Blk, Ino, BlksOf, InosOf

(* A group's map, on disk or made up, is of the group's own.               *)
LEMMA Bits ==
  ASSUME NEW s, Maps(s)
  PROVE  /\ \A g \in Group : BlkBits(s, g) \subseteq BlksOf(g) /\ InoBits(s, g) \subseteq InosOf(g)
         /\ Taken(s) \subseteq Blk /\ InUse(s) \subseteq Ino
         /\ \A b \in Blk : b \in Taken(s) <=> b \in BlkBits(s, BlkGroup(b))
         /\ \A i \in Ino : i \in InUse(s) <=> i \in InoBits(s, InoGroup(i))
<1>1. \A g \in Group : BlkBits(s, g) \subseteq BlksOf(g) /\ InoBits(s, g) \subseteq InosOf(g)
  BY DEF Maps, BlkBits, InoBits
<1>2. /\ \A b : b \in Taken(s) <=> \E g \in Group : b \in BlkBits(s, g)
      /\ \A i : i \in InUse(s) <=> \E g \in Group : i \in InoBits(s, g)
  BY DEF Taken, InUse
<1> QED BY <1>1, <1>2, BlkPlaced, InoPlaced

(* What is of use to know of a map and its counter when one is put in.     *)
LEMMA OneFewer ==
  ASSUME NEW A, IsFiniteSet(A), NEW B \in SUBSET A, NEW x \in A \ B
  PROVE  /\ Cardinality(A \ B) \in Nat
         /\ Cardinality(A \ B) > 0
         /\ Cardinality(A \ (B \cup {x})) = Cardinality(A \ B) - 1
<1>1. A \ (B \cup {x}) = (A \ B) \ {x}
  OBVIOUS
<1>2. IsFiniteSet(A \ B)
  BY FS_Difference
<1>3. IsFiniteSet((A \ B) \ {x}) /\ Cardinality((A \ B) \ {x}) = Cardinality(A \ B) - 1
  BY <1>2, FS_RemoveElement
<1>4. Cardinality(A \ B) \in Nat /\ Cardinality((A \ B) \ {x}) \in Nat
  BY <1>2, <1>3, FS_CardinalityType
<1> QED BY <1>1, <1>3, <1>4

(* And when one is taken out.                                              *)
LEMMA OneMore ==
  ASSUME NEW A, IsFiniteSet(A), NEW B \in SUBSET A, NEW x \in B
  PROVE  /\ Cardinality(A \ B) \in Nat
         /\ Cardinality(A \ (B \ {x})) = Cardinality(A \ B) + 1
<1>1. A \ (B \ {x}) = (A \ B) \cup {x}
  OBVIOUS
<1>2. IsFiniteSet(A \ B)
  BY FS_Difference
<1> QED BY <1>1, <1>2, FS_AddElement, FS_CardinalityType

(***************************************************************************)
(* What taking and freeing do to the maps.                                 *)
(***************************************************************************)
SameMaps(s, t) ==
  /\ t[Sb] = s[Sb] /\ t[Bgd] = s[Bgd]
  /\ \A g \in Group : t[BlkMap(g)] = s[BlkMap(g)] /\ t[InoMap(g)] = s[InoMap(g)]

TookBlk(s, t, b) ==
  LET h == BlkGroup(b) IN
  /\ t[Sb] = [s[Sb] EXCEPT !.fb = @ - 1]
  /\ t[Bgd] = [s[Bgd] EXCEPT ![h].fb = @ - 1, ![h].uninit = @ \ {"blocks"}]
  /\ \A g \in Group : /\ t[BlkMap(g)] = IF g = h THEN BlkBits(s, h) \cup {b} ELSE s[BlkMap(g)]
                      /\ t[InoMap(g)] = s[InoMap(g)]

FreedBlk(s, t, b) ==
  LET h == BlkGroup(b) IN
  /\ t[Sb] = [s[Sb] EXCEPT !.fb = @ + 1]
  /\ t[Bgd] = [s[Bgd] EXCEPT ![h].fb = @ + 1]
  /\ \A g \in Group : /\ t[BlkMap(g)] = IF g = h THEN s[BlkMap(h)] \ {b} ELSE s[BlkMap(g)]
                      /\ t[InoMap(g)] = s[InoMap(g)]

TookIno(s, t, i, d) ==
  LET h == InoGroup(i) IN
  /\ t[Sb] = [s[Sb] EXCEPT !.fi = @ - 1]
  /\ t[Bgd] = [s[Bgd] EXCEPT ![h].fi = @ - 1, ![h].dirs = @ + d,
                             ![h].uninit = @ \ {"inodes"}, ![h].unused = UnusedPast(i, @)]
  /\ \A g \in Group : /\ t[BlkMap(g)] = s[BlkMap(g)]
                      /\ t[InoMap(g)] = IF g = h THEN InoBits(s, h) \cup {i} ELSE s[InoMap(g)]

FreedIno(s, t, i, d) ==
  LET h == InoGroup(i) IN
  /\ t[Sb] = [s[Sb] EXCEPT !.fi = @ + 1]
  /\ t[Bgd] = [s[Bgd] EXCEPT ![h].fi = @ + 1, ![h].dirs = IF @ > 0 THEN @ - d ELSE @]
  /\ \A g \in Group : /\ t[BlkMap(g)] = s[BlkMap(g)]
                      /\ t[InoMap(g)] = IF g = h THEN s[InoMap(h)] \ {i} ELSE s[InoMap(g)]

(* Equal maps count the same.                                              *)
LEMMA SameMapsCount ==
  ASSUME NEW s, NEW t, Maps(s), Counting(s), SameMaps(s, t)
  PROVE  Maps(t) /\ Counting(t) /\ Taken(t) = Taken(s) /\ InUse(t) = InUse(s)
<1>1. \A g \in Group : BlkBits(t, g) = BlkBits(s, g) /\ InoBits(t, g) = InoBits(s, g)
  BY DEF SameMaps, BlkBits, InoBits
<1>2. Taken(t) = Taken(s) /\ InUse(t) = InUse(s)
  BY <1>1 DEF Taken, InUse
<1>3. Maps(t)
  BY DEF SameMaps, Maps
<1>4. Counting(t)
  BY <1>1, <1>2 DEF SameMaps, Counting, FreeBlks, FreeInos
<1> QED BY <1>2, <1>3, <1>4

(* A block that was free is taken, and counted once, also in a group whose *)
(* map was made up.                                                        *)
LEMMA TookBlkCounts ==
  ASSUME NEW s, NEW t, Maps(s), Counting(s), NEW b \in Blk \ Taken(s), TookBlk(s, t, b)
  PROVE  Maps(t) /\ Counting(t) /\ Taken(t) = Taken(s) \cup {b} /\ InUse(t) = InUse(s)
<1> DEFINE h == BlkGroup(b)
<1>1. h \in Group /\ b \in BlksOf(h) /\ b \notin BlkBits(s, h)
  BY BlkPlaced, Bits
<1> HIDE DEF h
<1>2. /\ s[Bgd] \in [Group -> Descriptor] /\ s[Sb] \in [fb : Nat, fi : Nat]
      /\ t[Sb] = [s[Sb] EXCEPT !.fb = @ - 1]
      /\ t[Bgd] = [s[Bgd] EXCEPT ![h].fb = @ - 1, ![h].uninit = @ \ {"blocks"}]
      /\ \A g \in Group : /\ t[BlkMap(g)] = IF g = h THEN BlkBits(s, h) \cup {b} ELSE s[BlkMap(g)]
                          /\ t[InoMap(g)] = s[InoMap(g)]
  BY DEF h, TookBlk, Maps
<1>3. /\ t[Bgd] = [g \in Group |->
                     IF g = h THEN [s[Bgd][h] EXCEPT !.fb = @ - 1, !.uninit = @ \ {"blocks"}]
                     ELSE s[Bgd][g]]
      /\ \A g \in Group \ {h} : t[Bgd][g] = s[Bgd][g]
  BY <1>1, <1>2
<1>4. /\ t[Bgd][h].fb = s[Bgd][h].fb - 1 /\ t[Bgd][h].fi = s[Bgd][h].fi
      /\ t[Bgd][h].unused = s[Bgd][h].unused
      /\ t[Bgd][h].uninit = s[Bgd][h].uninit \ {"blocks"}
  <2>1. s[Bgd][h] \in Descriptor
    BY <1>1, <1>2
  <2>2. t[Bgd][h] = [s[Bgd][h] EXCEPT !.fb = @ - 1, !.uninit = @ \ {"blocks"}]
    BY <1>1, <1>3
  <2> QED BY <2>1, <2>2 DEF Descriptor
<1>5. \A g \in Group : InoBits(t, g) = InoBits(s, g)
  BY <1>2, <1>3, <1>4 DEF InoBits
<1>6. \A g \in Group : BlkBits(t, g) = IF g = h THEN BlkBits(s, h) \cup {b} ELSE BlkBits(s, g)
  BY <1>2, <1>3, <1>4 DEF BlkBits
<1>7. InUse(t) = InUse(s) /\ Taken(t) = Taken(s) \cup {b}
  <2>1. \A x : x \in Taken(t) <=> \E g \in Group : x \in BlkBits(t, g)
    BY DEF Taken
  <2>2. \A x : x \in Taken(s) <=> \E g \in Group : x \in BlkBits(s, g)
    BY DEF Taken
  <2>3. Taken(t) = Taken(s) \cup {b}
    BY <1>1, <1>6, <2>1, <2>2
  <2> QED BY <1>5, <2>3 DEF InUse
<1>8. /\ s[Bgd][h].fb = Cardinality(FreeBlks(s, h)) /\ s[Sb].fb = Cardinality(Blk \ Taken(s))
      /\ Taken(s) \subseteq Blk /\ BlkBits(s, h) \subseteq BlksOf(h)
  BY <1>1, Bits DEF Counting
<1>9. /\ Cardinality(FreeBlks(s, h)) \in Nat /\ Cardinality(FreeBlks(s, h)) > 0
      /\ Cardinality(FreeBlks(t, h)) = Cardinality(FreeBlks(s, h)) - 1
  <2>1. IsFiniteSet(BlksOf(h))
    BY <1>1, Finite
  <2>2. BlkBits(s, h) \in SUBSET BlksOf(h) /\ b \in BlksOf(h) \ BlkBits(s, h)
    BY <1>1, <1>8 DEF FreeBlks
  <2>3. /\ FreeBlks(s, h) = BlksOf(h) \ BlkBits(s, h)
        /\ FreeBlks(t, h) = BlksOf(h) \ (BlkBits(s, h) \cup {b})
    BY <1>1, <1>6 DEF FreeBlks
  <2> QED BY <2>1, <2>2, <2>3, OneFewer
<1>10. /\ Cardinality(Blk \ Taken(s)) \in Nat /\ Cardinality(Blk \ Taken(s)) > 0
       /\ Cardinality(Blk \ Taken(t)) = Cardinality(Blk \ Taken(s)) - 1
  BY <1>7, <1>8, Finite, OneFewer
<1>11. t[Bgd][h] \in Descriptor
  <2>1. s[Bgd][h] \in Descriptor
    BY <1>1, <1>2
  <2>2. s[Bgd][h].fb - 1 \in Nat /\ s[Bgd][h].uninit \ {"blocks"} \in SUBSET {"blocks", "inodes"}
    BY <1>8, <1>9, <2>1 DEF Descriptor
  <2>3. t[Bgd][h] = [s[Bgd][h] EXCEPT !.fb = @ - 1, !.uninit = @ \ {"blocks"}]
    BY <1>1, <1>3
  <2> QED BY <2>1, <2>2, <2>3 DEF Descriptor
<1>12. t[Sb] = [fb |-> s[Sb].fb - 1, fi |-> s[Sb].fi]
  BY <1>2
<1>13. t[Sb] \in [fb : Nat, fi : Nat] /\ t[Sb].fb = s[Sb].fb - 1 /\ t[Sb].fi = s[Sb].fi
  BY <1>2, <1>8, <1>10, <1>12
<1>14. t[Bgd] \in [Group -> Descriptor]
  <2>1. \A g \in Group : t[Bgd][g] \in Descriptor
    BY <1>2, <1>3, <1>11
  <2>2. t[Bgd] = [g \in Group |-> t[Bgd][g]]
    BY <1>3
  <2> QED BY <2>1, <2>2
<1>15. Maps(t)
  BY <1>1, <1>2, <1>8, <1>13, <1>14 DEF Maps
<1>16. \A g \in Group :
         /\ t[Bgd][g].fb = Cardinality(FreeBlks(t, g))
         /\ t[Bgd][g].fi = Cardinality(FreeInos(t, g))
         /\ \A i \in InoBits(t, g) : i <= g * InosPerGroup - t[Bgd][g].unused
  <2> TAKE g \in Group
  <2>1. CASE g = h
    BY <2>1, <1>4, <1>5, <1>8, <1>9 DEF Counting, FreeInos
  <2>2. CASE g # h
    BY <2>2, <1>3, <1>5, <1>6 DEF Counting, FreeInos, FreeBlks
  <2> QED BY <2>1, <2>2
<1>17. Counting(t)
  BY <1>7, <1>8, <1>10, <1>13, <1>16 DEF Counting
<1> QED BY <1>7, <1>15, <1>17

(* A block that was taken, and is none of the group's own, is freed, and   *)
(* counted once.                                                           *)
LEMMA FreedBlkCounts ==
  ASSUME NEW s, NEW t, Maps(s), Counting(s), NEW b \in Taken(s) \ Meta, FreedBlk(s, t, b)
  PROVE  Maps(t) /\ Counting(t) /\ Taken(t) = Taken(s) \ {b} /\ InUse(t) = InUse(s)
<1> DEFINE h == BlkGroup(b)
<1>0. b \in Blk
  BY Bits
<1>1. h \in Group /\ b \in BlksOf(h) /\ b \in BlkBits(s, h)
  BY <1>0, BlkPlaced, Bits
<1>2. /\ s[Bgd] \in [Group -> Descriptor] /\ s[Sb] \in [fb : Nat, fi : Nat]
      /\ t[Sb] = [s[Sb] EXCEPT !.fb = @ + 1]
      /\ t[Bgd] = [s[Bgd] EXCEPT ![h].fb = @ + 1]
      /\ \A g \in Group : /\ t[BlkMap(g)] = IF g = h THEN s[BlkMap(h)] \ {b} ELSE s[BlkMap(g)]
                          /\ t[InoMap(g)] = s[InoMap(g)]
  BY DEF FreedBlk, Maps
<1>3. /\ t[Bgd] = [g \in Group |-> IF g = h THEN [s[Bgd][h] EXCEPT !.fb = @ + 1] ELSE s[Bgd][g]]
      /\ \A g \in Group \ {h} : t[Bgd][g] = s[Bgd][g]
  BY <1>1, <1>2
<1>4. /\ t[Bgd][h].fb = s[Bgd][h].fb + 1 /\ t[Bgd][h].fi = s[Bgd][h].fi
      /\ t[Bgd][h].unused = s[Bgd][h].unused /\ t[Bgd][h].uninit = s[Bgd][h].uninit
      /\ t[Bgd][h] \in Descriptor
  <2>1. s[Bgd][h] \in Descriptor
    BY <1>1, <1>2
  <2>2. t[Bgd][h] = [s[Bgd][h] EXCEPT !.fb = @ + 1]
    BY <1>1, <1>3
  <2> QED BY <2>1, <2>2 DEF Descriptor
<1> HIDE DEF h
<1>5. \A g \in Group : InoBits(t, g) = InoBits(s, g)
  BY <1>2, <1>3, <1>4 DEF InoBits
<1>6. \A g \in Group : BlkBits(t, g) = IF g = h THEN BlkBits(s, h) \ {b} ELSE BlkBits(s, g)
  <2>1. "blocks" \notin s[Bgd][h].uninit
    BY <1>1 DEF BlkBits
  <2> QED BY <1>2, <1>3, <1>4, <2>1 DEF BlkBits
<1>7. InUse(t) = InUse(s) /\ Taken(t) = Taken(s) \ {b}
  <2>1. \A x : x \in Taken(t) <=> \E g \in Group : x \in BlkBits(t, g)
    BY DEF Taken
  <2>2. \A x : x \in Taken(s) <=> \E g \in Group : x \in BlkBits(s, g)
    BY DEF Taken
  <2>3. \A g \in Group : b \in BlkBits(s, g) => g = h
    BY BlkPlaced, Bits DEF h
  <2>4. Taken(t) = Taken(s) \ {b}
    BY <1>1, <1>6, <2>1, <2>2, <2>3
  <2> QED BY <1>5, <2>4 DEF InUse
<1>8. /\ s[Bgd][h].fb = Cardinality(FreeBlks(s, h)) /\ s[Sb].fb = Cardinality(Blk \ Taken(s))
      /\ Taken(s) \subseteq Blk /\ BlkBits(s, h) \subseteq BlksOf(h)
  BY <1>1, Bits DEF Counting
<1>9. Cardinality(FreeBlks(t, h)) = Cardinality(FreeBlks(s, h)) + 1
  BY <1>1, <1>6, <1>8, Finite, OneMore DEF FreeBlks
<1>10. Cardinality(Blk \ Taken(t)) = Cardinality(Blk \ Taken(s)) + 1
  BY <1>7, <1>8, Finite, OneMore
<1>12. t[Sb] = [fb |-> s[Sb].fb + 1, fi |-> s[Sb].fi]
  BY <1>2
<1>13. t[Sb] \in [fb : Nat, fi : Nat] /\ t[Sb].fb = s[Sb].fb + 1 /\ t[Sb].fi = s[Sb].fi
  BY <1>2, <1>12
<1>14. t[Bgd] \in [Group -> Descriptor]
  BY <1>2, <1>3, <1>4
<1>15. Maps(t)
  BY <1>2, <1>13, <1>14 DEF Maps
<1>16. \A g \in Group :
         /\ t[Bgd][g].fb = Cardinality(FreeBlks(t, g))
         /\ t[Bgd][g].fi = Cardinality(FreeInos(t, g))
         /\ \A i \in InoBits(t, g) : i <= g * InosPerGroup - t[Bgd][g].unused
  <2> TAKE g \in Group
  <2>1. CASE g = h
    BY <2>1, <1>4, <1>5, <1>8, <1>9 DEF Counting, FreeInos
  <2>2. CASE g # h
    BY <2>2, <1>3, <1>5, <1>6 DEF Counting, FreeInos, FreeBlks
  <2> QED BY <2>1, <2>2
<1>17. Counting(t)
  BY <1>7, <1>8, <1>10, <1>13, <1>16 DEF Counting
<1> QED BY <1>7, <1>15, <1>17

(* The never used end of a table gives way to the inode taken.             *)
LEMMA UnusedGivesWay ==
  ASSUME NEW i \in Ino, NEW n \in 0 .. InosPerGroup
  PROVE  /\ UnusedPast(i, n) \in 0 .. InosPerGroup
         /\ UnusedPast(i, n) <= n
         /\ i <= InoGroup(i) * InosPerGroup - UnusedPast(i, n)
<1>1. i \in InosOf(InoGroup(i)) /\ InoGroup(i) \in Group
  BY InoPlaced
<1> DEFINE z == InoGroup(i) * InosPerGroup
<1>2. i <= z /\ z \in Int /\ i \in Int
  <2>1. (InoGroup(i) - 1) * InosPerGroup + 1 \in Int /\ z \in Int
    BY <1>1, Geometry, SMTT(30) DEF Group
  <2> QED BY <1>1, <2>1 DEF InosOf
<1> HIDE DEF z
<1>3. z - i \in Nat /\ n \in Nat /\ InosPerGroup \in Nat
  BY <1>2, Geometry
<1>4. {n, z - i} \in SUBSET Nat /\ {n, z - i} # {}
  BY <1>3
<1>5. Min({n, z - i}) \in {n, z - i} /\ Min({n, z - i}) <= n /\ Min({n, z - i}) <= z - i
  BY <1>4, MinIs
<1>6. UnusedPast(i, n) = Min({n, z - i})
  BY DEF UnusedPast, z
<1> HIDE DEF z
<1>7. UnusedPast(i, n) \in Nat /\ UnusedPast(i, n) <= n /\ UnusedPast(i, n) <= z - i
  BY <1>3, <1>5, <1>6
<1>8. i <= z - UnusedPast(i, n)
  BY <1>2, <1>7
<1> QED BY <1>3, <1>7, <1>8 DEF z

(* An inode that was free is taken, and counted once, also in a group      *)
(* whose map was made up.                                                  *)
LEMMA TookInoCounts ==
  ASSUME NEW s, NEW t, Maps(s), Counting(s), NEW i \in Ino \ InUse(s), NEW d \in {0, 1},
         TookIno(s, t, i, d)
  PROVE  Maps(t) /\ Counting(t) /\ Taken(t) = Taken(s) /\ InUse(t) = InUse(s) \cup {i}
<1> DEFINE h == InoGroup(i)
           u == UnusedPast(i, s[Bgd][h].unused)
<1>1. h \in Group /\ i \in InosOf(h) /\ i \notin InoBits(s, h)
  BY InoPlaced, Bits
<1>2. /\ s[Bgd] \in [Group -> Descriptor] /\ s[Sb] \in [fb : Nat, fi : Nat]
      /\ t[Sb] = [s[Sb] EXCEPT !.fi = @ - 1]
      /\ t[Bgd] = [s[Bgd] EXCEPT ![h].fi = @ - 1, ![h].dirs = @ + d,
                             ![h].uninit = @ \ {"inodes"}, ![h].unused = UnusedPast(i, @)]
      /\ \A g \in Group : /\ t[BlkMap(g)] = s[BlkMap(g)]
                          /\ t[InoMap(g)] = IF g = h THEN InoBits(s, h) \cup {i} ELSE s[InoMap(g)]
  BY DEF TookIno, Maps
<1>3. s[Bgd][h] \in Descriptor
  BY <1>1, <1>2
<1>3a. /\ u \in 0 .. InosPerGroup /\ u <= s[Bgd][h].unused
       /\ i <= h * InosPerGroup - u
  <2>1. s[Bgd][h].unused \in 0 .. InosPerGroup
    BY <1>3 DEF Descriptor
  <2> QED BY <2>1, UnusedGivesWay
<1>3b. /\ t[Bgd][h] = [s[Bgd][h] EXCEPT !.fi = @ - 1, !.dirs = @ + d,
                                    !.uninit = @ \ {"inodes"}, !.unused = u]
       /\ \A g \in Group \ {h} : t[Bgd][g] = s[Bgd][g]
       /\ t[Bgd] = [g \in Group |-> t[Bgd][g]]
  BY <1>1, <1>2
<1> HIDE DEF h, u
<1>4. /\ t[Bgd][h].fi = s[Bgd][h].fi - 1 /\ t[Bgd][h].fb = s[Bgd][h].fb
      /\ t[Bgd][h].unused = u
      /\ t[Bgd][h].uninit = s[Bgd][h].uninit \ {"inodes"}
  BY <1>3, <1>3b DEF Descriptor
<1>5. \A g \in Group : BlkBits(t, g) = BlkBits(s, g)
  BY <1>2, <1>3b, <1>4 DEF BlkBits
<1>6. \A g \in Group : InoBits(t, g) = IF g = h THEN InoBits(s, h) \cup {i} ELSE InoBits(s, g)
  BY <1>2, <1>3b, <1>4 DEF InoBits
<1>7. Taken(t) = Taken(s) /\ InUse(t) = InUse(s) \cup {i}
  <2>1. \A x : x \in InUse(t) <=> \E g \in Group : x \in InoBits(t, g)
    BY DEF InUse
  <2>2. \A x : x \in InUse(s) <=> \E g \in Group : x \in InoBits(s, g)
    BY DEF InUse
  <2>3. InUse(t) = InUse(s) \cup {i}
    BY <1>1, <1>6, <2>1, <2>2
  <2> QED BY <1>5, <2>3 DEF Taken
<1>8. /\ s[Bgd][h].fi = Cardinality(FreeInos(s, h)) /\ s[Sb].fi = Cardinality(Ino \ InUse(s))
      /\ InUse(s) \subseteq Ino /\ InoBits(s, h) \subseteq InosOf(h)
      /\ \A j \in InoBits(s, h) : j <= h * InosPerGroup - s[Bgd][h].unused
  BY <1>1, Bits DEF Counting
<1>9. /\ Cardinality(FreeInos(s, h)) \in Nat /\ Cardinality(FreeInos(s, h)) > 0
      /\ Cardinality(FreeInos(t, h)) = Cardinality(FreeInos(s, h)) - 1
  <2>1. IsFiniteSet(InosOf(h))
    BY <1>1, Finite
  <2>2. InoBits(s, h) \in SUBSET InosOf(h) /\ i \in InosOf(h) \ InoBits(s, h)
    BY <1>1, <1>8 DEF FreeInos
  <2>3. /\ FreeInos(s, h) = InosOf(h) \ InoBits(s, h)
        /\ FreeInos(t, h) = InosOf(h) \ (InoBits(s, h) \cup {i})
    BY <1>1, <1>6 DEF FreeInos
  <2> QED BY <2>1, <2>2, <2>3, OneFewer
<1>10. /\ Cardinality(Ino \ InUse(s)) \in Nat /\ Cardinality(Ino \ InUse(s)) > 0
       /\ Cardinality(Ino \ InUse(t)) = Cardinality(Ino \ InUse(s)) - 1
  BY <1>7, <1>8, Finite, OneFewer
<1>11. t[Bgd][h] \in Descriptor
  <2>1. /\ s[Bgd][h].fi - 1 \in Nat /\ s[Bgd][h].dirs + d \in Nat
        /\ s[Bgd][h].uninit \ {"inodes"} \in SUBSET {"blocks", "inodes"}
    BY <1>3, <1>8, <1>9 DEF Descriptor
  <2> QED BY <1>3, <1>3a, <1>3b, <2>1 DEF Descriptor
<1>12. t[Sb] = [fb |-> s[Sb].fb, fi |-> s[Sb].fi - 1]
  BY <1>2
<1>13. t[Sb] \in [fb : Nat, fi : Nat] /\ t[Sb].fb = s[Sb].fb /\ t[Sb].fi = s[Sb].fi - 1
  <2>1. s[Sb].fi - 1 \in Nat /\ s[Sb].fb \in Nat
    BY <1>2, <1>8, <1>10
  <2> QED BY <2>1, <1>12
<1>14. t[Bgd] \in [Group -> Descriptor]
  <2>1. s[Bgd] \in [Group -> Descriptor]
    BY <1>2
  <2>2. \A g \in Group : t[Bgd][g] \in Descriptor
    BY <1>3b, <1>11, <2>1
  <2>3. t[Bgd] = [g \in Group |-> t[Bgd][g]]
    BY <1>3b
  <2> QED BY <2>2, <2>3
<1>15. Maps(t)
  <2>1. \A g \in Group : t[BlkMap(g)] \subseteq BlksOf(g)
    BY <1>2 DEF Maps
  <2>2. \A g \in Group : t[InoMap(g)] \subseteq InosOf(g)
    BY <1>1, <1>2, <1>8 DEF Maps
  <2> QED BY <2>1, <2>2, <1>13, <1>14 DEF Maps
<1>16. \A g \in Group :
         /\ t[Bgd][g].fb = Cardinality(FreeBlks(t, g))
         /\ t[Bgd][g].fi = Cardinality(FreeInos(t, g))
         /\ \A j \in InoBits(t, g) : j <= g * InosPerGroup - t[Bgd][g].unused
  <2> TAKE g \in Group
  <2>1. CASE g = h
    <3>1. /\ t[Bgd][g].fb = Cardinality(FreeBlks(t, g)) /\ t[Bgd][g].fi = Cardinality(FreeInos(t, g))
      BY <2>1, <1>4, <1>5, <1>8, <1>9 DEF Counting, FreeBlks
    <3>2. h * InosPerGroup \in Int /\ s[Bgd][h].unused \in Int /\ u \in Int
      <4>1. h \in Int /\ InosPerGroup \in Int
        BY <1>1, Geometry DEF Group
      <4>2. h * InosPerGroup \in Int
        BY <4>1, SMTT(30)
      <4> QED BY <4>2, <1>3, <1>3a DEF Descriptor
    <3>3. h * InosPerGroup - s[Bgd][h].unused <= h * InosPerGroup - u
      BY <3>2, <1>3a
    <3>4. \A j \in InosOf(h) : j \in Int
      BY InoPlaced, <1>1 DEF Ino
    <3>5. ASSUME NEW j \in InoBits(t, h) PROVE j <= h * InosPerGroup - u
      <4>1. CASE j = i
        BY <4>1, <1>3a
      <4>2. CASE j \in InoBits(s, h)
        BY <4>2, <1>8, <3>2, <3>3, <3>4
      <4> QED BY <4>1, <4>2, <1>1, <1>6
    <3> QED BY <2>1, <3>1, <3>5, <1>4
  <2>2. CASE g # h
    BY <2>2, <1>3b, <1>5, <1>6 DEF Counting, FreeInos, FreeBlks
  <2> QED BY <2>1, <2>2
<1>17. Counting(t)
  BY <1>7, <1>8, <1>10, <1>13, <1>16 DEF Counting
<1> QED BY <1>7, <1>15, <1>17

(* An inode in use is freed, and counted once.                             *)
LEMMA FreedInoCounts ==
  ASSUME NEW s, NEW t, Maps(s), Counting(s), NEW i \in InUse(s), NEW d \in {0, 1},
         FreedIno(s, t, i, d)
  PROVE  Maps(t) /\ Counting(t) /\ Taken(t) = Taken(s) /\ InUse(t) = InUse(s) \ {i}
<1> DEFINE h == InoGroup(i)
<1>0. i \in Ino
  BY Bits
<1>1. h \in Group /\ i \in InosOf(h) /\ i \in InoBits(s, h)
  BY <1>0, InoPlaced, Bits
<1>2. /\ s[Bgd] \in [Group -> Descriptor] /\ s[Sb] \in [fb : Nat, fi : Nat]
      /\ t[Sb] = [s[Sb] EXCEPT !.fi = @ + 1]
      /\ t[Bgd] = [s[Bgd] EXCEPT ![h].fi = @ + 1, ![h].dirs = IF @ > 0 THEN @ - d ELSE @]
      /\ \A g \in Group : /\ t[BlkMap(g)] = s[BlkMap(g)]
                          /\ t[InoMap(g)] = IF g = h THEN s[InoMap(h)] \ {i} ELSE s[InoMap(g)]
  BY DEF FreedIno, Maps
<1>3. s[Bgd][h] \in Descriptor
  BY <1>1, <1>2
<1>3b. /\ t[Bgd][h] = [s[Bgd][h] EXCEPT !.fi = @ + 1, !.dirs = IF @ > 0 THEN @ - d ELSE @]
       /\ \A g \in Group \ {h} : t[Bgd][g] = s[Bgd][g]
       /\ t[Bgd] = [g \in Group |-> t[Bgd][g]]
  BY <1>1, <1>2
<1> HIDE DEF h
<1>4. /\ t[Bgd][h].fi = s[Bgd][h].fi + 1 /\ t[Bgd][h].fb = s[Bgd][h].fb
      /\ t[Bgd][h].unused = s[Bgd][h].unused /\ t[Bgd][h].uninit = s[Bgd][h].uninit
  BY <1>3, <1>3b DEF Descriptor
<1>5. \A g \in Group : BlkBits(t, g) = BlkBits(s, g)
  BY <1>2, <1>3b, <1>4 DEF BlkBits
<1>6. \A g \in Group : InoBits(t, g) = IF g = h THEN InoBits(s, h) \ {i} ELSE InoBits(s, g)
  <2>1. "inodes" \notin s[Bgd][h].uninit
    BY <1>1 DEF InoBits
  <2> QED BY <1>2, <1>3b, <1>4, <2>1 DEF InoBits
<1>7. Taken(t) = Taken(s) /\ InUse(t) = InUse(s) \ {i}
  <2>1. \A x : x \in InUse(t) <=> \E g \in Group : x \in InoBits(t, g)
    BY DEF InUse
  <2>2. \A x : x \in InUse(s) <=> \E g \in Group : x \in InoBits(s, g)
    BY DEF InUse
  <2>3. \A g \in Group : i \in InoBits(s, g) => g = h
    BY InoPlaced, Bits DEF h
  <2>4. InUse(t) = InUse(s) \ {i}
    BY <1>1, <1>6, <2>1, <2>2, <2>3
  <2> QED BY <1>5, <2>4 DEF Taken
<1>8. /\ s[Bgd][h].fi = Cardinality(FreeInos(s, h)) /\ s[Sb].fi = Cardinality(Ino \ InUse(s))
      /\ InUse(s) \subseteq Ino /\ InoBits(s, h) \subseteq InosOf(h)
  BY <1>1, Bits DEF Counting
<1>9. Cardinality(FreeInos(t, h)) = Cardinality(FreeInos(s, h)) + 1
  BY <1>1, <1>6, <1>8, Finite, OneMore DEF FreeInos
<1>10. Cardinality(Ino \ InUse(t)) = Cardinality(Ino \ InUse(s)) + 1
  BY <1>7, <1>8, Finite, OneMore
<1>11. t[Bgd][h] \in Descriptor
  <2>1. s[Bgd][h].fi + 1 \in Nat /\ (IF s[Bgd][h].dirs > 0 THEN s[Bgd][h].dirs - d ELSE s[Bgd][h].dirs) \in Nat
    BY <1>3 DEF Descriptor
  <2> QED BY <1>3, <1>3b, <2>1 DEF Descriptor
<1>12. t[Sb] = [fb |-> s[Sb].fb, fi |-> s[Sb].fi + 1]
  BY <1>2
<1>13. t[Sb] \in [fb : Nat, fi : Nat] /\ t[Sb].fb = s[Sb].fb /\ t[Sb].fi = s[Sb].fi + 1
  BY <1>2, <1>12
<1>14. t[Bgd] \in [Group -> Descriptor]
  <2>1. s[Bgd] \in [Group -> Descriptor]
    BY <1>2
  <2>2. \A g \in Group : t[Bgd][g] \in Descriptor
    BY <1>3b, <1>11, <2>1
  <2>3. t[Bgd] = [g \in Group |-> t[Bgd][g]]
    BY <1>3b
  <2> QED BY <2>2, <2>3
<1>15. Maps(t)
  BY <1>2, <1>13, <1>14 DEF Maps
<1>16. \A g \in Group :
         /\ t[Bgd][g].fb = Cardinality(FreeBlks(t, g))
         /\ t[Bgd][g].fi = Cardinality(FreeInos(t, g))
         /\ \A j \in InoBits(t, g) : j <= g * InosPerGroup - t[Bgd][g].unused
  <2> TAKE g \in Group
  <2>1. CASE g = h
    BY <2>1, <1>4, <1>5, <1>6, <1>8, <1>9 DEF Counting, FreeBlks
  <2>2. CASE g # h
    BY <2>2, <1>3b, <1>5, <1>6 DEF Counting, FreeInos, FreeBlks
  <2> QED BY <2>1, <2>2
<1>17. Counting(t)
  BY <1>7, <1>8, <1>10, <1>13, <1>16 DEF Counting
<1> QED BY <1>7, <1>15, <1>17

(***************************************************************************)
(* What each transaction leaves behind.                                    *)
(***************************************************************************)
(* Blocks of different kinds, or different ones of a kind, have different  *)
(* names.                                                                  *)
LEMMA Names ==
  /\ Sb \in BlockName /\ Bgd \in BlockName /\ Sb # Bgd
  /\ \A g \in Group : BlkMap(g) \in BlockName /\ InoMap(g) \in BlockName
  /\ \A b \in Blk : Data(b) \in BlockName
  /\ \A i \in Ino : Table(i) \in BlockName
  /\ \A g, h : /\ BlkMap(g) # Sb /\ BlkMap(g) # Bgd /\ InoMap(g) # Sb /\ InoMap(g) # Bgd
               /\ BlkMap(g) # InoMap(h)
               /\ (BlkMap(g) = BlkMap(h)) => g = h
               /\ (InoMap(g) = InoMap(h)) => g = h
  /\ \A b, g : /\ Data(b) # Sb /\ Data(b) # Bgd /\ Data(b) # BlkMap(g) /\ Data(b) # InoMap(g)
               /\ (Data(b) = Data(g)) => b = g
  /\ \A i, g : /\ Table(i) # Sb /\ Table(i) # Bgd /\ Table(i) # BlkMap(g) /\ Table(i) # InoMap(g)
               /\ Table(i) # Data(g)
<1>1. /\ Sb \in BlockName /\ Bgd \in BlockName
      /\ \A g \in Group : BlkMap(g) \in BlockName /\ InoMap(g) \in BlockName
      /\ \A b \in Blk : Data(b) \in BlockName
      /\ \A i \in Ino : Table(i) \in BlockName
  BY DEF BlockName
<1>2. "sb" # "bgd" /\ "bmap" # "sb" /\ "bmap" # "bgd" /\ "imap" # "sb" /\ "imap" # "bgd"
      /\ "imap" # "bmap" /\ "data" # "sb" /\ "data" # "bgd" /\ "data" # "bmap" /\ "data" # "imap"
      /\ "itab" # "sb" /\ "itab" # "bgd" /\ "itab" # "bmap" /\ "itab" # "imap" /\ "itab" # "data"
  OBVIOUS
<1>3. \A a, b, c, d : <<a, b>> = <<c, d>> => a = c /\ b = d
  OBVIOUS
<1> QED BY <1>1, <1>2, <1>3 DEF Sb, Bgd, BlkMap, InoMap, Data, Table

Put(s, x, v) == [b \in DOMAIN s |-> IF b = x THEN v ELSE s[b]]

(* One write of a list after another.                                      *)
LEMMA OverlayPuts ==
  /\ \A s, x, v : Overlay(s, << Wr(x, v) >>) = Put(s, x, v)
  /\ \A s, x, v, y, w : Overlay(s, << Wr(x, v), Wr(y, w) >>) = Put(Put(s, x, v), y, w)
  /\ \A s, x, v, y, w, z, u : Overlay(s, << Wr(x, v), Wr(y, w), Wr(z, u) >>) =
                                Put(Put(Put(s, x, v), y, w), z, u)
<1>1. \A x, v : Wr(x, v).blk = x /\ Wr(x, v).val = v
  BY DEF Wr
<1>2. \A s, x, v : Overlay(s, << Wr(x, v) >>) = Put(s, x, v)
  BY <1>1, OverlayOne DEF Put
<1>3. \A s, x, v, y, w : Overlay(s, << Wr(x, v), Wr(y, w) >>) = Put(Put(s, x, v), y, w)
  BY <1>1, OverlayTwo DEF Put
<1>4. \A s, x, v, y, w, z, u : Overlay(s, << Wr(x, v), Wr(y, w), Wr(z, u) >>) =
                                Put(Put(Put(s, x, v), y, w), z, u)
  BY <1>1, OverlayThree DEF Put
<1> QED BY <1>2, <1>3, <1>4

(* A put changes one block.                                                *)
LEMMA PutFacts ==
  ASSUME NEW s, NEW x, NEW v
  PROVE  /\ DOMAIN Put(s, x, v) = DOMAIN s
         /\ \A b \in DOMAIN s : Put(s, x, v)[b] = IF b = x THEN v ELSE s[b]
  BY DEF Put

(* All but the maps, and one block of data or inodes, are as before.       *)
SameDatas(s, t) == \A c \in Blk : t[Data(c)] = s[Data(c)]
SameTables(s, t) == \A j \in Ino : t[Table(j)] = s[Table(j)]
Whole(s) == DOMAIN s = BlockName
WroteData(s, t, b, v) == \A c \in Blk : t[Data(c)] = IF c = b THEN v ELSE s[Data(c)]
WroteInode(s, t, i, rec) ==
  \A j \in Ino : t[Table(j)] = IF Table(j) = Table(i) THEN [s[Table(i)] EXCEPT ![i] = rec]
                               ELSE s[Table(j)]

(* Data are written.                                                       *)
LEMMA PutData ==
  ASSUME NEW s, Whole(s), NEW b \in Blk, NEW v, NEW t, t = Put(s, Data(b), v)
  PROVE  Whole(t) /\ SameMaps(s, t) /\ SameTables(s, t) /\ WroteData(s, t, b, v)
<1>1. DOMAIN t = BlockName /\ \A x \in BlockName : t[x] = IF x = Data(b) THEN v ELSE s[x]
  BY DEF Put, Whole
<1> QED BY <1>1, Names DEF Whole, SameMaps, SameTables, WroteData

(* An inode is written, with its neighbours as they were when it was read. *)
LEMMA PutTable ==
  ASSUME NEW s, NEW u, Whole(u), NEW i \in Ino, u[Table(i)] = s[Table(i)], NEW rec, NEW t,
         t = Put(u, Table(i), [s[Table(i)] EXCEPT ![i] = rec])
  PROVE  Whole(t) /\ SameMaps(u, t) /\ SameDatas(u, t) /\ WroteInode(u, t, i, rec)
<1>1. /\ DOMAIN t = BlockName
      /\ \A x \in BlockName : t[x] = IF x = Table(i) THEN [u[Table(i)] EXCEPT ![i] = rec] ELSE u[x]
  BY DEF Put, Whole
<1> QED BY <1>1, Names DEF Whole, SameMaps, SameDatas, WroteInode

(* The maps are written.                                                   *)
LEMMA PutMaps ==
  ASSUME NEW s, NEW u, Whole(u), SameMaps(s, u), NEW g \in Group, NEW f, NEW a, NEW c, NEW t
  PROVE  /\ t = Put(Put(Put(u, BlkMap(g), f), Bgd, a), Sb, c) =>
              /\ Whole(t) /\ SameDatas(u, t) /\ SameTables(u, t)
              /\ t[Bgd] = a /\ t[Sb] = c
              /\ \A h \in Group : /\ t[BlkMap(h)] = IF h = g THEN f ELSE s[BlkMap(h)]
                                  /\ t[InoMap(h)] = s[InoMap(h)]
         /\ t = Put(Put(Put(u, InoMap(g), f), Bgd, a), Sb, c) =>
              /\ Whole(t) /\ SameDatas(u, t) /\ SameTables(u, t)
              /\ t[Bgd] = a /\ t[Sb] = c
              /\ \A h \in Group : /\ t[InoMap(h)] = IF h = g THEN f ELSE s[InoMap(h)]
                                  /\ t[BlkMap(h)] = s[BlkMap(h)]
<1>1. ASSUME t = Put(Put(Put(u, BlkMap(g), f), Bgd, a), Sb, c)
      PROVE  /\ Whole(t) /\ SameDatas(u, t) /\ SameTables(u, t)
             /\ t[Bgd] = a /\ t[Sb] = c
             /\ \A h \in Group : /\ t[BlkMap(h)] = IF h = g THEN f ELSE s[BlkMap(h)]
                                 /\ t[InoMap(h)] = s[InoMap(h)]
  <2>1. /\ DOMAIN t = BlockName
        /\ \A x \in BlockName : t[x] = IF x = Sb THEN c ELSE IF x = Bgd THEN a
                                       ELSE IF x = BlkMap(g) THEN f ELSE u[x]
    BY <1>1 DEF Put, Whole
  <2>2. Whole(t) /\ SameDatas(u, t) /\ SameTables(u, t) /\ t[Bgd] = a /\ t[Sb] = c
    BY <2>1, Names DEF Whole, SameDatas, SameTables
  <2>3. \A h \in Group : /\ t[BlkMap(h)] = IF h = g THEN f ELSE u[BlkMap(h)]
                         /\ t[InoMap(h)] = u[InoMap(h)]
    BY <2>1, Names
  <2> QED BY <2>2, <2>3 DEF SameMaps
<1>2. ASSUME t = Put(Put(Put(u, InoMap(g), f), Bgd, a), Sb, c)
      PROVE  /\ Whole(t) /\ SameDatas(u, t) /\ SameTables(u, t)
             /\ t[Bgd] = a /\ t[Sb] = c
             /\ \A h \in Group : /\ t[InoMap(h)] = IF h = g THEN f ELSE s[InoMap(h)]
                                 /\ t[BlkMap(h)] = s[BlkMap(h)]
  <2>1. /\ DOMAIN t = BlockName
        /\ \A x \in BlockName : t[x] = IF x = Sb THEN c ELSE IF x = Bgd THEN a
                                       ELSE IF x = InoMap(g) THEN f ELSE u[x]
    BY <1>2 DEF Put, Whole
  <2>2. Whole(t) /\ SameDatas(u, t) /\ SameTables(u, t) /\ t[Bgd] = a /\ t[Sb] = c
    BY <2>1, Names DEF Whole, SameDatas, SameTables
  <2>3. \A h \in Group : /\ t[InoMap(h)] = IF h = g THEN f ELSE u[InoMap(h)]
                         /\ t[BlkMap(h)] = u[BlkMap(h)]
    BY <2>1, Names
  <2> QED BY <2>2, <2>3 DEF SameMaps
<1> QED BY <1>1, <1>2

(* The four changes of the maps.                                           *)
LEMMA MapChanges ==
  ASSUME NEW s, NEW u, Whole(u), SameMaps(s, u), NEW t
  PROVE  /\ \A b \in Blk : t = Overlay(u, TakeBlk(s, b)) =>
              Whole(t) /\ SameDatas(u, t) /\ SameTables(u, t) /\ TookBlk(s, t, b)
         /\ \A b \in Blk : t = Overlay(u, FreeBlk(s, b)) =>
              Whole(t) /\ SameDatas(u, t) /\ SameTables(u, t) /\ FreedBlk(s, t, b)
         /\ \A i \in Ino, d \in {0, 1} : t = Overlay(u, TakeIno(s, i, d)) =>
              Whole(t) /\ SameDatas(u, t) /\ SameTables(u, t) /\ TookIno(s, t, i, d)
         /\ \A i \in Ino, d \in {0, 1} : t = Overlay(u, FreeIno(s, i, d)) =>
              Whole(t) /\ SameDatas(u, t) /\ SameTables(u, t) /\ FreedIno(s, t, i, d)
<1>1. ASSUME NEW b \in Blk, t = Overlay(u, TakeBlk(s, b))
      PROVE  Whole(t) /\ SameDatas(u, t) /\ SameTables(u, t) /\ TookBlk(s, t, b)
  <2> DEFINE h == BlkGroup(b)
             f == BlkBits(s, h) \cup {b}
             a == [s[Bgd] EXCEPT ![h].fb = @ - 1, ![h].uninit = @ \ {"blocks"}]
             c == [s[Sb] EXCEPT !.fb = @ - 1]
  <2>1. t = Put(Put(Put(u, BlkMap(h), f), Bgd, a), Sb, c)
    <3>1. t = Overlay(u, << Wr(BlkMap(h), f), Wr(Bgd, a), Wr(Sb, c) >>)
      BY <1>1 DEF TakeBlk
    <3> HIDE DEF h, f, a, c
    <3> QED BY <3>1, OverlayPuts
  <2>2. h \in Group
    BY BlkPlaced
  <2>3. /\ Whole(t) /\ SameDatas(u, t) /\ SameTables(u, t)
        /\ t[Bgd] = a /\ t[Sb] = c
        /\ \A k \in Group : /\ t[BlkMap(k)] = IF k = h THEN f ELSE s[BlkMap(k)]
                            /\ t[InoMap(k)] = s[InoMap(k)]
    <3> HIDE DEF h, f, a, c
    <3> QED BY <2>1, <2>2, PutMaps
  <2> QED BY <2>3 DEF TookBlk
<1>2. ASSUME NEW b \in Blk, t = Overlay(u, FreeBlk(s, b))
      PROVE  Whole(t) /\ SameDatas(u, t) /\ SameTables(u, t) /\ FreedBlk(s, t, b)
  <2> DEFINE h == BlkGroup(b)
             f == s[BlkMap(h)] \ {b}
             a == [s[Bgd] EXCEPT ![h].fb = @ + 1]
             c == [s[Sb] EXCEPT !.fb = @ + 1]
  <2>1. t = Put(Put(Put(u, BlkMap(h), f), Bgd, a), Sb, c)
    <3>1. t = Overlay(u, << Wr(BlkMap(h), f), Wr(Bgd, a), Wr(Sb, c) >>)
      BY <1>2 DEF FreeBlk
    <3> HIDE DEF h, f, a, c
    <3> QED BY <3>1, OverlayPuts
  <2>2. h \in Group
    BY BlkPlaced
  <2>3. /\ Whole(t) /\ SameDatas(u, t) /\ SameTables(u, t)
        /\ t[Bgd] = a /\ t[Sb] = c
        /\ \A k \in Group : /\ t[BlkMap(k)] = IF k = h THEN f ELSE s[BlkMap(k)]
                            /\ t[InoMap(k)] = s[InoMap(k)]
    <3> HIDE DEF h, f, a, c
    <3> QED BY <2>1, <2>2, PutMaps
  <2> QED BY <2>3 DEF FreedBlk
<1>3. ASSUME NEW i \in Ino, NEW d \in {0, 1}, t = Overlay(u, TakeIno(s, i, d))
      PROVE  Whole(t) /\ SameDatas(u, t) /\ SameTables(u, t) /\ TookIno(s, t, i, d)
  <2> DEFINE h == InoGroup(i)
             f == InoBits(s, h) \cup {i}
             a == [s[Bgd] EXCEPT ![h].fi = @ - 1, ![h].dirs = @ + d,
                             ![h].uninit = @ \ {"inodes"}, ![h].unused = UnusedPast(i, @)]
             c == [s[Sb] EXCEPT !.fi = @ - 1]
  <2>1. t = Put(Put(Put(u, InoMap(h), f), Bgd, a), Sb, c)
    <3>1. t = Overlay(u, << Wr(InoMap(h), f), Wr(Bgd, a), Wr(Sb, c) >>)
      BY <1>3 DEF TakeIno
    <3> HIDE DEF h, f, a, c
    <3> QED BY <3>1, OverlayPuts
  <2>2. h \in Group
    BY InoPlaced
  <2>3. /\ Whole(t) /\ SameDatas(u, t) /\ SameTables(u, t)
        /\ t[Bgd] = a /\ t[Sb] = c
        /\ \A k \in Group : /\ t[InoMap(k)] = IF k = h THEN f ELSE s[InoMap(k)]
                            /\ t[BlkMap(k)] = s[BlkMap(k)]
    <3> HIDE DEF h, f, a, c
    <3> QED BY <2>1, <2>2, PutMaps
  <2> QED BY <2>3 DEF TookIno
<1>4. ASSUME NEW i \in Ino, NEW d \in {0, 1}, t = Overlay(u, FreeIno(s, i, d))
      PROVE  Whole(t) /\ SameDatas(u, t) /\ SameTables(u, t) /\ FreedIno(s, t, i, d)
  <2> DEFINE h == InoGroup(i)
             f == s[InoMap(h)] \ {i}
             a == [s[Bgd] EXCEPT ![h].fi = @ + 1, ![h].dirs = IF @ > 0 THEN @ - d ELSE @]
             c == [s[Sb] EXCEPT !.fi = @ + 1]
  <2>1. t = Put(Put(Put(u, InoMap(h), f), Bgd, a), Sb, c)
    <3>1. t = Overlay(u, << Wr(InoMap(h), f), Wr(Bgd, a), Wr(Sb, c) >>)
      BY <1>4 DEF FreeIno
    <3> HIDE DEF h, f, a, c
    <3> QED BY <3>1, OverlayPuts
  <2>2. h \in Group
    BY InoPlaced
  <2>3. /\ Whole(t) /\ SameDatas(u, t) /\ SameTables(u, t)
        /\ t[Bgd] = a /\ t[Sb] = c
        /\ \A k \in Group : /\ t[InoMap(k)] = IF k = h THEN f ELSE s[InoMap(k)]
                            /\ t[BlkMap(k)] = s[BlkMap(k)]
    <3> HIDE DEF h, f, a, c
    <3> QED BY <2>1, <2>2, PutMaps
  <2> QED BY <2>3 DEF FreedIno
<1> QED BY <1>1, <1>2, <1>3, <1>4

(* Lists of writes, and one after another.                                 *)
IsList(us) == \E W : us \in Seq(W)

(* The lists of writes a transaction is put together from.                 *)
LEMMA Lists ==
  /\ \A a : IsList(<< a >>)
  /\ \A a, b : IsList(<< a, b >>)
  /\ \A a, b, c : IsList(<< a, b, c >>)
  /\ IsList(<< >>)
<1>1. \A a : << a >> \in Seq({a})
  OBVIOUS
<1>2. \A a, b : << a, b >> \in Seq({a, b})
  OBVIOUS
<1>3. \A a, b, c : << a, b, c >> \in Seq({a, b, c})
  OBVIOUS
<1>4. << >> \in Seq({})
  OBVIOUS
<1> QED BY <1>1, <1>2, <1>3, <1>4 DEF IsList

(* One list after another is the one overlaid on what the other left.      *)
LEMMA ListsJoin ==
  ASSUME NEW us, NEW ws, IsList(us), IsList(ws), NEW s
  PROVE  IsList(us \o ws) /\ Overlay(s, us \o ws) = Overlay(Overlay(s, us), ws)
<1>1. PICK U : us \in Seq(U)
  BY DEF IsList
<1>2. PICK V : ws \in Seq(V)
  BY DEF IsList
<1> DEFINE W == U \cup V
<1>3. us \in Seq(W) /\ ws \in Seq(W)
  BY <1>1, <1>2
<1> HIDE DEF W
<1>4. us \o ws \in Seq(W)
  BY <1>3
<1> QED BY <1>3, <1>4, OverlayConcat DEF IsList

(* The lists that change the maps.                                         *)
LEMMA MapLists ==
  ASSUME NEW s, NEW i, NEW d, NEW b
  PROVE  /\ IsList(TakeIno(s, i, d)) /\ IsList(FreeIno(s, i, d))
         /\ IsList(TakeBlk(s, b)) /\ IsList(FreeBlk(s, b))
  BY Lists DEF TakeIno, FreeIno, TakeBlk, FreeBlk

(* Maps that changed and were then left alone.                             *)
LEMMA ThenSameMaps ==
  ASSUME NEW s, NEW u, NEW t, SameMaps(u, t)
  PROVE  /\ SameMaps(s, u) => SameMaps(s, t)
         /\ \A b \in Blk : TookBlk(s, u, b) => TookBlk(s, t, b)
         /\ \A b \in Blk : FreedBlk(s, u, b) => FreedBlk(s, t, b)
         /\ \A i \in Ino, d \in {0, 1} : TookIno(s, u, i, d) => TookIno(s, t, i, d)
         /\ \A i \in Ino, d \in {0, 1} : FreedIno(s, u, i, d) => FreedIno(s, t, i, d)
<1>1. SameMaps(s, u) => SameMaps(s, t)
  BY DEF SameMaps
<1>2. \A b \in Blk : TookBlk(s, u, b) => TookBlk(s, t, b)
  BY DEF SameMaps, TookBlk
<1>3. \A b \in Blk : FreedBlk(s, u, b) => FreedBlk(s, t, b)
  BY DEF SameMaps, FreedBlk
<1>4. ASSUME NEW i \in Ino, NEW d \in {0, 1}, TookIno(s, u, i, d) PROVE TookIno(s, t, i, d)
  <2>1. t[Sb] = u[Sb] /\ t[Bgd] = u[Bgd]
    BY DEF SameMaps
  <2>2. \A g \in Group : t[BlkMap(g)] = u[BlkMap(g)] /\ t[InoMap(g)] = u[InoMap(g)]
    BY DEF SameMaps
  <2> QED BY <1>4, <2>1, <2>2, Zenon DEF TookIno
<1>5. \A i \in Ino, d \in {0, 1} : FreedIno(s, u, i, d) => FreedIno(s, t, i, d)
  BY Zenon DEF SameMaps, FreedIno
<1> QED BY <1>1, <1>2, <1>3, <1>4, <1>5

(* create.                                                                 *)
LEMMA CreateLeaves ==
  ASSUME NEW s, Whole(s), NEW p \in Ino, NEW n, NEW i \in Ino, DirBlk(s, p) \in Blk, NEW t,
         t = Overlay(s, CreateTx(s, p, n, i))
  PROVE  /\ Whole(t) /\ TookIno(s, t, i, 0) /\ WroteInode(s, t, i, NewFile)
         /\ WroteData(s, t, DirBlk(s, p), DirBlock(Insert(Ents(s, p), i, n)))
<1> DEFINE A == << PutEnts(s, p, Insert(Ents(s, p), i, n)) >>
           B == TakeIno(s, i, 0)
           C == << PutInode(s, i, NewFile) >>
           u == Overlay(s, A)
           v == Overlay(u, B)
<1>1. IsList(A) /\ IsList(B) /\ IsList(C)
  BY Lists, MapLists
<1>2. t = Overlay(s, (A \o B) \o C)
  BY DEF CreateTx
<1>3. u = Put(s, Data(DirBlk(s, p)), DirBlock(Insert(Ents(s, p), i, n)))
  BY OverlayPuts DEF PutEnts
<1>4. \A x : Overlay(x, C) = Put(x, Table(i), [s[Table(i)] EXCEPT ![i] = NewFile])
  BY OverlayPuts DEF PutInode
<1> HIDE DEF A, B, C, u, v
<1>5. t = Put(v, Table(i), [s[Table(i)] EXCEPT ![i] = NewFile])
  <2>1. IsList(A \o B) /\ Overlay(s, A \o B) = v
    BY <1>1, ListsJoin DEF u, v
  <2>2. t = Overlay(v, C)
    BY <1>1, <1>2, <2>1, ListsJoin
  <2> QED BY <1>4, <2>2
<1>6. Whole(u) /\ SameMaps(s, u) /\ SameTables(s, u)
      /\ WroteData(s, u, DirBlk(s, p), DirBlock(Insert(Ents(s, p), i, n)))
  BY <1>3, PutData
<1>7. Whole(v) /\ SameDatas(u, v) /\ SameTables(u, v) /\ TookIno(s, v, i, 0)
  BY <1>6, MapChanges DEF v, B
<1>8. v[Table(i)] = s[Table(i)]
  BY <1>6, <1>7 DEF SameTables
<1>9. Whole(t) /\ SameMaps(v, t) /\ SameDatas(v, t) /\ WroteInode(v, t, i, NewFile)
  BY <1>5, <1>7, <1>8, PutTable
<1>10. TookIno(s, t, i, 0)
  <2>1. 0 \in {0, 1}
    OBVIOUS
  <2>2. TookIno(s, v, i, 0) /\ SameMaps(v, t)
    BY <1>7, <1>9
  <2> QED BY <2>1, <2>2, ThenSameMaps
<1>11. WroteInode(s, t, i, NewFile)
  BY <1>6, <1>7, <1>9 DEF WroteInode, SameTables
<1>12. WroteData(s, t, DirBlk(s, p), DirBlock(Insert(Ents(s, p), i, n)))
  BY <1>6, <1>7, <1>9 DEF WroteData, SameDatas
<1> QED BY <1>9, <1>10, <1>11, <1>12

(* Two inodes are written, each with its neighbours as they were: of one   *)
(* block, only the second.                                                 *)
WroteInodes(s, t, i, old, p, new) ==
  \A j \in Ino : t[Table(j)] = IF Table(j) = Table(p) THEN [s[Table(p)] EXCEPT ![p] = new]
                               ELSE IF Table(j) = Table(i) THEN [s[Table(i)] EXCEPT ![i] = old]
                               ELSE s[Table(j)]

(* Two writes of inodes, as they were read before the first.               *)
LEMMA PutTables ==
  ASSUME NEW s, NEW u, Whole(u), SameTables(s, u), NEW i \in Ino, NEW p \in Ino,
         NEW old, NEW new, NEW t,
         t = Put(Put(u, Table(i), [s[Table(i)] EXCEPT ![i] = old]),
                 Table(p), [s[Table(p)] EXCEPT ![p] = new])
  PROVE  Whole(t) /\ SameMaps(u, t) /\ SameDatas(u, t) /\ WroteInodes(s, t, i, old, p, new)
<1>1. /\ DOMAIN t = BlockName
      /\ \A x \in BlockName : t[x] = IF x = Table(p) THEN [s[Table(p)] EXCEPT ![p] = new]
                                     ELSE IF x = Table(i) THEN [s[Table(i)] EXCEPT ![i] = old]
                                     ELSE u[x]
  BY DEF Put, Whole
<1>2. SameMaps(u, t) /\ SameDatas(u, t)
  BY <1>1, Names DEF SameMaps, SameDatas
<1>3. WroteInodes(s, t, i, old, p, new)
  BY <1>1, Names DEF WroteInodes, SameTables
<1> QED BY <1>1, <1>2, <1>3 DEF Whole

(* Two inodes, and the entries of a directory between them.                *)
LEMMA PutThree ==
  ASSUME NEW s, NEW u, Whole(u), SameTables(s, u), NEW i \in Ino, NEW p \in Ino,
         NEW old, NEW new, DirBlk(s, p) \in Blk, NEW f, NEW t,
         t = Overlay(u, << PutInode(s, i, old), PutEnts(s, p, f), PutInode(s, p, new) >>)
  PROVE  /\ Whole(t) /\ SameMaps(u, t) /\ WroteInodes(s, t, i, old, p, new)
         /\ WroteData(u, t, DirBlk(s, p), DirBlock(f))
<1> DEFINE b == DirBlk(s, p)
           a == [s[Table(i)] EXCEPT ![i] = old]
           c == [s[Table(p)] EXCEPT ![p] = new]
<1>1. t = Put(Put(Put(u, Table(i), a), Data(b), DirBlock(f)), Table(p), c)
  BY OverlayPuts DEF PutInode, PutEnts
<1>2. /\ DOMAIN t = BlockName
      /\ \A x \in BlockName : t[x] = IF x = Table(p) THEN c
                                     ELSE IF x = Data(b) THEN DirBlock(f)
                                     ELSE IF x = Table(i) THEN a
                                     ELSE u[x]
  BY <1>1 DEF Put, Whole
<1>3. SameMaps(u, t)
  BY <1>2, Names DEF SameMaps
<1>4. WroteData(u, t, b, DirBlock(f))
  BY <1>2, Names DEF WroteData
<1>5. WroteInodes(s, t, i, old, p, new)
  BY <1>2, Names DEF WroteInodes, SameTables
<1> QED BY <1>2, <1>3, <1>4, <1>5 DEF Whole

(* The first transaction of mkdir.                                         *)
LEMMA Mkdir1Leaves ==
  ASSUME NEW s, Whole(s), NEW i \in Ino, NEW t, t = Overlay(s, MkdirTx1(s, i))
  PROVE  Whole(t) /\ TookIno(s, t, i, 1) /\ WroteInode(s, t, i, NewDir) /\ SameDatas(s, t)
<1> DEFINE B == TakeIno(s, i, 1)
           C == << PutInode(s, i, NewDir) >>
           v == Overlay(s, B)
<1>1. t = Overlay(v, C)
  <2>1. IsList(B) /\ IsList(C)
    BY Lists, MapLists
  <2>2. t = Overlay(s, B \o C)
    BY DEF MkdirTx1
  <2> HIDE DEF B, C
  <2> QED BY <2>1, <2>2, ListsJoin
<1>2. t = Put(v, Table(i), [s[Table(i)] EXCEPT ![i] = NewDir])
  BY <1>1, OverlayPuts DEF PutInode
<1>3. Whole(v) /\ SameDatas(s, v) /\ SameTables(s, v) /\ TookIno(s, v, i, 1)
  <2>1. SameMaps(s, s)
    BY DEF SameMaps
  <2> QED BY <2>1, MapChanges
<1> HIDE DEF v
<1>4. v[Table(i)] = s[Table(i)]
  BY <1>3 DEF SameTables
<1>5. Whole(t) /\ SameMaps(v, t) /\ SameDatas(v, t) /\ WroteInode(v, t, i, NewDir)
  BY <1>2, <1>3, <1>4, PutTable
<1>6. TookIno(s, t, i, 1)
  BY <1>3, <1>5, ThenSameMaps
<1> QED BY <1>3, <1>5, <1>6 DEF WroteInode, SameTables, SameDatas

(* The second.                                                             *)
MkdirNode(s, i, b) ==
  [Inode(s, i) EXCEPT !.ext = << [lb |-> 0, len |-> 1, pb |-> b] >>, !.size = Unit, !.nblk = 1]
MkdirParent(s, p) == Relink(s, p, Inode(s, p).links + 1)
Wired(s, t, p, n, i, b) == t = Overlay(s, MkdirTx2(s, p, n, i, b))

(* It leaves the new block, the entry, and one or both inodes.             *)
LEMMA Mkdir2Leaves ==
  ASSUME NEW s, Whole(s), NEW p \in Ino, NEW n, NEW i \in Ino, NEW b \in Blk,
         DirBlk(s, p) \in Blk, NEW t, Wired(s, t, p, n, i, b)
  PROVE  /\ Whole(t) /\ TookBlk(s, t, b)
         /\ WroteInodes(s, t, i, MkdirNode(s, i, b), p, MkdirParent(s, p))
         /\ \A c \in Blk : t[Data(c)] = IF c = DirBlk(s, p)
                                        THEN DirBlock(Insert(Ents(s, p), i, n))
                                        ELSE IF c = b THEN EmptyDir(i, p) ELSE s[Data(c)]
<1> DEFINE A == << Wr(Data(b), EmptyDir(i, p)) >>
           B == TakeBlk(s, b)
           old == MkdirNode(s, i, b)
           new == MkdirParent(s, p)
           f == Insert(Ents(s, p), i, n)
           C == << PutInode(s, i, old), PutEnts(s, p, f), PutInode(s, p, new) >>
           u == Overlay(s, A)
           v == Overlay(u, B)
<1>1. IsList(A) /\ IsList(B) /\ IsList(C)
  BY Lists, MapLists
<1>2. t = Overlay(s, (A \o B) \o C)
  BY DEF Wired, MkdirTx2, MkdirNode, MkdirParent
<1>3. u = Put(s, Data(b), EmptyDir(i, p))
  BY OverlayPuts
<1>4. t = Overlay(v, C)
  <2> HIDE DEF A, B, C
  <2>1. IsList(A \o B) /\ Overlay(s, A \o B) = v
    BY <1>1, ListsJoin
  <2> HIDE DEF u, v
  <2> QED BY <1>1, <1>2, <2>1, ListsJoin
<1> HIDE DEF u
<1>6. Whole(u) /\ SameMaps(s, u) /\ SameTables(s, u) /\ WroteData(s, u, b, EmptyDir(i, p))
  BY <1>3, PutData
<1>7. Whole(v) /\ SameDatas(u, v) /\ SameTables(u, v) /\ TookBlk(s, v, b)
  BY <1>6, MapChanges
<1> HIDE DEF v, old, new, f
<1>8. SameTables(s, v)
  BY <1>6, <1>7 DEF SameTables
<1>9. /\ Whole(t) /\ SameMaps(v, t) /\ WroteInodes(s, t, i, old, p, new)
      /\ WroteData(v, t, DirBlk(s, p), DirBlock(f))
  BY <1>4, <1>7, <1>8, PutThree
<1>10. TookBlk(s, t, b)
  BY <1>7, <1>9, ThenSameMaps
<1>11. \A c \in Blk : t[Data(c)] = IF c = DirBlk(s, p) THEN DirBlock(f)
                                  ELSE IF c = b THEN EmptyDir(i, p) ELSE s[Data(c)]
  BY <1>6, <1>7, <1>9 DEF WroteData, SameDatas
<1> QED BY <1>9, <1>10, <1>11 DEF old, new, f

(* A block is freed.                                                       *)
LEMMA FreeLeaves ==
  ASSUME NEW s, Whole(s), NEW b \in Blk, NEW t, t = Overlay(s, FreeBlk(s, b))
  PROVE  Whole(t) /\ FreedBlk(s, t, b) /\ SameTables(s, t) /\ SameDatas(s, t)
<1>1. SameMaps(s, s)
  BY DEF SameMaps
<1> QED BY <1>1, MapChanges

(* The last transaction of rmdir and of unlink.                            *)
Deleted(s, t, p, i, d, new) ==
  t = Overlay(s, FreeIno(s, i, d)
                   \o << PutInode(s, i, Blank), PutEnts(s, p, Remove(Ents(s, p), i)),
                         PutInode(s, p, new) >>)

(* It frees the inode, clears it, takes the entry out and writes the       *)
(* parent.                                                                 *)
LEMMA DeleteLeaves ==
  ASSUME NEW s, Whole(s), NEW p \in Ino, NEW i \in Ino, NEW d \in {0, 1}, NEW new,
         DirBlk(s, p) \in Blk, NEW t, Deleted(s, t, p, i, d, new)
  PROVE  /\ Whole(t) /\ FreedIno(s, t, i, d) /\ WroteInodes(s, t, i, Blank, p, new)
         /\ WroteData(s, t, DirBlk(s, p), DirBlock(Remove(Ents(s, p), i)))
<1> DEFINE B == FreeIno(s, i, d)
           f == Remove(Ents(s, p), i)
           C == << PutInode(s, i, Blank), PutEnts(s, p, f), PutInode(s, p, new) >>
           v == Overlay(s, B)
<1>1. t = Overlay(v, C)
  <2>1. IsList(B) /\ IsList(C)
    BY Lists, MapLists
  <2>2. t = Overlay(s, B \o C)
    BY DEF Deleted
  <2> HIDE DEF B, C
  <2> QED BY <2>1, <2>2, ListsJoin
<1>2. Whole(v) /\ SameDatas(s, v) /\ SameTables(s, v) /\ FreedIno(s, v, i, d)
  <2>1. SameMaps(s, s)
    BY DEF SameMaps
  <2> QED BY <2>1, MapChanges
<1> HIDE DEF v, f
<1>3. /\ Whole(t) /\ SameMaps(v, t) /\ WroteInodes(s, t, i, Blank, p, new)
      /\ WroteData(v, t, DirBlk(s, p), DirBlock(f))
  BY <1>1, <1>2, PutThree
<1>4. FreedIno(s, t, i, d)
  BY <1>2, <1>3 DEF FreedIno, SameMaps
<1>5. WroteData(s, t, DirBlk(s, p), DirBlock(f))
  BY <1>2, <1>3 DEF WroteData, SameDatas
<1> QED BY <1>3, <1>4, <1>5 DEF f

(* A file's last extents, or its data, are written.                        *)
LEMMA ExtendLeaves ==
  ASSUME NEW s, Whole(s), NEW i \in Ino, NEW b \in Blk, NEW c, NEW n, NEW t,
         t = Overlay(s, ExtendTx(s, c, i, b, n))
  PROVE  /\ Whole(t) /\ TookBlk(s, t, b) /\ WroteData(s, t, b, FileData(i))
         /\ WroteInode(s, t, i, Append1(Inode(s, i), c, b, n))
<1> DEFINE A == << Wr(Data(b), FileData(i)) >>
           B == TakeBlk(s, b)
           new == Append1(Inode(s, i), c, b, n)
           C == << PutInode(s, i, new) >>
           u == Overlay(s, A)
           v == Overlay(u, B)
<1>1. IsList(A) /\ IsList(B) /\ IsList(C)
  BY Lists, MapLists
<1>2. t = Overlay(s, (A \o B) \o C)
  BY DEF ExtendTx
<1>3. u = Put(s, Data(b), FileData(i))
  BY OverlayPuts
<1>4. t = Overlay(v, C)
  <2> HIDE DEF A, B, C
  <2>1. IsList(A \o B) /\ Overlay(s, A \o B) = v
    BY <1>1, ListsJoin
  <2> HIDE DEF u, v
  <2> QED BY <1>1, <1>2, <2>1, ListsJoin
<1>5. t = Put(v, Table(i), [s[Table(i)] EXCEPT ![i] = new])
  <2> HIDE DEF v, new
  <2> QED BY <1>4, OverlayPuts DEF PutInode
<1> HIDE DEF u
<1>6. Whole(u) /\ SameMaps(s, u) /\ SameTables(s, u) /\ WroteData(s, u, b, FileData(i))
  BY <1>3, PutData
<1>7. Whole(v) /\ SameDatas(u, v) /\ SameTables(u, v) /\ TookBlk(s, v, b)
  BY <1>6, MapChanges
<1> HIDE DEF v, new
<1>8. v[Table(i)] = s[Table(i)]
  BY <1>6, <1>7 DEF SameTables
<1>9. Whole(t) /\ SameMaps(v, t) /\ SameDatas(v, t) /\ WroteInode(v, t, i, new)
  BY <1>5, <1>7, <1>8, PutTable
<1>10. TookBlk(s, t, b)
  BY <1>7, <1>9, ThenSameMaps
<1>11. WroteInode(s, t, i, new)
  BY <1>6, <1>7, <1>9 DEF WroteInode, SameTables
<1>12. WroteData(s, t, b, FileData(i))
  BY <1>6, <1>7, <1>9 DEF WroteData, SameDatas
<1> QED BY <1>9, <1>10, <1>11, <1>12 DEF new

Truncated(s, t, i, n, x, freed, new) ==
  /\ t = Overlay(s, TruncateTx(s, i, n, x, freed))
  /\ new = [Inode(s, i) EXCEPT !.ext = x, !.size = n, !.nblk = @ - freed]

(* A truncate leaves all but the inode.                                    *)
LEMMA TruncateLeaves ==
  ASSUME NEW s, Whole(s), NEW i \in Ino, NEW n, NEW x, NEW freed, NEW new, NEW t,
         Truncated(s, t, i, n, x, freed, new)
  PROVE  Whole(t) /\ SameMaps(s, t) /\ SameDatas(s, t) /\ WroteInode(s, t, i, new)
<1>1. t = Overlay(s, << Wr(Table(i), [s[Table(i)] EXCEPT ![i] = new]) >>)
  BY DEF Truncated, TruncateTx, PutInode
<1>2. t = Put(s, Table(i), [s[Table(i)] EXCEPT ![i] = new])
  BY <1>1, OverlayPuts
<1> QED BY <1>2, PutTable

(* One block of data or entries, and an inode as it is.                    *)
LEMMA DataLeaves ==
  ASSUME NEW s, Whole(s), NEW i \in Ino, NEW b \in Blk, NEW v, NEW t,
         t = Overlay(s, << Wr(Data(b), v), PutInode(s, i, Inode(s, i)) >>)
  PROVE  /\ Whole(t) /\ SameMaps(s, t) /\ WroteData(s, t, b, v)
         /\ WroteInode(s, t, i, Inode(s, i))
<1> DEFINE new == Inode(s, i)
           u == Put(s, Data(b), v)
<1>1. t = Overlay(s, << Wr(Data(b), v), Wr(Table(i), [s[Table(i)] EXCEPT ![i] = new]) >>)
  BY DEF PutInode
<1>2. t = Put(u, Table(i), [s[Table(i)] EXCEPT ![i] = new])
  <2> HIDE DEF new
  <2> QED BY <1>1, OverlayPuts
<1>3. Whole(u) /\ SameMaps(s, u) /\ SameTables(s, u) /\ WroteData(s, u, b, v)
  BY PutData
<1> HIDE DEF u, new
<1>4. u[Table(i)] = s[Table(i)]
  BY <1>3 DEF SameTables
<1>5. Whole(t) /\ SameMaps(u, t) /\ SameDatas(u, t) /\ WroteInode(u, t, i, new)
  BY <1>2, <1>3, <1>4, PutTable
<1>6. SameMaps(s, t)
  BY <1>3, <1>5, ThenSameMaps
<1> QED BY <1>3, <1>5, <1>6 DEF WroteInode, WroteData, SameTables, SameDatas, new

(* Two inodes are written, in one buffer when they share a block.          *)
WroteBoth(s, t, p, old, q, new) ==
  IF Table(p) = Table(q)
  THEN \A j \in Ino : t[Table(j)] = IF Table(j) = Table(p)
                                    THEN [s[Table(p)] EXCEPT ![p] = old, ![q] = new]
                                    ELSE s[Table(j)]
  ELSE WroteInodes(s, t, p, old, q, new)

(* Whatever block they are in, both are there afterwards or neither is     *)
(* lost.                                                                   *)
LEMMA PutBoth ==
  ASSUME NEW s, NEW u, Whole(u), SameTables(s, u), NEW p \in Ino, NEW q \in Ino,
         NEW old, NEW new, NEW t,
         t = Overlay(u, IF Table(p) = Table(q)
                        THEN << Wr(Table(p), [s[Table(p)] EXCEPT ![p] = old, ![q] = new]) >>
                        ELSE << PutInode(s, p, old), PutInode(s, q, new) >>)
  PROVE  Whole(t) /\ SameMaps(u, t) /\ SameDatas(u, t) /\ WroteBoth(s, t, p, old, q, new)
<1>1. CASE Table(p) = Table(q)
  <2> DEFINE a == [s[Table(p)] EXCEPT ![p] = old, ![q] = new]
  <2>1. t = Overlay(u, << Wr(Table(p), a) >>)
    BY <1>1
  <2> HIDE DEF a
  <2>2. t = Put(u, Table(p), a)
    BY <2>1, OverlayPuts
  <2>3. DOMAIN t = BlockName /\ \A x \in BlockName : t[x] = IF x = Table(p) THEN a ELSE u[x]
    BY <2>2 DEF Put, Whole
  <2>4. Whole(t) /\ SameMaps(u, t) /\ SameDatas(u, t)
    BY <2>3, Names DEF Whole, SameMaps, SameDatas
  <2>5. \A j \in Ino : t[Table(j)] = IF Table(j) = Table(p) THEN a ELSE s[Table(j)]
    BY <2>3, Names DEF SameTables
  <2> QED BY <1>1, <2>4, <2>5 DEF a, WroteBoth
<1>2. CASE Table(p) # Table(q)
  <2> DEFINE a == [s[Table(p)] EXCEPT ![p] = old]
             c == [s[Table(q)] EXCEPT ![q] = new]
  <2>1. t = Overlay(u, << Wr(Table(p), a), Wr(Table(q), c) >>)
    BY <1>2 DEF PutInode
  <2>2. t = Put(Put(u, Table(p), a), Table(q), c)
    <3> HIDE DEF a, c
    <3> QED BY <2>1, OverlayPuts
  <2>3. Whole(t) /\ SameMaps(u, t) /\ SameDatas(u, t) /\ WroteInodes(s, t, p, old, q, new)
    BY <2>2, PutTables
  <2> QED BY <1>2, <2>3 DEF WroteBoth
<1> QED BY <1>1, <1>2

(* rename to another directory.                                            *)
XdirOld(s, p, dir) == IF dir THEN Relink(s, p, Fewer(Inode(s, p).links)) ELSE Inode(s, p)
XdirNew(s, q, dir) == IF dir THEN Relink(s, q, Inode(s, q).links + 1) ELSE Inode(s, q)
Carried(s, t, p, i, q, n, dir) ==
  /\ Whole(s) /\ p \in Ino /\ i \in Ino /\ q \in Ino
  /\ dir = (Inode(s, i).kind = "dir")
  /\ DirBlk(s, p) \in Blk /\ DirBlk(s, q) \in Blk /\ (dir => DirBlk(s, i) \in Blk)
  /\ t = Overlay(s, RenameXdirTx(s, p, i, q, n))
Arrived(s, t, p, i, q, n, dir) ==
  /\ Whole(t) /\ SameMaps(s, t)
  /\ WroteBoth(s, t, p, XdirOld(s, p, dir), q, XdirNew(s, q, dir))
  /\ \A c \in Blk : t[Data(c)] =
       IF dir /\ c = DirBlk(s, i) THEN DirBlock([Ents(s, i) EXCEPT ![2].ino = q])
       ELSE IF c = DirBlk(s, q) THEN DirBlock(Insert(Ents(s, q), i, n))
       ELSE IF c = DirBlk(s, p) THEN DirBlock(Remove(Ents(s, p), i)) ELSE s[Data(c)]

(* It leaves the entries of both parents, both inodes, and ".." of a       *)
(* directory that moves.                                                   *)
LEMMA XdirLeaves ==
  ASSUME NEW s, NEW t, NEW p, NEW i, NEW q, NEW n, NEW dir, Carried(s, t, p, i, q, n, dir)
  PROVE  Arrived(s, t, p, i, q, n, dir)
<1> USE DEF Carried
<1> DEFINE f == DirBlock(Remove(Ents(s, p), i))
           g == DirBlock(Insert(Ents(s, q), i, n))
           h == DirBlock([Ents(s, i) EXCEPT ![2].ino = q])
           old == XdirOld(s, p, dir)
           new == XdirNew(s, q, dir)
           A == << Wr(Data(DirBlk(s, p)), f), Wr(Data(DirBlk(s, q)), g) >>
           B == IF Table(p) = Table(q)
                THEN << Wr(Table(p), [s[Table(p)] EXCEPT ![p] = old, ![q] = new]) >>
                ELSE << PutInode(s, p, old), PutInode(s, q, new) >>
           C == IF dir THEN << Wr(Data(DirBlk(s, i)), h) >> ELSE << >>
           u == Overlay(s, A)
           v == Overlay(u, B)
<1>1. IsList(A) /\ IsList(B) /\ IsList(C)
  BY Lists
<1>2. t = Overlay(s, (A \o B) \o C)
  BY DEF RenameXdirTx, PutEnts, XdirOld, XdirNew
<1>3. t = Overlay(v, C)
  <2> HIDE DEF A, B, C
  <2>1. IsList(A \o B) /\ Overlay(s, A \o B) = v
    BY <1>1, ListsJoin
  <2> HIDE DEF u, v
  <2> QED BY <1>1, <1>2, <2>1, ListsJoin
<1>4. u = Put(Put(s, Data(DirBlk(s, p)), f), Data(DirBlk(s, q)), g)
  <2> HIDE DEF f, g
  <2> QED BY OverlayPuts
<1> HIDE DEF f, g, h, u
<1>5. /\ Whole(u) /\ SameMaps(s, u) /\ SameTables(s, u)
      /\ \A c \in Blk : u[Data(c)] = IF c = DirBlk(s, q) THEN g
                                     ELSE IF c = DirBlk(s, p) THEN f ELSE s[Data(c)]
  <2>1. /\ DOMAIN u = BlockName
        /\ \A x \in BlockName : u[x] = IF x = Data(DirBlk(s, q)) THEN g
                                       ELSE IF x = Data(DirBlk(s, p)) THEN f ELSE s[x]
    BY <1>4 DEF Put, Whole
  <2> QED BY <2>1, Names DEF Whole, SameMaps, SameTables
<1> HIDE DEF old, new
<1>6. Whole(v) /\ SameMaps(u, v) /\ SameDatas(u, v) /\ WroteBoth(s, v, p, old, q, new)
  BY <1>5, PutBoth
<1> HIDE DEF v
<1>7. /\ Whole(t) /\ SameMaps(v, t) /\ SameTables(v, t)
      /\ \A c \in Blk : t[Data(c)] = IF dir /\ c = DirBlk(s, i) THEN h ELSE v[Data(c)]
  <2>1. CASE dir
    <3>1. t = Put(v, Data(DirBlk(s, i)), h)
      BY <1>3, <2>1, OverlayPuts
    <3>2. Whole(t) /\ SameMaps(v, t) /\ SameTables(v, t) /\ WroteData(v, t, DirBlk(s, i), h)
      BY <1>6, <2>1, <3>1, PutData
    <3> QED BY <2>1, <3>2 DEF WroteData
  <2>2. CASE ~dir
    <3>1. t = Overlay(v, << >>)
      BY <1>3, <2>2
    <3>2. DOMAIN t = BlockName /\ \A x \in BlockName : t[x] = v[x]
      BY <1>6, <3>1 DEF Overlay, Writes, Whole
    <3>3. Whole(t) /\ SameMaps(v, t) /\ SameTables(v, t)
      BY <3>2, Names DEF Whole, SameMaps, SameTables
    <3>4. \A c \in Blk : t[Data(c)] = v[Data(c)]
      BY <3>2, Names
    <3> QED BY <2>2, <3>3, <3>4
  <2> QED BY <2>1, <2>2
<1>8. SameMaps(s, t)
  BY <1>5, <1>6, <1>7, ThenSameMaps
<1>9. WroteBoth(s, t, p, old, q, new)
  BY <1>6, <1>7 DEF WroteBoth, WroteInodes, SameTables
<1>10. \A c \in Blk : t[Data(c)] = IF dir /\ c = DirBlk(s, i) THEN h
              ELSE IF c = DirBlk(s, q) THEN g
              ELSE IF c = DirBlk(s, p) THEN f ELSE s[Data(c)]
  BY <1>5, <1>6, <1>7 DEF SameDatas
<1> QED BY <1>7, <1>8, <1>9, <1>10 DEF f, g, h, old, new, Arrived

(***************************************************************************)
(* Inodes and extents.                                                     *)
(***************************************************************************)
(* Where an inode is in the table.                                         *)
LEMMA TableFacts ==
  ASSUME NEW s, Tables(s)
  PROVE  /\ \A j \in Ino : j \in Beside(j) /\ Inode(s, j) \in Node
         /\ \A i, j \in Ino : Table(i) = Table(j) =>
              i \in Beside(j) /\ Beside(i) = Beside(j) /\ Inode(s, i) = s[Table(j)][i]
<1>1. \A i, j \in Ino : Table(i) = Table(j) => i \in Beside(j) /\ Beside(i) = Beside(j)
  BY DEF Beside
<1>2. \A j \in Ino : s[Table(j)] \in [Beside(j) -> Node]
  BY DEF Tables
<1> QED BY <1>1, <1>2 DEF Inode

(* One inode is another, the rest are as before.                           *)
LEMMA InodeWritten ==
  ASSUME NEW s, Tables(s), NEW i \in Ino, NEW rec \in Node, NEW t, WroteInode(s, t, i, rec)
  PROVE  Tables(t) /\ \A j \in Ino : Inode(t, j) = IF j = i THEN rec ELSE Inode(s, j)
<1>1. \A j \in Ino : Table(j) = Table(i) => j \in Beside(i) /\ Beside(j) = Beside(i)
  BY TableFacts
<1>2. s[Table(i)] \in [Beside(i) -> Node] /\ i \in Beside(i)
  BY TableFacts DEF Tables
<1>3. Tables(t)
  BY <1>1, <1>2 DEF Tables, WroteInode
<1>4. \A j \in Ino : Inode(t, j) = IF j = i THEN rec ELSE Inode(s, j)
  BY <1>1, <1>2 DEF Inode, WroteInode
<1> QED BY <1>3, <1>4

(* Two are, or in one block only the second.                               *)
LEMMA InodesWritten ==
  ASSUME NEW s, Tables(s), NEW i \in Ino, NEW p \in Ino, i # p, NEW old \in Node, NEW new \in Node,
         NEW t, WroteInodes(s, t, i, old, p, new)
  PROVE  /\ Tables(t)
         /\ \A j \in Ino : Inode(t, j) = IF j = p THEN new
                                         ELSE IF j = i /\ Table(i) # Table(p) THEN old
                                         ELSE Inode(s, j)
<1>1. \A j, k \in Ino : Table(j) = Table(k) => j \in Beside(k) /\ Beside(j) = Beside(k)
  BY TableFacts
<1>2. /\ s[Table(i)] \in [Beside(i) -> Node] /\ i \in Beside(i)
      /\ s[Table(p)] \in [Beside(p) -> Node] /\ p \in Beside(p)
  BY TableFacts DEF Tables
<1>3. Tables(t)
  BY <1>1, <1>2 DEF Tables, WroteInodes
<1>4. \A j \in Ino : Inode(t, j) = IF j = p THEN new
                                   ELSE IF j = i /\ Table(i) # Table(p) THEN old
                                   ELSE Inode(s, j)
  BY <1>1, <1>2 DEF Inode, WroteInodes
<1> QED BY <1>3, <1>4

(* Two are, whatever block they are in.                                    *)
LEMMA BothWritten ==
  ASSUME NEW s, Tables(s), NEW p \in Ino, NEW q \in Ino, p # q, NEW old \in Node, NEW new \in Node,
         NEW t, WroteBoth(s, t, p, old, q, new)
  PROVE  /\ Tables(t)
         /\ \A j \in Ino : Inode(t, j) = IF j = q THEN new ELSE IF j = p THEN old ELSE Inode(s, j)
<1>1. CASE Table(p) # Table(q)
  <2>1. WroteInodes(s, t, p, old, q, new)
    BY <1>1 DEF WroteBoth
  <2> QED BY <1>1, <2>1, InodesWritten
<1>2. CASE Table(p) = Table(q)
  <2>0. \A j \in Ino : t[Table(j)] = IF Table(j) = Table(p)
                                    THEN [s[Table(p)] EXCEPT ![p] = old, ![q] = new]
                                    ELSE s[Table(j)]
    BY <1>2 DEF WroteBoth
  <2>1. \A j, k \in Ino : Table(j) = Table(k) => j \in Beside(k) /\ Beside(j) = Beside(k)
    BY TableFacts
  <2>2. s[Table(p)] \in [Beside(p) -> Node] /\ p \in Beside(p) /\ q \in Beside(p)
    BY <1>2, TableFacts DEF Tables
  <2>3. Tables(t)
    BY <2>0, <2>1, <2>2 DEF Tables
  <2>4. \A j \in Ino : Inode(t, j) = IF j = q THEN new ELSE IF j = p THEN old ELSE Inode(s, j)
    BY <2>0, <2>1, <2>2, <1>2 DEF Inode
  <2> QED BY <2>3, <2>4
<1> QED BY <1>1, <1>2

(* The blocks an extent list counts.                                       *)
LEMMA CountedIs ==
  ASSUME NEW x \in Extents
  PROVE  /\ Len(x) \in Nat /\ DOMAIN x = 1 .. Len(x) /\ Len(x) <= MaxExt
         /\ \A k \in DOMAIN x : x[k] \in Extent
         /\ \A j, k \in DOMAIN x : j < k => x[j].lb + x[j].len <= x[k].lb
         /\ \A m : m \in Counted(x) <=>
              \E k \in DOMAIN x, j \in Nat :
                j < x[k].len /\ m = [lb |-> x[k].lb + j, pb |-> x[k].pb + j]
<1>1. x \in Seq(Extent) /\ Len(x) <= MaxExt /\ Ordered(x)
  BY DEF Extents
<1>2. Len(x) \in Nat /\ DOMAIN x = 1 .. Len(x) /\ \A k \in DOMAIN x : x[k] \in Extent
  BY <1>1
<1>3. \A e \in Extent : \A m : m \in Run(e, e.len) <=>
        \E j \in Nat : j < e.len /\ m = [lb |-> e.lb + j, pb |-> e.pb + j]
  <2> TAKE e \in Extent
  <2>1. e.len \in Nat
    BY DEF Extent
  <2> QED BY <2>1 DEF Run
<1>4. \A m : m \in Counted(x) <=> \E k \in DOMAIN x : m \in Run(x[k], x[k].len)
  BY DEF Counted, Range
<1> QED BY <1>1, <1>2, <1>3, <1>4 DEF Ordered

(* What a directory is: an inode in use with one block of entries, its own.*)
LEMMA FirstFacts ==
  ASSUME NEW s, Tables(s), NEW p \in Ino
  PROVE  /\ First(s, p) \subseteq Holds(s, p) \cap Blk
         /\ \A b, c \in First(s, p) : b = c
<1> DEFINE x == Inode(s, p).ext
<1>1. x \in Extents
  BY TableFacts DEF Node
<1>2. \A b : b \in First(s, p) => \E k \in DOMAIN x : b = x[k].pb /\ x[k].lb = 0
  BY DEF First
<1> HIDE DEF x
<1>3. \A k \in DOMAIN x : x[k] \in Extent /\ x[k].len \in Nat \ {0} /\ x[k].lb \in Nat /\ x[k].pb \in Blk
  BY <1>1, CountedIs DEF Extent
<1>4. \A k \in DOMAIN x : x[k].lb = 0 => [lb |-> 0, pb |-> x[k].pb] \in Counted(x)
  <2> SUFFICES ASSUME NEW k \in DOMAIN x, x[k].lb = 0
               PROVE  [lb |-> 0, pb |-> x[k].pb] \in Counted(x)
    OBVIOUS
  <2>1. 0 \in Nat /\ 0 < x[k].len /\ x[k].lb + 0 = 0 /\ x[k].pb + 0 = x[k].pb
    BY <1>3 DEF Blk
  <2>2. [lb |-> 0, pb |-> x[k].pb] = [lb |-> x[k].lb + 0, pb |-> x[k].pb + 0]
    BY <2>1
  <2> QED BY <1>1, <2>1, <2>2, CountedIs
<1>5. First(s, p) \subseteq Holds(s, p)
  <2>1. \A k \in DOMAIN x : x[k].lb = 0 => x[k].pb \in Claims(x)
    <3> SUFFICES ASSUME NEW k \in DOMAIN x, x[k].lb = 0 PROVE x[k].pb \in Claims(x)
      OBVIOUS
    <3>1. [lb |-> 0, pb |-> x[k].pb].pb = x[k].pb
      OBVIOUS
    <3> QED BY <3>1, <1>4 DEF Claims
  <2> QED BY <2>1, <1>2 DEF Holds, x
<1>6. First(s, p) \subseteq Blk
  BY <1>2, <1>3
<1>7. ASSUME NEW j \in DOMAIN x, NEW k \in DOMAIN x, x[j].lb = 0, x[k].lb = 0, j < k PROVE FALSE
  <2>1. x[j].lb + x[j].len <= x[k].lb
    BY <1>1, <1>7, CountedIs
  <2> QED BY <2>1, <1>3, <1>7
<1>8. \A j, k \in DOMAIN x : x[j].lb = 0 /\ x[k].lb = 0 => j = k
  <2>1. \A j \in DOMAIN x : j \in Nat
    BY <1>1, CountedIs
  <2> QED BY <2>1, <1>7
<1> QED BY <1>2, <1>5, <1>6, <1>8

(* A directory is in use, and its entries are records.                     *)
LEMMA DirFacts ==
  ASSUME NEW s, Blocks(s), NEW p \in Dirs(s)
  PROVE  /\ p \in Ino /\ p \in InUse(s) /\ Inode(s, p).kind = "dir" /\ IsDir(s, p)
         /\ DirBlk(s, p) \in First(s, p) /\ DirBlk(s, p) \in Blk /\ DirBlk(s, p) \in Holds(s, p)
         /\ First(s, p) = {DirBlk(s, p)}
         /\ s[Data(DirBlk(s, p))].kind = "dir"
         /\ Ents(s, p) \in [Slot -> Record] /\ Held(s)[p] = Ents(s, p)
<1>1. p \in Ino /\ IsDir(s, p)
  BY DEF Dirs
<1>2. p \in InUse(s) /\ Inode(s, p).kind = "dir"
  BY <1>1, Bits DEF IsDir, Blocks
<1>3. \E b \in First(s, p) : s[Data(b)].kind = "dir"
  BY <1>1 DEF IsDir
<1>4. DirBlk(s, p) \in First(s, p)
  BY <1>3 DEF DirBlk
<1>5. /\ First(s, p) \subseteq Holds(s, p) \cap Blk
      /\ \A b, c \in First(s, p) : b = c
  BY <1>1, FirstFacts DEF Blocks
<1>6. First(s, p) = {DirBlk(s, p)} /\ DirBlk(s, p) \in Blk /\ DirBlk(s, p) \in Holds(s, p)
  BY <1>4, <1>5
<1>7. s[Data(DirBlk(s, p))].kind = "dir"
  BY <1>3, <1>6
<1>8. s[Data(DirBlk(s, p))] \in Contents
  BY <1>6 DEF Blocks, Datas
<1>9. Ents(s, p) \in [Slot -> Record]
  BY <1>7, <1>8 DEF Contents, Ents
<1> QED BY <1>1, <1>2, <1>4, <1>6, <1>7, <1>9 DEF Held

(* Blocks a step changed: those of B, and the entries of some directories  *)
(* W; inodes whose use, kind or extents it changed: X.                     *)
Retold(s, t, X, B, W, G) ==
  /\ \A j \in Ino \ X : /\ j \in InUse(t) <=> j \in InUse(s)
                        /\ Inode(t, j).kind = Inode(s, j).kind
                        /\ Inode(t, j).ext = Inode(s, j).ext
  /\ \A j \in InUse(s) \ X : Holds(s, j) \cap B = {}
  /\ W \subseteq Dirs(s)
  /\ \A w \in W : t[Data(DirBlk(s, w))] = DirBlock(G[w])
  /\ \A b \in Blk \ B : (\A w \in W : b # DirBlk(s, w)) => t[Data(b)] = s[Data(b)]

(* Then directories are the same ones, and hold the same but for those of  *)
(* W.                                                                      *)
LEMMA DirsAfter ==
  ASSUME NEW s, Blocks(s), Owning(s), NEW t, Maps(t), NEW X, NEW B, NEW W, NEW G,
         Retold(s, t, X, B, W, G)
  PROVE  /\ \A j \in Ino \ X : IsDir(t, j) <=> IsDir(s, j)
         /\ \A j \in Dirs(s) \ X : Ents(t, j) = IF j \in W THEN G[j] ELSE Ents(s, j)
<1> SUFFICES ASSUME NEW j \in Ino \ X
             PROVE  /\ IsDir(t, j) <=> IsDir(s, j)
                    /\ j \in Dirs(s) => Ents(t, j) = IF j \in W THEN G[j] ELSE Ents(s, j)
  BY DirFacts
<1>1. First(t, j) = First(s, j) /\ DirBlk(t, j) = DirBlk(s, j)
  BY DEF Retold, First, DirBlk
<1>2. /\ j \in InUse(t) <=> j \in InUse(s)
      /\ j \in InUse(s) <=> j \in InoBits(s, InoGroup(j))
      /\ j \in InUse(t) <=> j \in InoBits(t, InoGroup(j))
      /\ Inode(t, j).kind = Inode(s, j).kind
  BY Bits DEF Retold, Blocks
<1>3. CASE j \notin InUse(s)
  BY <1>2, <1>3, DirFacts DEF IsDir
<1>4. CASE j \in InUse(s) /\ j \notin W
  <2>1. \A b \in First(s, j) : b \in Blk /\ b \in Holds(s, j) /\ b \notin B
    BY <1>4, FirstFacts DEF Retold, Blocks
  <2>2. \A w \in W : w \in Dirs(s) /\ w \in InUse(s) /\ DirBlk(s, w) \in Holds(s, w)
    BY DirFacts DEF Retold
  <2>3. \A b \in First(s, j) : \A w \in W : b # DirBlk(s, w)
    BY <1>4, <2>1, <2>2 DEF Owning
  <2>4. \A b \in First(s, j) : t[Data(b)] = s[Data(b)]
    BY <2>1, <2>3 DEF Retold
  <2>5. IsDir(t, j) <=> IsDir(s, j)
    BY <1>1, <1>2, <2>4 DEF IsDir
  <2>6. j \in Dirs(s) => Ents(t, j) = Ents(s, j)
    BY <1>1, <2>4, DirFacts DEF Ents
  <2> QED BY <1>4, <2>5, <2>6
<1>5. CASE j \in W
  <2>1. j \in Dirs(s) /\ t[Data(DirBlk(s, j))] = DirBlock(G[j])
    BY <1>5 DEF Retold
  <2>2. t[Data(DirBlk(s, j))].kind = "dir" /\ t[Data(DirBlk(s, j))].ents = G[j]
    BY <2>1 DEF DirBlock
  <2>3. IsDir(t, j) /\ IsDir(s, j)
    BY <1>1, <1>2, <2>1, <2>2, DirFacts DEF IsDir
  <2>4. Ents(t, j) = G[j]
    BY <1>1, <2>2 DEF Ents
  <2> QED BY <1>5, <2>3, <2>4
<1> QED BY <1>3, <1>4, <1>5

(* No block is in two places after a step that gave B, which was in none,  *)
(* to i at most.                                                           *)
Granted(s, t, i, B) ==
  /\ \A j \in InUse(t) \ {i} : j \in InUse(s) /\ Inode(t, j).ext = Inode(s, j).ext
  /\ i \in InUse(t) => /\ Once(Inode(t, i).ext)
                        /\ Holds(t, i) \subseteq (IF i \in InUse(s) THEN Holds(s, i) ELSE {}) \cup B
  /\ Meta \subseteq Taken(t) /\ B \cap Meta = {}
  /\ \A j \in InUse(s) : Holds(s, j) \cap B = {}

(* Then blocks are owned once as before.                                   *)
LEMMA OwningAfter ==
  ASSUME NEW s, Owning(s), NEW t, NEW i, NEW B, Granted(s, t, i, B)
  PROVE  Owning(t)
<1>1. \A j \in InUse(t) \ {i} : j \in InUse(s) /\ Once(Inode(t, j).ext) /\ Holds(t, j) = Holds(s, j)
  BY DEF Granted, Owning, Holds
<1>2. \A j \in InUse(t) : Once(Inode(t, j).ext) /\ Holds(t, j) \cap Meta = {}
  BY <1>1 DEF Granted, Owning
<1>3. \A j, k \in InUse(t) : j # k => Holds(t, j) \cap Holds(t, k) = {}
  <2> SUFFICES ASSUME NEW j \in InUse(t), NEW k \in InUse(t), j # k
               PROVE  Holds(t, j) \cap Holds(t, k) = {}
    OBVIOUS
  <2>1. CASE j # i /\ k # i
    BY <1>1, <2>1 DEF Owning
  <2>2. CASE j = i
    <3>1. k \in InUse(s) /\ Holds(t, k) = Holds(s, k) /\ Holds(s, k) \cap B = {}
      BY <1>1, <2>2 DEF Granted
    <3>2. i \in InUse(s) => Holds(s, i) \cap Holds(s, k) = {}
      BY <3>1, <2>2 DEF Owning
    <3> QED BY <2>2, <3>1, <3>2 DEF Granted
  <2>3. CASE k = i
    <3>1. j \in InUse(s) /\ Holds(t, j) = Holds(s, j) /\ Holds(s, j) \cap B = {}
      BY <1>1, <2>3 DEF Granted
    <3>2. i \in InUse(s) => Holds(s, i) \cap Holds(s, j) = {}
      BY <3>1, <2>3 DEF Owning
    <3> QED BY <2>3, <3>1, <3>2 DEF Granted
  <2> QED BY <2>1, <2>2, <2>3
<1> QED BY <1>2, <1>3 DEF Owning, Granted

(***************************************************************************)
(* Extent lists.                                                           *)
(***************************************************************************)
(* A function from the first numbers is a sequence.                        *)
LEMMA FirstNumbers ==
  ASSUME NEW n \in Nat, NEW S, NEW y \in [1 .. n -> S]
  PROVE  y \in Seq(S) /\ Len(y) = n /\ DOMAIN y = 1 .. n
  OBVIOUS

(* What a shorter file keeps is an extent list, of the blocks it had       *)
(* before its new end.                                                     *)
LEMMA KeptIs ==
  ASSUME NEW x \in Extents, NEW n \in Nat
  PROVE  /\ Kept(x, n) \in Extents
         /\ \A m : m \in Counted(Kept(x, n)) <=> m \in Counted(x) /\ m.lb < BlocksFor(n)
<1> DEFINE B == BlocksFor(n)
           keep == {k \in DOMAIN x : x[k].lb < B}
           y == Kept(x, n)
<1>1. B \in Nat
  <2>1. Unit \in Nat \ {0}
    BY Geometry
  <2>2. n + Unit - 1 \in Nat
    BY <2>1
  <2> QED BY <2>1, <2>2, Division DEF BlocksFor
<1>2. /\ Len(x) \in Nat /\ DOMAIN x = 1 .. Len(x) /\ Len(x) <= MaxExt
      /\ \A k \in DOMAIN x : x[k] \in Extent
      /\ \A j, k \in DOMAIN x : j < k => x[j].lb + x[j].len <= x[k].lb
  BY CountedIs
<1>3. \A k \in DOMAIN x : x[k].lb \in Nat /\ x[k].len \in Nat \ {0} /\ x[k].pb \in Nat
  BY <1>2 DEF Extent, Blk
<1>4. \A k \in DOMAIN y : y[k] = IF x[k].lb + x[k].len > B THEN [x[k] EXCEPT !.len = B - x[k].lb] ELSE x[k]
  BY DEF Kept, After
<1>5. DOMAIN y = keep
  BY DEF Kept
<1> HIDE DEF B, y
<1>6. PICK m \in Nat : keep = 1 .. m /\ m <= Len(x)
  <2>1. CASE keep = {}
    <3>1. keep = 1 .. 0
      BY <2>1
    <3> QED BY <3>1, <1>2
  <2>2. CASE keep # {}
    <3>1. keep \in SUBSET (0 .. Len(x))
      BY <1>2
    <3> HIDE DEF keep
    <3>2. PICK m \in keep : \A k \in keep : k <= m
      BY <1>2, <2>2, <3>1, GreatestExists
    <3> USE DEF keep
    <3>3. \A k \in 1 .. m : k \in keep
      <4> SUFFICES ASSUME NEW k \in 1 .. m, k # m PROVE k \in keep
        BY <3>2
      <4>1. k \in DOMAIN x /\ m \in DOMAIN x /\ k < m
        BY <1>2, <3>2
      <4>2. x[k].lb + x[k].len <= x[m].lb
        BY <1>2, <4>1
      <4> QED BY <1>1, <1>3, <3>2, <4>1, <4>2
    <3> QED BY <1>2, <3>2, <3>3
  <2> QED BY <2>1, <2>2
<1>7. \A k \in DOMAIN y : /\ k \in DOMAIN x /\ y[k] \in Extent
                         /\ y[k].lb = x[k].lb /\ y[k].pb = x[k].pb
                         /\ y[k].len <= x[k].len /\ y[k].lb + y[k].len <= B
  <2> SUFFICES ASSUME NEW k \in DOMAIN y
               PROVE  /\ k \in DOMAIN x /\ y[k] \in Extent
                      /\ y[k].lb = x[k].lb /\ y[k].pb = x[k].pb
                      /\ y[k].len <= x[k].len /\ y[k].lb + y[k].len <= B
    OBVIOUS
  <2>1. k \in DOMAIN x /\ x[k].lb < B /\ x[k] \in Extent
    BY <1>2, <1>5
  <2>2. CASE x[k].lb + x[k].len > B
    <3> DEFINE l == B - x[k].lb
    <3>1. l \in Nat \ {0} /\ l <= x[k].len /\ x[k].lb + l <= B
      BY <1>1, <1>3, <2>1, <2>2
    <3>2. y[k] = [x[k] EXCEPT !.len = l]
      BY <1>4, <2>2
    <3> HIDE DEF l
    <3>3. y[k] \in Extent /\ y[k].lb = x[k].lb /\ y[k].pb = x[k].pb /\ y[k].len = l
      BY <2>1, <3>1, <3>2 DEF Extent
    <3> QED BY <2>1, <3>1, <3>3
  <2>3. CASE ~(x[k].lb + x[k].len > B)
    <3>1. y[k] = x[k]
      BY <1>4, <2>3
    <3> QED BY <1>1, <1>3, <2>1, <2>3, <3>1
  <2> QED BY <2>2, <2>3
<1>8. y \in [1 .. m -> Extent]
  <2>1. y = [k \in keep |-> y[k]]
    BY DEF y, Kept, B
  <2> HIDE DEF keep
  <2> QED BY <2>1, <1>5, <1>6, <1>7
<1>9. y \in Seq(Extent) /\ Len(y) = m /\ DOMAIN y = 1 .. m
  BY <1>8, FirstNumbers
<1>10. Ordered(y)
  <2> SUFFICES ASSUME NEW j \in DOMAIN y, NEW k \in DOMAIN y, j < k
               PROVE  y[j].lb + y[j].len <= y[k].lb
    BY DEF Ordered
  <2>1. x[j].lb + x[j].len <= x[k].lb
    BY <1>2, <1>7
  <2>2. y[j].len \in Nat
    BY <1>7 DEF Extent
  <2> QED BY <1>3, <1>7, <2>1, <2>2
<1>11. y \in Extents
  <2>1. Len(y) <= MaxExt
    BY <1>2, <1>6, <1>9, Geometry
  <2> QED BY <1>9, <1>10, <2>1 DEF Extents
<1>12. ASSUME NEW c \in Counted(y) PROVE c \in Counted(x) /\ c.lb < B
  <2>1. PICK k \in DOMAIN y, j \in Nat : j < y[k].len /\ c = [lb |-> y[k].lb + j, pb |-> y[k].pb + j]
    BY <1>11, CountedIs
  <2>2. y[k].len \in Nat /\ y[k].lb \in Nat /\ k \in DOMAIN x /\ x[k].len \in Nat
    BY <1>3, <1>7 DEF Extent
  <2>3. j < x[k].len /\ c = [lb |-> x[k].lb + j, pb |-> x[k].pb + j]
    BY <1>7, <2>1, <2>2
  <2>4. c \in Counted(x)
    BY <2>2, <2>3, CountedIs
  <2>5. c.lb = y[k].lb + j
    BY <2>1
  <2>6. y[k].lb + j < B
    BY <1>1, <1>7, <2>1, <2>2
  <2> QED BY <2>4, <2>5, <2>6
<1>13. ASSUME NEW c \in Counted(x), c.lb < B PROVE c \in Counted(y)
  <2>1. PICK k \in DOMAIN x, j \in Nat : j < x[k].len /\ c = [lb |-> x[k].lb + j, pb |-> x[k].pb + j]
    BY CountedIs
  <2>2. x[k].lb \in Nat /\ x[k].len \in Nat /\ c.lb = x[k].lb + j
    BY <1>3, <2>1
  <2>3. x[k].lb < B /\ k \in DOMAIN y
    BY <1>1, <1>5, <1>13, <2>1, <2>2
  <2>4. j < y[k].len
    <3>1. CASE x[k].lb + x[k].len > B
      <4> DEFINE l == B - x[k].lb
      <4>1. y[k] = [x[k] EXCEPT !.len = l] /\ x[k] \in Extent
        BY <1>2, <1>4, <2>3, <3>1
      <4>2. j < l
        BY <1>1, <1>13, <2>1, <2>2
      <4> HIDE DEF l
      <4>3. y[k].len = l
        BY <4>1 DEF Extent
      <4> QED BY <4>2, <4>3
    <3>2. CASE ~(x[k].lb + x[k].len > B)
      BY <1>4, <2>1, <2>3, <3>2
    <3> QED BY <3>1, <3>2
  <2>5. c = [lb |-> y[k].lb + j, pb |-> y[k].pb + j]
    BY <1>7, <2>1, <2>3
  <2> QED BY <1>11, <2>3, <2>4, <2>5, CountedIs
<1> QED BY <1>11, <1>12, <1>13 DEF B, y

(* A file grows by one place, in the block that was found.                 *)
LEMMA GrownIs ==
  ASSUME NEW c, NEW x \in Extents, c.ext = x, NEW b \in Blk,
         Len(x) < MaxExt \/ b = Contig(c)
  PROVE  /\ Grown(x, c, b) \in Extents
         /\ \A m : m \in Counted(Grown(x, c, b)) <=>
              m \in Counted(x) \/ m = [lb |-> After(LastExt(c)), pb |-> b]
<1> DEFINE n == Len(x)
           y == Grown(x, c, b)
<1>1. /\ n \in Nat /\ DOMAIN x = 1 .. n /\ n <= MaxExt
      /\ \A k \in DOMAIN x : x[k] \in Extent
      /\ \A j, k \in DOMAIN x : j < k => x[j].lb + x[j].len <= x[k].lb
  BY CountedIs
<1>2. \A k \in DOMAIN x : x[k].lb \in Nat /\ x[k].len \in Nat \ {0} /\ x[k].pb \in Nat /\ x[k].pb \in Blk
  BY <1>1 DEF Extent, Blk
<1>3. b \in Nat /\ b # 0
  BY DEF Blk
<1>4. MaxExt \in Nat
  BY Geometry
<1>5. CASE b = Contig(c)
  <2>1. x # << >>
    <3>1. x = << >> => Contig(c) = 0
      BY DEF Contig, LastExt, NoExt
    <3> QED BY <3>1, <1>3, <1>5
  <2>2. n \in DOMAIN x /\ LastExt(c) = x[n]
    BY <1>1, <2>1 DEF LastExt
  <2>3. b = x[n].pb + x[n].len /\ After(LastExt(c)) = x[n].lb + x[n].len
    BY <1>5, <2>2 DEF Contig, After
  <2> DEFINE l == x[n].len + 1
  <2>4. y = [k \in DOMAIN x |-> IF k = n THEN [x[k] EXCEPT !.len = l] ELSE x[k]]
    BY <1>5 DEF Grown
  <2>5. l \in Nat \ {0} /\ l > x[n].len
    BY <1>2, <2>2
  <2>5a. \A j \in Nat : j < l <=> j < x[n].len \/ j = x[n].len
    BY <1>2, <2>2
  <2> HIDE DEF l, y, n
  <2>6. /\ DOMAIN y = 1 .. n /\ \A k \in 1 .. n : k # n => y[k] = x[k]
        /\ y[n] \in Extent /\ y[n].lb = x[n].lb /\ y[n].pb = x[n].pb /\ y[n].len = l
    BY <1>1, <2>2, <2>4, <2>5 DEF Extent
  <2>7. y \in [1 .. n -> Extent]
    BY <1>1, <2>4, <2>6
  <2>8. y \in Seq(Extent) /\ Len(y) = n
    BY <1>1, <2>7, FirstNumbers
  <2>9. Ordered(y)
    <3> SUFFICES ASSUME NEW j \in DOMAIN y, NEW k \in DOMAIN y, j < k
                 PROVE  y[j].lb + y[j].len <= y[k].lb
      BY DEF Ordered
    <3>1. j # n /\ y[j] = x[j] /\ y[k].lb = x[k].lb
      BY <1>1, <2>6
    <3> QED BY <3>1, <1>1, <2>6
  <2>10. y \in Extents
    BY <1>1, <2>8, <2>9 DEF Extents
  <2>11. ASSUME NEW m
         PROVE  m \in Counted(y) <=> m \in Counted(x) \/ m = [lb |-> After(LastExt(c)), pb |-> b]
    <3>1. m \in Counted(y) <=>
            \E k \in 1 .. n, j \in Nat : j < y[k].len /\ m = [lb |-> y[k].lb + j, pb |-> y[k].pb + j]
      <4>1. m \in Counted(y) <=>
              \E k \in DOMAIN y, j \in Nat :
                j < y[k].len /\ m = [lb |-> y[k].lb + j, pb |-> y[k].pb + j]
        BY <2>10, CountedIs
      <4>2. DOMAIN y = 1 .. n
        BY <2>6
      <4> QED BY <4>1, <4>2
    <3>2. m \in Counted(x) <=>
            \E k \in 1 .. n, j \in Nat : j < x[k].len /\ m = [lb |-> x[k].lb + j, pb |-> x[k].pb + j]
      BY <1>1, CountedIs
    <3>3. x[n].len \in Nat /\ n \in 1 .. n
      BY <1>1, <1>2, <2>2
    <3>4. ASSUME m \in Counted(y)
          PROVE  m \in Counted(x) \/ m = [lb |-> After(LastExt(c)), pb |-> b]
      <4>1. PICK k \in 1 .. n, j \in Nat : j < y[k].len /\ m = [lb |-> y[k].lb + j, pb |-> y[k].pb + j]
        BY <3>1, <3>4
      <4>2. CASE k # n
        <5>1. j < x[k].len /\ m = [lb |-> x[k].lb + j, pb |-> x[k].pb + j]
          BY <2>6, <4>1, <4>2
        <5> QED BY <3>2, <5>1
      <4>3. CASE k = n
        <5>1. j < l /\ m = [lb |-> x[n].lb + j, pb |-> x[n].pb + j]
          BY <2>6, <4>1, <4>3
        <5>2. CASE j < x[n].len
          BY <3>2, <3>3, <5>1, <5>2
        <5>3. CASE j = x[n].len
          BY <2>3, <5>1, <5>3
        <5> QED BY <2>5a, <5>1, <5>2, <5>3
      <4> QED BY <4>2, <4>3
    <3>5. ASSUME m \in Counted(x) PROVE m \in Counted(y)
      <4>1. PICK k \in 1 .. n, j \in Nat : j < x[k].len /\ m = [lb |-> x[k].lb + j, pb |-> x[k].pb + j]
        BY <3>2, <3>5
      <4>2. y[k].lb = x[k].lb /\ y[k].pb = x[k].pb /\ j < y[k].len
        BY <2>5a, <2>6, <4>1
      <4> QED BY <3>1, <4>1, <4>2
    <3>6. ASSUME m = [lb |-> After(LastExt(c)), pb |-> b] PROVE m \in Counted(y)
      <4> DEFINE j == x[n].len
      <4>1. j \in Nat /\ j < l
        BY <2>5a, <3>3
      <4>2. m = [lb |-> y[n].lb + j, pb |-> y[n].pb + j]
        BY <2>3, <2>6, <3>6
      <4> QED BY <2>6, <3>1, <3>3, <4>1, <4>2
    <3> QED BY <3>4, <3>5, <3>6
  <2> QED BY <2>10, <2>11 DEF y
<1>6. CASE b # Contig(c)
  <2> DEFINE n1 == n + 1
             e == [lb |-> After(LastExt(c)), len |-> 1, pb |-> b]
  <2>1. n1 \in Nat /\ n1 <= MaxExt /\ n1 > n /\ n1 # n /\ \A k \in 1 .. n1 : k # n1 => k \in 1 .. n /\ k <= n
    <3>1. n \in Nat /\ n < MaxExt
      BY <1>1, <1>6
    <3> HIDE DEF n
    <3> QED BY <1>4, <3>1
  <2>1a. \A k \in 1 .. n : k \in 1 .. n1 /\ k # n1 /\ k <= n
    BY <1>1
  <2>2. After(LastExt(c)) \in Nat /\ \A j \in DOMAIN x : x[j].lb + x[j].len <= After(LastExt(c))
    <3>1. CASE x = << >>
      BY <3>1 DEF LastExt, NoExt, After
    <3>2. CASE x # << >>
      <4>1. n \in DOMAIN x /\ LastExt(c) = x[n]
        BY <1>1, <3>2 DEF LastExt
      <4>2. \A j \in DOMAIN x : j # n => x[j].lb + x[j].len <= x[n].lb
        BY <1>1, <4>1
      <4> QED BY <1>2, <4>1, <4>2 DEF After
    <3> QED BY <3>1, <3>2
  <2>3. y = [j \in 1 .. n1 |-> IF j = n1 THEN e ELSE IF j <= n THEN x[j] ELSE NoExt]
    BY <1>6 DEF Grown, SetExt
  <2>4. e \in Extent /\ e.lb = After(LastExt(c)) /\ e.len = 1 /\ e.pb = b
    BY <2>2 DEF Extent
  <2> HIDE DEF n1, e, y, n
  <2>5. /\ DOMAIN y = 1 .. n1 /\ n1 \in 1 .. n1 /\ y[n1] = e
        /\ \A k \in 1 .. n : y[k] = x[k] /\ y[k] \in Extent
    BY <1>1, <2>1, <2>1a, <2>3
  <2>6. y \in [1 .. n1 -> Extent]
    BY <2>1, <2>3, <2>4, <2>5
  <2>7. y \in Seq(Extent) /\ Len(y) = n1
    BY <2>1, <2>6, FirstNumbers
  <2>8. Ordered(y)
    <3> SUFFICES ASSUME NEW j \in DOMAIN y, NEW k \in DOMAIN y, j < k
                 PROVE  y[j].lb + y[j].len <= y[k].lb
      BY DEF Ordered
    <3>1. j # n1 /\ j \in 1 .. n /\ y[j] = x[j]
      BY <2>1, <2>5
    <3>2. CASE k = n1
      BY <1>1, <2>2, <2>4, <2>5, <3>1, <3>2
    <3>3. CASE k # n1
      BY <1>1, <2>1, <2>5, <3>1, <3>3
    <3> QED BY <3>2, <3>3
  <2>9. y \in Extents
    BY <2>1, <2>7, <2>8 DEF Extents
  <2>10. ASSUME NEW m
         PROVE  m \in Counted(y) <=> m \in Counted(x) \/ m = [lb |-> After(LastExt(c)), pb |-> b]
    <3>1. m \in Counted(y) <=>
            \E k \in 1 .. n1, j \in Nat : j < y[k].len /\ m = [lb |-> y[k].lb + j, pb |-> y[k].pb + j]
      BY <2>5, <2>9, CountedIs
    <3>2. m \in Counted(x) <=>
            \E k \in 1 .. n, j \in Nat : j < x[k].len /\ m = [lb |-> x[k].lb + j, pb |-> x[k].pb + j]
      BY <1>1, CountedIs
    <3>3. \A j \in Nat : j < e.len => j = 0
      BY <2>4
    <3>4. /\ [lb |-> e.lb + 0, pb |-> e.pb + 0] = [lb |-> After(LastExt(c)), pb |-> b]
          /\ 0 \in Nat /\ 0 < e.len
      BY <1>3, <2>2, <2>4
    <3>5. m \in Counted(x) => m \in Counted(y)
      BY <2>1a, <2>5, <3>1, <3>2
    <3>6. m = [lb |-> e.lb + 0, pb |-> e.pb + 0] => m \in Counted(y)
      BY <2>5, <3>1, <3>4
    <3>7. ASSUME m \in Counted(y) PROVE m \in Counted(x) \/ m = [lb |-> e.lb + 0, pb |-> e.pb + 0]
      <4>1. PICK k \in 1 .. n1, j \in Nat : j < y[k].len /\ m = [lb |-> y[k].lb + j, pb |-> y[k].pb + j]
        BY <3>1, <3>7
      <4>2. CASE k = n1
        BY <2>5, <3>3, <4>1, <4>2
      <4>3. CASE k # n1
        BY <2>1, <2>5, <3>2, <4>1, <4>3
      <4> QED BY <4>2, <4>3
    <3> QED BY <3>4, <3>5, <3>6, <3>7
  <2> QED BY <2>9, <2>10 DEF y
<1> QED BY <1>5, <1>6

(***************************************************************************)
(* The tree of names: what each operation may do to it, the way up from a  *)
(* directory, the slots of a directory block, what a program is told; and  *)
(* that every transaction of every operation leaves a sound volume.        *)
(***************************************************************************)

(***************************************************************************)
(* What the operations do to the tree of names.                            *)
(***************************************************************************)
(* Slots and the numbers that stand for nothing.                           *)
LEMMA SlotFacts ==
  /\ 1 \in Slot /\ 2 \in Slot /\ Places \subseteq Slot /\ 1 \notin Places /\ 2 \notin Places
  /\ \A k \in Slot : k \in Places \/ k = 1 \/ k = 2
  /\ Slot \subseteq Nat /\ 0 \notin Ino /\ Ino \subseteq Nat
  BY Geometry DEF Slot, Places, Ino

(* The entry of a record.                                                  *)
LEMMA EntryFields ==
  /\ \A i, n : Entry(i, n).ino = i /\ Entry(i, n).name = n
  /\ NoEntry.ino = 0
  BY DEF Entry, NoEntry

(* A program's names are not the two that every directory has.             *)
LEMMA PlainNames == \A n \in Name : n # "." /\ n # ".."
  BY Zenon, ImageAssumption

(* The tree before an operation, a slot of it that is vacant or in use, and *)
(* what each operation changes.                                            *)
TreeOn(D, E, F, L) == D \in SUBSET Ino /\ F \in SUBSET Ino /\ TreeOf(D, E, F, L)
NewName(E, p, n) == n \in Name /\ \A l \in Places : E[p][l].ino # 0 => E[p][l].name # n
Vacant(D, E, p, k, n) == p \in D /\ k \in Places /\ E[p][k].ino = 0 /\ NewName(E, p, n)
Occupied(D, E, p, k, i) == p \in D /\ k \in Places /\ E[p][k].ino = i /\ i # 0

FileNaming(D, E, F, L, p, k, i, n, E1, L1) ==
  /\ TreeOn(D, E, F, L) /\ Vacant(D, E, p, k, n) /\ i \in Ino \ (D \cup F)
  /\ \A q \in D : \A l \in Slot : E1[q][l] = IF q = p /\ l = k THEN Entry(i, n) ELSE E[q][l]
  /\ L1[i] = 1 /\ \A j \in D \cup F : L1[j] = L[j]

DirectoryNaming(D, E, F, L, p, k, i, n, E1, L1) ==
  /\ TreeOn(D, E, F, L) /\ Vacant(D, E, p, k, n) /\ i \in Ino \ (D \cup F)
  /\ \A q \in D : \A l \in Slot : E1[q][l] = IF q = p /\ l = k THEN Entry(i, n) ELSE E[q][l]
  /\ E1[i][1] = Entry(i, ".") /\ E1[i][2] = Entry(p, "..") /\ \A l \in Places : E1[i][l].ino = 0
  /\ L1[i] = 2 /\ L1[p] = L[p] + 1 /\ \A j \in (D \cup F) \ {p} : L1[j] = L[j]

FileDropping(D, E, F, L, p, k, i, E1, L1) ==
  /\ TreeOn(D, E, F, L) /\ Occupied(D, E, p, k, i) /\ i \in F \ D
  /\ \A q \in D : \A l \in Slot : E1[q][l] = IF q = p /\ l = k THEN NoEntry ELSE E[q][l]
  /\ \A j \in (D \cup F) \ {i} : L1[j] = L[j]

DirectoryDropping(D, E, F, L, p, k, i, E1, L1) ==
  /\ TreeOn(D, E, F, L) /\ Occupied(D, E, p, k, i) /\ i \in D
  /\ \A l \in Places : E[i][l].ino = 0
  /\ \A q \in D \ {i} : \A l \in Slot :
       E1[q][l] = IF q = p /\ l = k THEN NoEntry ELSE E[q][l]
  /\ L1[p] = L[p] - 1 /\ \A j \in (D \cup F) \ {i, p} : L1[j] = L[j]

EntryRenaming(D, E, F, L, p, k, i, n, E1, L1) ==
  /\ TreeOn(D, E, F, L) /\ Occupied(D, E, p, k, i) /\ NewName(E, p, n)
  /\ \A q \in D : \A l \in Slot : E1[q][l] = IF q = p /\ l = k THEN Entry(i, n) ELSE E[q][l]
  /\ \A j \in D \cup F : L1[j] = L[j]

EntryMoving(D, E, F, L, p, k, i, q, m, n, E1) ==
  /\ TreeOn(D, E, F, L) /\ Occupied(D, E, p, k, i) /\ Vacant(D, E, q, m, n) /\ p # q
  /\ \A r \in D : \A l \in Places :
       E1[r][l] = IF r = p /\ l = k THEN NoEntry
                  ELSE IF r = q /\ l = m THEN Entry(i, n) ELSE E[r][l]

FileMoving(D, E, F, L, p, k, i, q, m, n, E1, L1) ==
  /\ EntryMoving(D, E, F, L, p, k, i, q, m, n, E1) /\ i \in F \ D
  /\ \A r \in D : E1[r][1] = E[r][1] /\ E1[r][2] = E[r][2]
  /\ \A j \in D \cup F : L1[j] = L[j]

DirectoryMoving(D, E, F, L, p, k, i, q, m, n, E1, L1) ==
  /\ EntryMoving(D, E, F, L, p, k, i, q, m, n, E1) /\ i \in D \ {q}
  /\ \A r \in D : E1[r][1] = E[r][1] /\ E1[r][2] = IF r = i THEN Entry(q, "..") ELSE E[r][2]
  /\ L1[p] = L[p] - 1 /\ L1[q] = L[q] + 1 /\ \A j \in (D \cup F) \ {p, q} : L1[j] = L[j]
  /\ LeadUp(D, E1)

(* A new file is named in a directory.                                     *)
LEMMA FileIsNamed ==
  ASSUME NEW D, NEW E, NEW F, NEW L, NEW p, NEW k, NEW i, NEW n, NEW E1, NEW L1,
         FileNaming(D, E, F, L, p, k, i, n, E1, L1)
  PROVE  TreeOf(D, E1, F \cup {i}, L1)
<1> USE DEF FileNaming, TreeOn, Vacant, Occupied, NewName
<1>1. /\ \A q \in D : E1[q][1] = E[q][1] /\ E1[q][2] = E[q][2]
      /\ \A q \in D : \A l \in Places : (q = p /\ l = k) \/ E1[q][l] = E[q][l]
      /\ E1[p][k] = Entry(i, n) /\ i # 0
  BY SlotFacts
<1>2. Shape(D, E1, F \cup {i})
  BY <1>1, EntryFields DEF TreeOf, Shape
<1>3. \A q \in D : \A l \in Places : E[q][l].ino # 0 => E[q][l].ino # i
  BY DEF TreeOf, Shape
<1>4. Unique(D, E1)
  <2> SUFFICES ASSUME NEW q \in D, NEW r \in D, NEW l \in Places, NEW m \in Places,
                      E1[q][l].ino # 0, E1[r][m].ino # 0,
                      E1[q][l].ino = E1[r][m].ino \/ (q = r /\ E1[q][l].name = E1[r][m].name)
               PROVE  q = r /\ l = m
    BY DEF Unique
  <2>1. CASE q = p /\ l = k
    BY <2>1, <1>1, <1>3, EntryFields
  <2>2. CASE r = p /\ m = k
    BY <2>2, <1>1, <1>3, EntryFields
  <2>3. CASE ~(q = p /\ l = k) /\ ~(r = p /\ m = k)
    <3>1. E1[q][l] = E[q][l] /\ E1[r][m] = E[r][m]
      BY <2>3, <1>1
    <3>2. E[q][l].ino # 0 /\ E[r][m].ino # 0
      BY <3>1
    <3>3. E[q][l].ino = E[r][m].ino \/ (q = r /\ E[q][l].name = E[r][m].name)
      BY <3>1
    <3> QED BY <3>2, <3>3 DEF TreeOf, Unique
  <2> QED BY <2>1, <2>2, <2>3
<1>5. Parents(D, E1)
  <2>1. \A c \in D \ {Root} : \E l \in Places : E1[E1[c][2].ino][l].ino = c
    <3> TAKE c \in D \ {Root}
    <3>1. E[c][2].ino \in D
      BY DEF TreeOf, Shape
    <3>2. PICK l \in Places : E[E[c][2].ino][l].ino = c
      BY DEF TreeOf, Parents
    <3>3. c # 0
      BY SlotFacts
    <3> QED BY <3>1, <3>2, <3>3, <1>1
  <2> QED BY <2>1, <1>1 DEF TreeOf, Parents, Shape
<1>6. LeadUp(D, E1) /\ \A q : Under(D, E1, q) = Under(D, E, q)
  <2>1. LeadUp(D, E) /\ \A q \in D : E1[q][2].ino = E[q][2].ino
    BY <1>1 DEF TreeOf
  <2> QED BY <2>1 DEF LeadUp, Under
<1>7. Linked(D, E1, F \cup {i}, L1)
  BY <1>6 DEF TreeOf, Linked
<1> QED BY <1>2, <1>4, <1>5, <1>6, <1>7 DEF TreeOf

(* A new directory is named in a directory.                                *)
LEMMA DirectoryNamed ==
  ASSUME NEW D, NEW E, NEW F, NEW L, NEW p, NEW k, NEW i, NEW n, NEW E1, NEW L1,
         DirectoryNaming(D, E, F, L, p, k, i, n, E1, L1)
  PROVE  TreeOf(D \cup {i}, E1, F, L1)
<1> USE DEF DirectoryNaming, TreeOn, Vacant, Occupied, NewName
<1> DEFINE D1 == D \cup {i}
<1>1. /\ \A q \in D : E1[q][1] = E[q][1] /\ E1[q][2] = E[q][2]
      /\ \A q \in D : \A l \in Places : (q = p /\ l = k) \/ E1[q][l] = E[q][l]
      /\ E1[p][k] = Entry(i, n) /\ i # 0 /\ p # i
  BY SlotFacts
<1>2. Root \in D /\ i # Root
  BY DEF TreeOf, Shape
<1>3. Shape(D1, E1, F)
  <2>1. ASSUME NEW q \in D
        PROVE  /\ E1[q][1] = Entry(q, ".")
               /\ E1[q][2].name = ".." /\ E1[q][2].ino \in D1
               /\ \A l \in Places : E1[q][l].ino # 0 =>
                    E1[q][l].name \in Name /\ E1[q][l].ino \in (D1 \cup F) \ {Root}
    BY <1>1, <1>2, EntryFields DEF TreeOf, Shape
  <2>2. /\ E1[i][1] = Entry(i, ".")
        /\ E1[i][2].name = ".." /\ E1[i][2].ino \in D1
        /\ \A l \in Places : E1[i][l].ino # 0 =>
             E1[i][l].name \in Name /\ E1[i][l].ino \in (D1 \cup F) \ {Root}
    BY EntryFields
  <2> QED BY <1>2, <2>1, <2>2 DEF Shape
<1>4. \A q \in D : \A l \in Places : E[q][l].ino # 0 => E[q][l].ino # i
  BY DEF TreeOf, Shape
<1>5. Unique(D1, E1)
  <2> SUFFICES ASSUME NEW q \in D1, NEW r \in D1, NEW l \in Places, NEW m \in Places,
                      E1[q][l].ino # 0, E1[r][m].ino # 0,
                      E1[q][l].ino = E1[r][m].ino \/ (q = r /\ E1[q][l].name = E1[r][m].name)
               PROVE  q = r /\ l = m
    BY DEF Unique
  <2>0. q \in D /\ r \in D
    OBVIOUS
  <2>1. CASE q = p /\ l = k
    BY <2>0, <2>1, <1>1, <1>4, EntryFields
  <2>2. CASE r = p /\ m = k
    BY <2>0, <2>2, <1>1, <1>4, EntryFields
  <2>3. CASE ~(q = p /\ l = k) /\ ~(r = p /\ m = k)
    <3>1. E1[q][l] = E[q][l] /\ E1[r][m] = E[r][m]
      BY <2>0, <2>3, <1>1
    <3>2. E[q][l].ino # 0 /\ E[r][m].ino # 0
      BY <3>1
    <3>3. E[q][l].ino = E[r][m].ino \/ (q = r /\ E[q][l].name = E[r][m].name)
      BY <3>1
    <3> QED BY <2>0, <3>2, <3>3 DEF TreeOf, Unique
  <2> QED BY <2>1, <2>2, <2>3
<1>6. Parents(D1, E1)
  <2>1. \A c \in D \ {Root} : \E l \in Places : E1[E1[c][2].ino][l].ino = c
    <3> TAKE c \in D \ {Root}
    <3>1. E[c][2].ino \in D
      BY DEF TreeOf, Shape
    <3>2. PICK l \in Places : E[E[c][2].ino][l].ino = c
      BY DEF TreeOf, Parents
    <3>3. c # 0
      BY SlotFacts
    <3> QED BY <3>1, <3>2, <3>3, <1>1
  <2>2. E1[E1[i][2].ino][k].ino = i
    BY <1>1, EntryFields
  <2> QED BY <2>1, <2>2, <1>1, <1>2 DEF TreeOf, Parents
<1>7. LeadUp(D1, E1)
  <2> SUFFICES ASSUME NEW S \in SUBSET D1, S # {}, \A q \in S \ {Root} : E1[q][2].ino \in S
               PROVE  Root \in S
    BY DEF LeadUp
  <2>1. i \in S => p \in S
    BY <1>2, EntryFields
  <2>2. S \ {i} \in SUBSET D /\ S \ {i} # {}
    BY <2>1, <1>1
  <2>3. \A q \in (S \ {i}) \ {Root} : E[q][2].ino \in S \ {i}
    BY <1>1 DEF TreeOf, Shape
  <2> QED BY <2>2, <2>3 DEF TreeOf, LeadUp
<1>8. Linked(D1, E1, F, L1)
  <2>1. Under(D1, E1, p) = Under(D, E, p) \cup {i} /\ i \notin Under(D, E, p)
    BY <1>1, <1>2, EntryFields DEF Under
  <2>2. \A q \in D \ {p} : Under(D1, E1, q) = Under(D, E, q)
    BY <1>1, <1>2, EntryFields DEF Under
  <2>3. Under(D1, E1, i) = {}
    <3>1. \A c \in D : E[c][2].ino \in D
      BY DEF TreeOf, Shape
    <3> QED BY <3>1, <1>1, EntryFields DEF Under
  <2>4. IsFiniteSet(Under(D, E, p))
    BY Finite, FS_Subset DEF Under
  <2>5. Cardinality(Under(D1, E1, p)) = Cardinality(Under(D, E, p)) + 1
    <3> DEFINE U == Under(D, E, p)
               U1 == Under(D1, E1, p)
    <3>1. IsFiniteSet(U) /\ i \notin U /\ U1 = U \cup {i}
      BY <2>1, <2>4
    <3> HIDE DEF U, U1
    <3>2. Cardinality(U1) = Cardinality(U) + 1
      BY <3>1, FS_AddElement
    <3> QED BY <3>2 DEF U, U1
  <2>6. Cardinality(Under(D, E, p)) \in Nat
    BY <2>4, FS_CardinalityType
  <2>7. L1[p] = 2 + Cardinality(Under(D1, E1, p))
    BY <2>5, <2>6 DEF TreeOf, Linked
  <2>8. L1[i] = 2 + Cardinality(Under(D1, E1, i))
    <3>1. Cardinality(Under(D1, E1, i)) = 0
      BY <2>3, FS_EmptySet
    <3> QED BY <3>1
  <2>9. \A q \in D \ {p} : L1[q] = 2 + Cardinality(Under(D1, E1, q))
    BY <2>2 DEF TreeOf, Linked
  <2>10. \A j \in F : L1[j] = 1
    <3>1. ASSUME p \in F PROVE FALSE
      <4>1. L[p] = 1 /\ L[p] = 2 + Cardinality(Under(D, E, p))
        BY <3>1 DEF TreeOf, Linked
      <4> QED BY <4>1, <2>6
    <3> QED BY <3>1 DEF TreeOf, Linked
  <2> QED BY <2>7, <2>8, <2>9, <2>10 DEF Linked
<1> QED BY <1>3, <1>5, <1>6, <1>7, <1>8 DEF TreeOf

(* A directory's ".." leads to the one that names it.                      *)
LEMMA NamedByParent ==
  ASSUME NEW D, NEW E, NEW F, NEW L, NEW p, NEW k, NEW i,
         TreeOn(D, E, F, L), Occupied(D, E, p, k, i), i \in D
  PROVE  /\ i # Root /\ E[i][2].ino = p /\ p # i
         /\ p # Root => E[p][2].ino # i
<1> USE DEF TreeOn, Occupied
<1>0. i # 0
  BY SlotFacts
<1>1. i # Root
  BY <1>0 DEF TreeOf, Shape
<1>2. E[i][2].ino \in D /\ p \in Ino
  BY DEF TreeOf, Shape
<1>3. PICK l \in Places : E[E[i][2].ino][l].ino = i
  BY <1>1 DEF TreeOf, Parents
<1>4. E[i][2].ino = p
  BY <1>0, <1>2, <1>3 DEF TreeOf, Unique
<1>5. ASSUME p = i PROVE FALSE
  <2>1. {i} \in SUBSET D /\ {i} # {} /\ \A r \in {i} \ {Root} : E[r][2].ino \in {i}
    BY <1>4, <1>5
  <2>2. Root \in {i}
    BY <2>1 DEF TreeOf, LeadUp
  <2> QED BY <2>2, <1>1
<1>6. ASSUME p # Root, E[p][2].ino = i PROVE FALSE
  <2>1. {i, p} \in SUBSET D /\ {i, p} # {} /\ \A r \in {i, p} \ {Root} : E[r][2].ino \in {i, p}
    BY <1>4, <1>6
  <2>2. Root \in {i, p}
    BY <2>1 DEF TreeOf, LeadUp
  <2> QED BY <2>2, <1>1, <1>6
<1> QED BY <1>1, <1>4, <1>5, <1>6

(* A file loses its name.                                                  *)
LEMMA FileDropped ==
  ASSUME NEW D, NEW E, NEW F, NEW L, NEW p, NEW k, NEW i, NEW E1, NEW L1,
         FileDropping(D, E, F, L, p, k, i, E1, L1)
  PROVE  TreeOf(D, E1, F \ {i}, L1)
<1> USE DEF FileDropping, TreeOn, Vacant, Occupied, NewName
<1>1. /\ \A q \in D : E1[q][1] = E[q][1] /\ E1[q][2] = E[q][2]
      /\ \A q \in D : \A l \in Places : (q = p /\ l = k) \/ E1[q][l] = E[q][l]
      /\ E1[p][k].ino = 0 /\ i # 0
  BY SlotFacts, EntryFields
<1>2. \A q \in D : \A l \in Places : E[q][l].ino = i => q = p /\ l = k
  BY <1>1 DEF TreeOf, Unique
<1>3. Shape(D, E1, F \ {i})
  BY <1>1, <1>2 DEF TreeOf, Shape
<1>4. Unique(D, E1)
  <2> SUFFICES ASSUME NEW q \in D, NEW r \in D, NEW l \in Places, NEW m \in Places,
                      E1[q][l].ino # 0, E1[r][m].ino # 0,
                      E1[q][l].ino = E1[r][m].ino \/ (q = r /\ E1[q][l].name = E1[r][m].name)
               PROVE  q = r /\ l = m
    BY DEF Unique
  <2>1. E1[q][l] = E[q][l] /\ E1[r][m] = E[r][m]
    BY <1>1
  <2>2. E[q][l].ino # 0 /\ E[r][m].ino # 0
    BY <2>1
  <2>3. E[q][l].ino = E[r][m].ino \/ (q = r /\ E[q][l].name = E[r][m].name)
    BY <2>1
  <2> QED BY <2>2, <2>3 DEF TreeOf, Unique
<1>5. Parents(D, E1)
  <2>1. \A c \in D \ {Root} : \E l \in Places : E1[E1[c][2].ino][l].ino = c
    <3> TAKE c \in D \ {Root}
    <3>1. E[c][2].ino \in D
      BY DEF TreeOf, Shape
    <3>2. PICK l \in Places : E[E[c][2].ino][l].ino = c
      BY DEF TreeOf, Parents
    <3> QED BY <3>1, <3>2, <1>1
  <2> QED BY <2>1, <1>1 DEF TreeOf, Parents, Shape
<1>6. LeadUp(D, E1) /\ \A q : Under(D, E1, q) = Under(D, E, q)
  <2>1. LeadUp(D, E) /\ \A q \in D : E1[q][2].ino = E[q][2].ino
    BY <1>1 DEF TreeOf
  <2> QED BY <2>1 DEF LeadUp, Under
<1>7. Linked(D, E1, F \ {i}, L1)
  BY <1>6 DEF TreeOf, Linked
<1> QED BY <1>3, <1>4, <1>5, <1>6, <1>7 DEF TreeOf

(* An empty directory loses its name.                                      *)
LEMMA DirectoryDropped ==
  ASSUME NEW D, NEW E, NEW F, NEW L, NEW p, NEW k, NEW i, NEW E1, NEW L1,
         DirectoryDropping(D, E, F, L, p, k, i, E1, L1)
  PROVE  TreeOf(D \ {i}, E1, F, L1)
<1>0. i # Root /\ E[i][2].ino = p /\ p # i /\ i # 0
  BY NamedByParent DEF DirectoryDropping, Occupied
<1> USE DEF DirectoryDropping, TreeOn, Vacant, Occupied, NewName
<1> DEFINE D1 == D \ {i}
<1>1. /\ \A q \in D1 : E1[q][1] = E[q][1] /\ E1[q][2] = E[q][2]
      /\ \A q \in D1 : \A l \in Places : (q = p /\ l = k) \/ E1[q][l] = E[q][l]
      /\ E1[p][k].ino = 0
  BY <1>0, SlotFacts, EntryFields
<1>2. \A q \in D : \A l \in Places : E[q][l].ino = i => q = p /\ l = k
  BY <1>0 DEF TreeOf, Unique
<1>3. \A q \in D1 : E[q][2].ino # i
  <2> SUFFICES ASSUME NEW q \in D1, E[q][2].ino = i PROVE FALSE
    OBVIOUS
  <2>1. q # Root
    BY <1>0 DEF TreeOf, Parents
  <2>2. PICK l \in Places : E[i][l].ino = q
    BY <2>1 DEF TreeOf, Parents
  <2> QED BY <2>2, SlotFacts
<1>4. Shape(D1, E1, F)
  <2>1. Root \in D1
    BY <1>0 DEF TreeOf, Shape
  <2>2. ASSUME NEW q \in D1
        PROVE  /\ E1[q][1] = Entry(q, ".")
               /\ E1[q][2].name = ".." /\ E1[q][2].ino \in D1
               /\ \A l \in Places : E1[q][l].ino # 0 =>
                    E1[q][l].name \in Name /\ E1[q][l].ino \in (D1 \cup F) \ {Root}
    BY <1>1, <1>2, <1>3 DEF TreeOf, Shape
  <2> QED BY <2>1, <2>2 DEF Shape
<1>5. Unique(D1, E1)
  <2> SUFFICES ASSUME NEW q \in D1, NEW r \in D1, NEW l \in Places, NEW m \in Places,
                      E1[q][l].ino # 0, E1[r][m].ino # 0,
                      E1[q][l].ino = E1[r][m].ino \/ (q = r /\ E1[q][l].name = E1[r][m].name)
               PROVE  q = r /\ l = m
    BY DEF Unique
  <2>1. E1[q][l] = E[q][l] /\ E1[r][m] = E[r][m]
    BY <1>1
  <2>2. E[q][l].ino # 0 /\ E[r][m].ino # 0
    BY <2>1
  <2>3. E[q][l].ino = E[r][m].ino \/ (q = r /\ E[q][l].name = E[r][m].name)
    BY <2>1
  <2> QED BY <2>2, <2>3 DEF TreeOf, Unique
<1>6. Parents(D1, E1)
  <2>1. \A c \in D1 \ {Root} : \E l \in Places : E1[E1[c][2].ino][l].ino = c
    <3> TAKE c \in D1 \ {Root}
    <3>1. E[c][2].ino \in D1
      BY <1>3 DEF TreeOf, Shape
    <3>2. PICK l \in Places : E[E[c][2].ino][l].ino = c
      BY DEF TreeOf, Parents
    <3>3. ~(E[c][2].ino = p /\ l = k)
      BY <3>2
    <3> QED BY <3>1, <3>2, <3>3, <1>1
  <2>2. E1[Root][2].ino = Root
    BY <1>0, <1>1 DEF TreeOf, Parents, Shape
  <2> QED BY <2>1, <2>2 DEF Parents
<1>7. LeadUp(D1, E1)
  <2> SUFFICES ASSUME NEW S \in SUBSET D1, S # {}, \A q \in S \ {Root} : E1[q][2].ino \in S
               PROVE  Root \in S
    BY DEF LeadUp
  <2>1. S \in SUBSET D /\ \A q \in S \ {Root} : E[q][2].ino \in S
    BY <1>1
  <2> QED BY <2>1 DEF TreeOf, LeadUp
<1>8. Linked(D1, E1, F, L1)
  <2>1. Under(D1, E1, p) = Under(D, E, p) \ {i} /\ i \in Under(D, E, p)
    BY <1>0, <1>1 DEF Under
  <2>2. \A q \in D1 \ {p} : Under(D1, E1, q) = Under(D, E, q)
    BY <1>0, <1>1 DEF Under
  <2>4. IsFiniteSet(Under(D, E, p))
    BY Finite, FS_Subset DEF Under
  <2>5. /\ Cardinality(Under(D1, E1, p)) = Cardinality(Under(D, E, p)) - 1
        /\ Cardinality(Under(D, E, p)) \in Nat
    <3> DEFINE U == Under(D, E, p)
               U1 == Under(D1, E1, p)
    <3>1. IsFiniteSet(U) /\ i \in U /\ U1 = U \ {i}
      BY <2>1, <2>4
    <3> HIDE DEF U, U1
    <3>2. Cardinality(U1) = Cardinality(U) - 1 /\ Cardinality(U) \in Nat
      BY <3>1, FS_RemoveElement, FS_CardinalityType
    <3> QED BY <3>2 DEF U, U1
  <2>7. L1[p] = 2 + Cardinality(Under(D1, E1, p))
    BY <2>5 DEF TreeOf, Linked
  <2>9. \A q \in D1 \ {p} : L1[q] = 2 + Cardinality(Under(D1, E1, q))
    BY <2>2 DEF TreeOf, Linked
  <2>10. \A j \in F : L1[j] = 1
    <3>1. ASSUME NEW j \in D, j \in F PROVE FALSE
      <4>1. L[j] = 1 /\ L[j] = 2 + Cardinality(Under(D, E, j))
        BY <3>1 DEF TreeOf, Linked
      <4>2. IsFiniteSet(Under(D, E, j))
        BY Finite, FS_Subset DEF Under
      <4>3. Cardinality(Under(D, E, j)) \in Nat
        BY <4>2, FS_CardinalityType
      <4> QED BY <4>1, <4>3
    <3> QED BY <3>1 DEF TreeOf, Linked
  <2> QED BY <2>7, <2>9, <2>10 DEF Linked
<1> QED BY <1>4, <1>5, <1>6, <1>7, <1>8 DEF TreeOf

(* An entry gets another name in its directory.                            *)
LEMMA EntryRenamed ==
  ASSUME NEW D, NEW E, NEW F, NEW L, NEW p, NEW k, NEW i, NEW n, NEW E1, NEW L1,
         EntryRenaming(D, E, F, L, p, k, i, n, E1, L1)
  PROVE  TreeOf(D, E1, F, L1)
<1> USE DEF EntryRenaming, TreeOn, Vacant, Occupied, NewName
<1>1. /\ \A q \in D : E1[q][1] = E[q][1] /\ E1[q][2] = E[q][2]
      /\ \A q \in D : \A l \in Places : (q = p /\ l = k) \/ E1[q][l] = E[q][l]
      /\ \A q \in D : \A l \in Places : E1[q][l].ino = E[q][l].ino
      /\ E1[p][k].name = n
  BY SlotFacts, EntryFields
<1>3. Shape(D, E1, F)
  BY <1>1 DEF TreeOf, Shape
<1>4. Unique(D, E1)
  <2> SUFFICES ASSUME NEW q \in D, NEW r \in D, NEW l \in Places, NEW m \in Places,
                      E1[q][l].ino # 0, E1[r][m].ino # 0,
                      E1[q][l].ino = E1[r][m].ino \/ (q = r /\ E1[q][l].name = E1[r][m].name)
               PROVE  q = r /\ l = m
    BY DEF Unique
  <2>1. E[q][l].ino # 0 /\ E[r][m].ino # 0
    BY <1>1
  <2>2. CASE E1[q][l].ino = E1[r][m].ino
    BY <2>1, <2>2, <1>1 DEF TreeOf, Unique
  <2>3. CASE q = r /\ E1[q][l].name = E1[r][m].name
    <3>1. CASE l = k /\ q = p
      BY <2>1, <2>3, <3>1, <1>1
    <3>2. CASE m = k /\ q = p
      BY <2>1, <2>3, <3>2, <1>1
    <3>3. CASE ~(l = k /\ q = p) /\ ~(m = k /\ q = p)
      <4>1. E[q][l].name = E[r][m].name
        BY <2>3, <3>3, <1>1
      <4> QED BY <2>1, <2>3, <4>1 DEF TreeOf, Unique
    <3> QED BY <3>1, <3>2, <3>3
  <2> QED BY <2>2, <2>3
<1>5. Parents(D, E1)
  <2>1. \A c \in D \ {Root} : \E l \in Places : E1[E1[c][2].ino][l].ino = c
    <3> TAKE c \in D \ {Root}
    <3>1. E[c][2].ino \in D
      BY DEF TreeOf, Shape
    <3>2. PICK l \in Places : E[E[c][2].ino][l].ino = c
      BY DEF TreeOf, Parents
    <3> QED BY <3>1, <3>2, <1>1
  <2> QED BY <2>1, <1>1 DEF TreeOf, Parents, Shape
<1>6. LeadUp(D, E1) /\ \A q : Under(D, E1, q) = Under(D, E, q)
  <2>1. LeadUp(D, E) /\ \A q \in D : E1[q][2].ino = E[q][2].ino
    BY <1>1 DEF TreeOf
  <2> QED BY <2>1 DEF LeadUp, Under
<1>7. Linked(D, E1, F, L1)
  BY <1>6 DEF TreeOf, Linked
<1> QED BY <1>3, <1>4, <1>5, <1>6, <1>7 DEF TreeOf

(* What a move between directories does to the entries, whatever moves.    *)
LEMMA EntryMoved ==
  ASSUME NEW D, NEW E, NEW F, NEW L, NEW p, NEW k, NEW i, NEW q, NEW m, NEW n, NEW E1,
         EntryMoving(D, E, F, L, p, k, i, q, m, n, E1)
  PROVE  Unique(D, E1)
<1> USE DEF EntryMoving, TreeOn, Vacant, Occupied, NewName
<1> SUFFICES ASSUME NEW r \in D, NEW s \in D, NEW l \in Places, NEW o \in Places,
                    E1[r][l].ino # 0, E1[s][o].ino # 0,
                    E1[r][l].ino = E1[s][o].ino \/ (r = s /\ E1[r][l].name = E1[s][o].name)
             PROVE  r = s /\ l = o
  BY DEF Unique
<1>1. ~(r = p /\ l = k) /\ ~(s = p /\ o = k)
  BY EntryFields
<1>2. CASE r = q /\ l = m
  <2>1. E1[r][l].ino = i /\ E1[r][l].name = n
    BY <1>2, EntryFields
  <2>2. ASSUME ~(s = q /\ o = m) PROVE FALSE
    <3>1. E1[s][o] = E[s][o]
      BY <1>1, <2>2
    <3>2. E[s][o].ino # i
      BY <1>1, <3>1 DEF TreeOf, Unique
    <3> QED BY <1>2, <2>1, <3>1, <3>2
  <2> QED BY <2>2, <1>2
<1>3. CASE s = q /\ o = m
  <2>1. E1[s][o].ino = i /\ E1[s][o].name = n
    BY <1>3, EntryFields
  <2>2. ASSUME ~(r = q /\ l = m) PROVE FALSE
    <3>1. E1[r][l] = E[r][l]
      BY <1>1, <2>2
    <3>2. E[r][l].ino # i
      BY <1>1, <3>1 DEF TreeOf, Unique
    <3> QED BY <1>3, <2>1, <3>1, <3>2
  <2> QED BY <2>2, <1>3
<1>4. CASE ~(r = q /\ l = m) /\ ~(s = q /\ o = m)
  <2>1. E1[r][l] = E[r][l] /\ E1[s][o] = E[s][o]
    BY <1>1, <1>4
  <2> QED BY <2>1 DEF TreeOf, Unique
<1> QED BY <1>2, <1>3, <1>4

(* A file moves to another directory.                                      *)
LEMMA FileMoved ==
  ASSUME NEW D, NEW E, NEW F, NEW L, NEW p, NEW k, NEW i, NEW q, NEW m, NEW n, NEW E1,
         NEW L1,
         FileMoving(D, E, F, L, p, k, i, q, m, n, E1, L1)
  PROVE  TreeOf(D, E1, F, L1)
<1>4. Unique(D, E1)
  BY EntryMoved DEF FileMoving
<1> USE DEF FileMoving, EntryMoving, TreeOn, Vacant, Occupied, NewName
<1>1. /\ \A r \in D : E1[r][1] = E[r][1] /\ E1[r][2] = E[r][2]
      /\ \A r \in D : \A l \in Places :
           (r = p /\ l = k) \/ (r = q /\ l = m) \/ E1[r][l] = E[r][l]
      /\ E1[p][k].ino = 0 /\ E1[q][m] = Entry(i, n) /\ i # 0
  BY SlotFacts, EntryFields
<1>3. Shape(D, E1, F)
  BY <1>1, EntryFields DEF TreeOf, Shape
<1>5. Parents(D, E1)
  <2>1. \A c \in D \ {Root} : \E l \in Places : E1[E1[c][2].ino][l].ino = c
    <3> TAKE c \in D \ {Root}
    <3>1. E[c][2].ino \in D
      BY DEF TreeOf, Shape
    <3>2. PICK l \in Places : E[E[c][2].ino][l].ino = c
      BY DEF TreeOf, Parents
    <3>3. c # 0
      BY SlotFacts
    <3> QED BY <3>1, <3>2, <3>3, <1>1
  <2> QED BY <2>1, <1>1 DEF TreeOf, Parents, Shape
<1>6. LeadUp(D, E1) /\ \A r : Under(D, E1, r) = Under(D, E, r)
  <2>1. LeadUp(D, E) /\ \A r \in D : E1[r][2].ino = E[r][2].ino
    BY <1>1 DEF TreeOf
  <2> QED BY <2>1 DEF LeadUp, Under
<1>7. Linked(D, E1, F, L1)
  BY <1>6 DEF TreeOf, Linked
<1> QED BY <1>3, <1>4, <1>5, <1>6, <1>7 DEF TreeOf

(* A directory moves to another one, which it is not above.                *)
LEMMA DirectoryMoved ==
  ASSUME NEW D, NEW E, NEW F, NEW L, NEW p, NEW k, NEW i, NEW q, NEW m, NEW n, NEW E1,
         NEW L1,
         DirectoryMoving(D, E, F, L, p, k, i, q, m, n, E1, L1)
  PROVE  TreeOf(D, E1, F, L1)
<1>4. Unique(D, E1)
  BY EntryMoved DEF DirectoryMoving
<1>0. i # Root /\ E[i][2].ino = p /\ p # i /\ i # 0
  BY NamedByParent DEF DirectoryMoving, EntryMoving, Occupied
<1> USE DEF DirectoryMoving, EntryMoving, TreeOn, Vacant, Occupied, NewName
<1>1. /\ \A r \in D : E1[r][1] = E[r][1] /\ (r # i => E1[r][2] = E[r][2])
      /\ E1[i][2] = Entry(q, "..")
      /\ \A r \in D : \A l \in Places :
           (r = p /\ l = k) \/ (r = q /\ l = m) \/ E1[r][l] = E[r][l]
      /\ E1[p][k].ino = 0 /\ E1[q][m] = Entry(i, n)
  BY <1>0, SlotFacts, EntryFields
<1>3. Shape(D, E1, F)
  BY <1>0, <1>1, EntryFields DEF TreeOf, Shape
<1>5. Parents(D, E1)
  <2>1. \A c \in D \ {Root} : \E l \in Places : E1[E1[c][2].ino][l].ino = c
    <3> TAKE c \in D \ {Root}
    <3>1. CASE c = i
      BY <3>1, <1>1, EntryFields
    <3>2. CASE c # i
      <4>1. E[c][2].ino \in D
        BY DEF TreeOf, Shape
      <4>2. PICK l \in Places : E[E[c][2].ino][l].ino = c
        BY DEF TreeOf, Parents
      <4>3. c # 0
        BY SlotFacts
      <4> QED BY <4>1, <4>2, <4>3, <3>2, <1>1
    <3> QED BY <3>1, <3>2
  <2> QED BY <2>1, <1>0, <1>1 DEF TreeOf, Parents, Shape
<1>7. Linked(D, E1, F, L1)
  <2>1. Under(D, E1, p) = Under(D, E, p) \ {i} /\ i \in Under(D, E, p)
    BY <1>0, <1>1, EntryFields DEF Under
  <2>2. Under(D, E1, q) = Under(D, E, q) \cup {i} /\ i \notin Under(D, E, q)
    BY <1>0, <1>1, EntryFields DEF Under
  <2>3. \A r \in D \ {p, q} : Under(D, E1, r) = Under(D, E, r)
    BY <1>0, <1>1, EntryFields DEF Under
  <2>4. \A r \in D : IsFiniteSet(Under(D, E, r)) /\ Cardinality(Under(D, E, r)) \in Nat
    BY Finite, FS_Subset, FS_CardinalityType DEF Under
  <2>5. Cardinality(Under(D, E1, p)) = Cardinality(Under(D, E, p)) - 1
    <3> DEFINE U == Under(D, E, p)
               U1 == Under(D, E1, p)
    <3>1. IsFiniteSet(U) /\ i \in U /\ U1 = U \ {i}
      BY <2>1, <2>4
    <3> HIDE DEF U, U1
    <3>2. Cardinality(U1) = Cardinality(U) - 1
      BY <3>1, FS_RemoveElement
    <3> QED BY <3>2 DEF U, U1
  <2>6. Cardinality(Under(D, E1, q)) = Cardinality(Under(D, E, q)) + 1
    <3> DEFINE U == Under(D, E, q)
               U1 == Under(D, E1, q)
    <3>1. IsFiniteSet(U) /\ i \notin U /\ U1 = U \cup {i}
      BY <2>2, <2>4
    <3> HIDE DEF U, U1
    <3>2. Cardinality(U1) = Cardinality(U) + 1
      BY <3>1, FS_AddElement
    <3> QED BY <3>2 DEF U, U1
  <2>7. L1[p] = 2 + Cardinality(Under(D, E1, p))
    BY <2>4, <2>5 DEF TreeOf, Linked
  <2>8. L1[q] = 2 + Cardinality(Under(D, E1, q))
    BY <2>4, <2>6 DEF TreeOf, Linked
  <2>9. \A r \in D \ {p, q} : L1[r] = 2 + Cardinality(Under(D, E1, r))
    BY <2>3 DEF TreeOf, Linked
  <2>10. \A j \in F : L1[j] = 1
    <3>1. ASSUME NEW j \in D, j \in F PROVE FALSE
      <4>1. L[j] = 1 /\ L[j] = 2 + Cardinality(Under(D, E, j))
        BY <3>1 DEF TreeOf, Linked
      <4> QED BY <4>1, <2>4
    <3> QED BY <3>1 DEF TreeOf, Linked
  <2> QED BY <2>7, <2>8, <2>9, <2>10 DEF Linked
<1> QED BY <1>3, <1>4, <1>5, <1>7 DEF TreeOf

(* The way up xdir_is_ancestor goes, one ".." at a time.                   *)
Next1(s, moved, at) ==
  IF at \in {moved, Root, 0} \/ ~IsDir(s, at) THEN at ELSE DotDot(s, at)

(* What it computes: the last of Levels steps from where it starts.        *)
LEMMA WalkIs ==
  ASSUME NEW s, \A p \in Dirs(s) : DotDot(s, p) \in Dirs(s), NEW moved, NEW cur \in Ino
  PROVE  \E g : /\ g[Levels] = Walk(s, moved, cur)
                /\ g[0] = cur
                /\ \A d \in 1 .. Levels : g[d] = Next1(s, moved, g[d - 1])
<1> DEFINE upper == [at \in Ino |-> Next1(s, moved, at)]
           Step(f) == [d \in 0 .. Levels |->
                        IF d = 0 THEN cur
                        ELSE LET at == f[d - 1] IN
                             IF at \in {moved, Root, 0} \/ ~IsDir(s, at) THEN at ELSE DotDot(s, at)]
           way == CHOOSE f : f = Step(f)
<1>1. Walk(s, moved, cur) = way[Levels]
  BY DEF Walk
<1>2. upper \in [Ino -> Ino]
  BY DEF Next1, Dirs
<1>3. Levels \in Nat /\ Levels \in 0 .. Levels /\ 0 \in 0 .. Levels
  BY DEF Levels
<1> HIDE DEF upper
<1>4. PICK g : PathIn(g, Ino, upper, cur, Levels)
  BY <1>2, <1>3, PathExists
<1>5. \A d \in 0 .. Levels : d # 0 => g[d - 1] \in Ino
  BY <1>4 DEF Levels, PathIn
<1>6. g = Step(g)
  BY <1>4, <1>5 DEF upper, Next1, PathIn
<1>7. way = Step(way)
  BY <1>6
<1> HIDE DEF way
<1>8. \A d \in 0 .. Levels : way[d] = IF d = 0 THEN cur ELSE Next1(s, moved, way[d - 1])
  BY <1>7 DEF Next1
<1>9. /\ way[Levels] = Walk(s, moved, cur) /\ way[0] = cur
      /\ \A d \in 1 .. Levels : way[d] = Next1(s, moved, way[d - 1])
  BY <1>1, <1>3, <1>8
<1> QED BY <1>9

(* A directory from which the way up does not lead to i can take i below   *)
(* it.                                                                     *)
LEMMA MoveLeadsUp ==
  ASSUME NEW s, NEW F, NEW L, TreeOn(Dirs(s), Held(s), F, L),
         NEW i \in Dirs(s) \ {Root}, NEW q \in Dirs(s), Walk(s, i, q) \in {Root, 0},
         NEW E1, E1[i][2].ino = q,
         \A r \in Dirs(s) \ {i} : E1[r][2].ino = DotDot(s, r)
  PROVE  LeadUp(Dirs(s), E1)
<1> SUFFICES ASSUME NEW S \in SUBSET Dirs(s), S # {}, \A p \in S \ {Root} : E1[p][2].ino \in S
             PROVE  Root \in S
  BY DEF LeadUp
<1>1. \A r \in Dirs(s) : Held(s)[r][2].ino = DotDot(s, r)
  BY DEF Held, DotDot
<1>2. \A r \in Dirs(s) : DotDot(s, r) \in Dirs(s)
  BY <1>1 DEF TreeOn, TreeOf, Shape
<1>3. CASE i \notin S
  <2>1. \A p \in S \ {Root} : Held(s)[p][2].ino \in S
    BY <1>1, <1>3
  <2> QED BY <2>1 DEF TreeOn, TreeOf, LeadUp
<1>4. CASE i \in S
  <2>1. q \in S /\ q \in Ino /\ Dirs(s) \subseteq Ino
    BY <1>4 DEF Dirs
  <2>2. PICK g : /\ g[Levels] = Walk(s, i, q)
                 /\ g[0] = q
                 /\ \A d \in 1 .. Levels : g[d] = Next1(s, i, g[d - 1])
    BY <2>1, <1>2, WalkIs
  <2>3. \A d \in 1 .. Levels : g[d - 1] \in S => g[d] \in S
    <3> SUFFICES ASSUME NEW d \in 1 .. Levels, g[d - 1] \in S PROVE g[d] \in S
      OBVIOUS
    <3> DEFINE at == g[d - 1]
    <3>1. g[d] = Next1(s, i, at) /\ at \in S
      BY <2>2
    <3> HIDE DEF at
    <3>2. at \notin {i, Root} => DotDot(s, at) \in S
      BY <3>1
    <3> QED BY <3>1, <3>2 DEF Next1
  <2>4. g[Levels] \in S
    <3>1. Levels \in Nat /\ g[0] \in S
      BY <2>1, <2>2 DEF Levels
    <3> QED BY <3>1, <2>3, PathStays
  <2> QED BY <2>1, <2>2, <2>4, SlotFacts
<1> QED BY <1>3, <1>4

(***************************************************************************)
(* What the operations find: slots, free blocks, free inodes.              *)
(***************************************************************************)
(* A name the lookup does not find is new.                                 *)
LEMMA NameIsNew ==
  ASSUME NEW s, Sound(s), NEW p \in Dirs(s), NEW n \in Name, Lookup(s, p, n) = {}
  PROVE  NewName(Held(s), p, n)
<1> DEFINE f == Ents(s, p)
<1>1. f \in [Slot -> Record] /\ Held(s)[p] = f
  BY DirFacts DEF Sound
<1>2. ASSUME NEW l \in Places, f[l].ino # 0, f[l].name = n PROVE FALSE
  <2>1. l \in Slot
    BY SlotFacts
  <2>2. f[l] \in Range(f)
    BY <1>1, <2>1 DEF Range
  <2>3. f[l].ino \in Lookup(s, p, n)
    BY <1>2, <2>2 DEF Lookup
  <2> QED BY <2>3
<1> QED BY <1>1, <1>2 DEF NewName

(* The first vacant slot of a directory.                                   *)
LEMMA VacantSlot ==
  ASSUME NEW s, Sound(s), NEW p \in Dirs(s), HasRoom(s, p), NEW n \in Name, Lookup(s, p, n) = {}
  PROVE  \E k \in Places : /\ Vacant(Dirs(s), Held(s), p, k, n)
                           /\ \A i : Insert(Ents(s, p), i, n) = [Ents(s, p) EXCEPT ![k] = Entry(i, n)]
<1> DEFINE f == Ents(s, p)
           Z == {k \in Slot : f[k].ino = 0}
           k == Min(Z)
<1>1. f \in [Slot -> Record] /\ Held(s)[p] = f
  BY DirFacts DEF Sound
<1>2. Z \in SUBSET Nat /\ Z # {}
  BY SlotFacts DEF HasRoom
<1> HIDE DEF f
<1>3. k \in Slot /\ f[k].ino = 0
  <2>1. k \in Z
    <3> HIDE DEF Z
    <3> QED BY <1>2, MinIs
  <2> QED BY <2>1
<1>4. f[1].ino # 0 /\ f[2].ino # 0
  <2>1. f[1] = Entry(p, ".") /\ f[2].ino \in Dirs(s)
    BY <1>1 DEF Sound, Rooted, TreeOf, Shape
  <2>2. p \in Ino /\ f[2].ino \in Ino
    BY <2>1 DEF Dirs
  <2> QED BY <2>1, <2>2, SlotFacts, EntryFields
<1>5. k \in Places
  <2> HIDE DEF k
  <2> QED BY <1>3, <1>4, SlotFacts
<1>6. NewName(Held(s), p, n)
  BY NameIsNew
<1>7. Vacant(Dirs(s), Held(s), p, k, n)
  <2> HIDE DEF k
  <2> QED BY <1>1, <1>3, <1>5, <1>6 DEF Vacant
<1>8. \A i : Insert(f, i, n) = [f EXCEPT ![k] = Entry(i, n)]
  BY DEF Insert
<1> HIDE DEF k
<1> QED BY <1>5, <1>7, <1>8 DEF f

(* The slot of a name a program found.                                     *)
LEMMA SlotFound ==
  ASSUME NEW s, Sound(s), NEW p \in Dirs(s), NEW k \in Places, NEW i \in Ino, At(s, p, k) = i
  PROVE  /\ Occupied(Dirs(s), Held(s), p, k, i)
         /\ SlotOf(Ents(s, p), i) = k
         /\ i # p /\ i \in Dirs(s) \cup Files(s) /\ i # Root
<1> DEFINE f == Ents(s, p)
           Z == {l \in Slot : f[l].ino = i}
<1>1. f \in [Slot -> Record] /\ Held(s)[p] = f /\ f[k].ino = i
  BY DirFacts DEF Sound, At
<1>2. Occupied(Dirs(s), Held(s), p, k, i)
  BY <1>1, SlotFacts DEF Occupied
<1>3. /\ TreeOf(Dirs(s), Held(s), Files(s), LinksOf(s))
      /\ Dirs(s) \in SUBSET Ino /\ Files(s) \in SUBSET Ino
      /\ Held(s)[p][k].ino = i
  BY <1>1, Bits DEF Sound, Rooted, Blocks, Dirs, Files
<1>4. i \in Dirs(s) \cup Files(s) /\ i # Root
  BY <1>3, SlotFacts DEF TreeOf, Shape
<1>5. i # p
  <2>1. CASE i \in Dirs(s)
    BY <1>2, <1>3, <2>1, NamedByParent DEF TreeOn
  <2>2. CASE i \notin Dirs(s)
    BY <2>2
  <2> QED BY <2>1, <2>2
<1>6. f[1].ino # i
  BY <1>1, <1>3, <1>5, EntryFields DEF TreeOf, Shape
<1>7. f[2].ino # i
  <2>1. CASE p = Root
    <3>1. f[2].ino = Root
      BY <1>1, <1>3, <2>1 DEF TreeOf, Parents
    <3> QED BY <3>1, <1>4
  <2>2. CASE p # Root /\ i \in Dirs(s)
    <3>1. Held(s)[p][2].ino # i
      BY <1>2, <1>3, <2>2, NamedByParent DEF TreeOn
    <3> QED BY <3>1, <1>1
  <2>3. CASE i \notin Dirs(s)
    BY <1>1, <1>3, <2>3 DEF TreeOf, Shape
  <2> QED BY <2>1, <2>2, <2>3
<1>8. \A l \in Places : f[l].ino = i => l = k
  BY <1>1, <1>3, SlotFacts DEF TreeOf, Unique
<1>9. Z \in SUBSET Nat /\ Z # {} /\ \A l \in Z : l = k
  BY <1>1, <1>6, <1>7, <1>8, SlotFacts
<1>10. Min(Z) = k
  <2> HIDE DEF Z
  <2> QED BY <1>9, MinIs
<1> QED BY <1>2, <1>4, <1>5, <1>10 DEF SlotOf

(* A name below a directory is in a slot behind "." and "..".              *)
LEMMA ChildSlot ==
  ASSUME NEW s, Sound(s), NEW p \in Dirs(s), NEW e \in Children(s, p)
  PROVE  e.ino \in Ino /\ \E k \in Places : Ents(s, p)[k] = e /\ At(s, p, k) = e.ino
<1> DEFINE f == Ents(s, p)
<1>1. f \in [Slot -> Record] /\ Held(s)[p] = f
  BY DirFacts DEF Sound
<1>2. e \in Range(f) /\ e.ino # 0 /\ e.name # "." /\ e.name # ".."
  BY DEF Children
<1>3. PICK k \in Slot : f[k] = e
  BY <1>1, <1>2 DEF Range
<1>4. f[1].name = "." /\ f[2].name = ".."
  BY <1>1, EntryFields DEF Sound, Rooted, TreeOf, Shape
<1>5. k \in Places
  BY <1>2, <1>3, <1>4, SlotFacts
<1>6. e.ino \in Ino
  BY <1>1, <1>2, <1>3 DEF Record
<1> QED BY <1>3, <1>5, <1>6 DEF At

(* What allocation finds is free.                                          *)
LEMMA AllocInoFree ==
  ASSUME NEW s, Maps(s), CanAllocIno(s)
  PROVE  AllocIno(s) \in Ino \ InUse(s)
<1> DEFINE g == Min(InoGroups(s))
           i == Min(FreeInos(s, g))
<1>1. InoGroups(s) \in SUBSET Nat /\ InoGroups(s) # {}
  BY DEF InoGroups, CanAllocIno, Group
<1>2. g \in InoGroups(s)
  BY <1>1, MinIs
<1> HIDE DEF g
<1>3. g \in Group /\ FreeInos(s, g) # {}
  BY <1>2 DEF InoGroups
<1>4. FreeInos(s, g) \subseteq InosOf(g) /\ InosOf(g) \subseteq Ino
  BY <1>3, InoPlaced DEF FreeInos
<1>5. i \in FreeInos(s, g)
  <2>1. FreeInos(s, g) \in SUBSET Nat
    BY <1>4, SlotFacts
  <2> QED BY <1>3, <2>1, MinIs
<1> HIDE DEF i
<1>6. i \in Ino /\ InoGroup(i) = g /\ i \notin InoBits(s, g)
  BY <1>3, <1>4, <1>5, InoPlaced DEF FreeInos
<1>7. i \notin InUse(s)
  BY <1>6, Bits
<1> QED BY <1>6, <1>7 DEF AllocIno, i, g

(* The block an allocation finds is free.                                  *)
LEMMA AllocBlkFree ==
  ASSUME NEW s, Maps(s), CanAllocBlk(s)
  PROVE  AllocBlk(s) \in Blk \ Taken(s)
<1> DEFINE g == Min(BlkGroups(s))
           b == Min(FreeBlks(s, g))
<1>1. BlkGroups(s) \in SUBSET Nat /\ BlkGroups(s) # {}
  BY DEF BlkGroups, CanAllocBlk, Group
<1>2. g \in BlkGroups(s)
  BY <1>1, MinIs
<1> HIDE DEF g
<1>3. g \in Group /\ FreeBlks(s, g) # {}
  BY <1>2 DEF BlkGroups
<1>4. FreeBlks(s, g) \subseteq BlksOf(g) /\ BlksOf(g) \subseteq Blk /\ Blk \subseteq Nat
  BY <1>3, BlkPlaced DEF FreeBlks, Blk
<1>5. b \in FreeBlks(s, g)
  <2>1. FreeBlks(s, g) \in SUBSET Nat
    BY <1>4
  <2> QED BY <1>3, <2>1, MinIs
<1> HIDE DEF b
<1>6. b \in Blk /\ BlkGroup(b) = g /\ b \notin BlkBits(s, g)
  BY <1>3, <1>4, <1>5, BlkPlaced DEF FreeBlks
<1>7. b \notin Taken(s)
  BY <1>6, Bits
<1> QED BY <1>6, <1>7 DEF AllocBlk, b, g

(* A block a file may grow by is free.                                     *)
LEMMA CandidatesFree ==
  ASSUME NEW s, Maps(s), NEW c
  PROVE  Candidates(s, c) \subseteq Blk \ Taken(s)
  BY AllocBlkFree DEF Candidates

(* A whole volume stays a function.                                        *)
LEMMA OverlayWhole ==
  ASSUME NEW s, Whole(s), NEW tx
  PROVE  Overlay(s, tx) = [x \in BlockName |-> Overlay(s, tx)[x]]
  BY DEF Overlay, Whole

(* New inodes and new directories are what inodes and blocks can be.       *)
LEMMA NewNodes ==
  /\ << >> \in Extents /\ Counted(<< >>) = {}
  /\ Blank \in Node /\ NewFile \in Node /\ NewDir \in Node
  /\ \A i, f : FileData(i).kind = "file" /\ DirBlock(f).kind = "dir" /\ DirBlock(f).ents = f
  /\ \A i \in Ino : FileData(i) \in Contents
  /\ \A f \in [Slot -> Record] : DirBlock(f) \in Contents
  /\ \A i \in Ino, n \in Name \cup {".", ".."} : Entry(i, n) \in Record
  /\ NoEntry \in Record
<1>1. << >> \in Extents
  BY Geometry DEF Extents, Ordered
<1>2. Counted(<< >>) = {}
  BY <1>1, CountedIs
<1>3. Blank \in Node /\ NewFile \in Node /\ NewDir \in Node
  <2>1. Blank \in Node
    BY <1>1 DEF Blank, Node
  <2>2. NewFile = [[Blank EXCEPT !.kind = "file"] EXCEPT !.links = 1]
    BY DEF NewFile
  <2>3. NewDir = [[Blank EXCEPT !.kind = "dir"] EXCEPT !.links = 2]
    BY DEF NewDir
  <2>4. \A x \in Node : /\ [x EXCEPT !.kind = "file"] \in Node /\ [x EXCEPT !.kind = "dir"] \in Node
                       /\ [x EXCEPT !.links = 1] \in Node /\ [x EXCEPT !.links = 2] \in Node
    BY DEF Node
  <2> QED BY <2>1, <2>2, <2>3, <2>4
<1> QED BY <1>1, <1>2, <1>3 DEF FileData, DirBlock, Contents, Entry, NoEntry, Record

(***************************************************************************)
(* The names as a program is told them, and what the operations do to      *)
(* them.                                                                   *)
(***************************************************************************)
Line(p, e) == [dir |-> p, name |-> e.name, ino |-> e.ino]
Told(D, E) ==
  {Line(w[1], E[w[1]][w[2]]) : w \in {v \in D \X Places : E[v[1]][v[2]].ino # 0}}

(* A line is told of every slot in use.                                    *)
LEMMA ToldIs ==
  ASSUME NEW D, NEW E
  PROVE  \A x : x \in Told(D, E) <=> \E p \in D, k \in Places : E[p][k].ino # 0 /\ x = Line(p, E[p][k])
<1> TAKE x
<1>1. ASSUME x \in Told(D, E)
      PROVE  \E p \in D, k \in Places : E[p][k].ino # 0 /\ x = Line(p, E[p][k])
  <2>1. PICK w \in D \X Places : E[w[1]][w[2]].ino # 0 /\ x = Line(w[1], E[w[1]][w[2]])
    BY <1>1 DEF Told
  <2>2. w[1] \in D /\ w[2] \in Places
    BY <2>1
  <2> QED BY <2>1, <2>2
<1>2. ASSUME NEW p \in D, NEW k \in Places, E[p][k].ino # 0, x = Line(p, E[p][k])
      PROVE  x \in Told(D, E)
  <2>1. << p, k >> \in D \X Places /\ << p, k >>[1] = p /\ << p, k >>[2] = k
    BY <1>2
  <2> QED BY <1>2, <2>1 DEF Told
<1> QED BY <1>1, <1>2

(* A line says where it is and what it leads to.                           *)
LEMMA LineFields ==
  /\ \A p, e : Line(p, e).dir = p /\ Line(p, e).name = e.name /\ Line(p, e).ino = e.ino
  /\ \A p, i, n : Line(p, Entry(i, n)) = [dir |-> p, name |-> n, ino |-> i]
  BY EntryFields DEF Line

(* The lines of one slot.                                                  *)
LEMMA OneLine ==
  ASSUME NEW D, NEW E, Unique(D, E), NEW p \in D, NEW k \in Places,
         NEW q \in D, NEW l \in Places, E[p][k].ino # 0, Line(p, E[p][k]) = Line(q, E[q][l])
  PROVE  p = q /\ k = l
<1>1. E[p][k].ino = E[q][l].ino
  BY LineFields
<1> QED BY <1>1 DEF Unique

(* An entry comes.                                                         *)
Comes(D, E, D1, E1, p, k, i, n) ==
  /\ p \in D /\ k \in Places /\ i \in Ino /\ E[p][k].ino = 0 /\ D \subseteq D1
  /\ \A q \in D : \A l \in Places : E1[q][l] = IF q = p /\ l = k THEN Entry(i, n) ELSE E[q][l]
  /\ \A q \in D1 \ D : \A l \in Places : E1[q][l].ino = 0

(* What is told then: a line more.                                         *)
LEMMA ToldMore ==
  ASSUME NEW D, NEW E, NEW D1, NEW E1, NEW p, NEW k, NEW i, NEW n,
         Comes(D, E, D1, E1, p, k, i, n)
  PROVE  Told(D1, E1) = Told(D, E) \cup {[dir |-> p, name |-> n, ino |-> i]}
<1> USE DEF Comes
<1>1. i # 0 /\ Line(p, E1[p][k]) = [dir |-> p, name |-> n, ino |-> i] /\ E1[p][k].ino = i
  BY SlotFacts, LineFields, EntryFields
<1>2. \A x : x \in Told(D, E) => x \in Told(D1, E1)
  <2> SUFFICES ASSUME NEW x \in Told(D, E) PROVE x \in Told(D1, E1)
    OBVIOUS
  <2>1. PICK q \in D, l \in Places : E[q][l].ino # 0 /\ x = Line(q, E[q][l])
    BY ToldIs
  <2>2. q \in D1 /\ E1[q][l] = E[q][l]
    BY <2>1
  <2> QED BY <2>1, <2>2, ToldIs
<1>3. [dir |-> p, name |-> n, ino |-> i] \in Told(D1, E1)
  BY <1>1, ToldIs
<1>4. ASSUME NEW x \in Told(D1, E1) PROVE x \in Told(D, E) \/ x = [dir |-> p, name |-> n, ino |-> i]
  <2>1. PICK q \in D1, l \in Places : E1[q][l].ino # 0 /\ x = Line(q, E1[q][l])
    BY ToldIs
  <2>2. q \in D
    BY <2>1
  <2>3. CASE q = p /\ l = k
    BY <1>1, <2>1, <2>3
  <2>4. CASE ~(q = p /\ l = k)
    <3>1. E1[q][l] = E[q][l]
      BY <2>2, <2>4
    <3> QED BY <2>1, <2>2, <3>1, ToldIs
  <2> QED BY <2>3, <2>4
<1> QED BY <1>2, <1>3, <1>4

(* An entry goes.                                                          *)
Goes(D, E, D1, E1, p, k) ==
  /\ Unique(D, E) /\ p \in D1 /\ k \in Places /\ E[p][k].ino # 0 /\ D1 \subseteq D
  /\ \A q \in D1 : \A l \in Places : E1[q][l] = IF q = p /\ l = k THEN NoEntry ELSE E[q][l]
  /\ \A q \in D \ D1 : \A l \in Places : E[q][l].ino = 0

(* What is told then: a line less.                                         *)
LEMMA ToldLess ==
  ASSUME NEW D, NEW E, NEW D1, NEW E1, NEW p, NEW k, Goes(D, E, D1, E1, p, k)
  PROVE  /\ Line(p, E[p][k]) \in Told(D, E)
         /\ Told(D1, E1) = Told(D, E) \ {Line(p, E[p][k])}
<1> USE DEF Goes
<1>1. Line(p, E[p][k]) \in Told(D, E) /\ p \in D
  BY ToldIs
<1>2. ASSUME NEW x \in Told(D, E), x # Line(p, E[p][k]) PROVE x \in Told(D1, E1)
  <2>1. PICK q \in D, l \in Places : E[q][l].ino # 0 /\ x = Line(q, E[q][l])
    BY ToldIs
  <2>2. q \in D1 /\ E1[q][l] = E[q][l]
    BY <1>2, <2>1
  <2> QED BY <2>1, <2>2, ToldIs
<1>3. ASSUME NEW x \in Told(D1, E1) PROVE x \in Told(D, E) /\ x # Line(p, E[p][k])
  <2>1. PICK q \in D1, l \in Places : E1[q][l].ino # 0 /\ x = Line(q, E1[q][l])
    BY ToldIs
  <2>2. ~(q = p /\ l = k) /\ q \in D
    BY <2>1, EntryFields
  <2>3. E1[q][l] = E[q][l] /\ E[q][l].ino # 0
    BY <2>1, <2>2
  <2>4. x # Line(p, E[p][k])
    BY <1>1, <2>1, <2>2, <2>3, OneLine
  <2> QED BY <2>1, <2>2, <2>3, <2>4, ToldIs
<1> QED BY <1>1, <1>2, <1>3

(* An entry gets another name or another place.                            *)
Shifts(D, E, E1, p, k, q, m, i, n) ==
  /\ Unique(D, E) /\ p \in D /\ k \in Places /\ q \in D /\ m \in Places /\ i \in Ino
  /\ E[p][k].ino = i /\ ((p = q /\ k = m) \/ (p # q /\ E[q][m].ino = 0))
  /\ \A r \in D : \A l \in Places :
       E1[r][l] = IF r = q /\ l = m THEN Entry(i, n)
                  ELSE IF r = p /\ l = k THEN NoEntry ELSE E[r][l]

(* What is told then: one line in the place of another.                    *)
LEMMA ToldElsewhere ==
  ASSUME NEW D, NEW E, NEW E1, NEW p, NEW k, NEW q, NEW m, NEW i, NEW n,
         Shifts(D, E, E1, p, k, q, m, i, n)
  PROVE  /\ Line(p, E[p][k]) \in Told(D, E)
         /\ Told(D, E1) = (Told(D, E) \ {Line(p, E[p][k])}) \cup {[dir |-> q, name |-> n, ino |-> i]}
<1> USE DEF Shifts
<1>1. i # 0 /\ Line(q, E1[q][m]) = [dir |-> q, name |-> n, ino |-> i] /\ E1[q][m].ino = i
  BY SlotFacts, LineFields, EntryFields
<1>2. Line(p, E[p][k]) \in Told(D, E)
  BY <1>1, ToldIs
<1>3. ASSUME NEW x \in Told(D, E), x # Line(p, E[p][k]) PROVE x \in Told(D, E1)
  <2>1. PICK r \in D, l \in Places : E[r][l].ino # 0 /\ x = Line(r, E[r][l])
    BY ToldIs
  <2>2. ~(r = p /\ l = k) /\ ~(r = q /\ l = m)
    BY <1>3, <2>1
  <2>3. E1[r][l] = E[r][l]
    BY <2>2
  <2> QED BY <2>1, <2>3, ToldIs
<1>4. [dir |-> q, name |-> n, ino |-> i] \in Told(D, E1)
  BY <1>1, ToldIs
<1>5. ASSUME NEW x \in Told(D, E1), x # [dir |-> q, name |-> n, ino |-> i]
      PROVE  x \in Told(D, E) /\ x # Line(p, E[p][k])
  <2>1. PICK r \in D, l \in Places : E1[r][l].ino # 0 /\ x = Line(r, E1[r][l])
    BY ToldIs
  <2>2. ~(r = q /\ l = m)
    BY <1>1, <1>5, <2>1
  <2>3. ~(r = p /\ l = k)
    BY <2>1, <2>2, EntryFields
  <2>4. E1[r][l] = E[r][l] /\ E[r][l].ino # 0
    BY <2>1, <2>2, <2>3
  <2>5. x # Line(p, E[p][k])
    BY <1>1, <2>1, <2>3, <2>4, OneLine
  <2> QED BY <2>1, <2>4, <2>5, ToldIs
<1> QED BY <1>2, <1>3, <1>4, <1>5

(***************************************************************************)
(* What is above a directory.                                              *)
(***************************************************************************)
(* What holds of a directory, and of the one that names it whenever it     *)
(* holds of what is named, holds of all above.                             *)
LEMMA AboveStays ==
  ASSUME NEW T, NEW P, NEW q \in P, \A x \in T : x.ino \in P => x.dir \in P
  PROVE  View!Above(T, q) \subseteq P
<1> DEFINE n == Cardinality(Ino)
           A == SUBSET (P \cup {q} \cup {x.dir : x \in T})
           upper == [at \in A |-> at \cup {e.dir : e \in {x \in T : x.ino \in at}}]
           Step(f) == [d \in 0 .. n |->
                        IF d = 0 THEN {q}
                        ELSE LET at == f[d - 1] IN at \cup {e.dir : e \in {x \in T : x.ino \in at}}]
           way == CHOOSE f : f = Step(f)
<1>1. View!Above(T, q) = way[n]
  <2>1. View!Cardinality(Ino) = Cardinality(Ino)
    BY DEF View!Cardinality, Cardinality
  <2> QED BY <2>1 DEF View!Above
<1>2. upper \in [A -> A] /\ {q} \in A
  OBVIOUS
<1>3. n \in Nat /\ n \in 0 .. n /\ 0 \in 0 .. n
  BY Finite, FS_CardinalityType
<1> HIDE DEF upper, n, A
<1>4. PICK g : PathIn(g, A, upper, {q}, n)
  BY <1>2, <1>3, PathExists
<1>5. \A d \in 0 .. n : d # 0 => g[d - 1] \in A
  <2> SUFFICES ASSUME NEW d \in 0 .. n, d # 0 PROVE g[d - 1] \in A
    OBVIOUS
  <2>1. d - 1 \in 0 .. n
    BY <1>3
  <2> QED BY <2>1, <1>4 DEF PathIn
<1>6. g = Step(g)
  BY <1>4, <1>5 DEF upper, PathIn
<1>7. way = Step(way)
  BY <1>6
<1> HIDE DEF way
<1>8. \A d \in 0 .. n : way[d] = IF d = 0 THEN {q}
                                 ELSE way[d - 1] \cup {e.dir : e \in {x \in T : x.ino \in way[d - 1]}}
  BY <1>7
<1>9. way[0] \in SUBSET P
  BY <1>3, <1>8
<1>10. ASSUME NEW d \in 1 .. n, way[d - 1] \in SUBSET P PROVE way[d] \in SUBSET P
  <2>1. way[d] = way[d - 1] \cup {e.dir : e \in {x \in T : x.ino \in way[d - 1]}}
    <3>1. d \in 0 .. n /\ d # 0
      BY <1>3
    <3> QED BY <1>8, <3>1
  <2> QED BY <1>10, <2>1
<1>11. way[n] \in SUBSET P
  BY <1>3, <1>9, <1>10, PathStays
<1> QED BY <1>1, <1>11

(* A directory that can take i below it is not below i: up is what ".."    *)
(* will be of each directory once i is in q.                               *)
LEMMA NotAbove ==
  ASSUME NEW D, NEW E, NEW F, NEW L, TreeOn(D, E, F, L), F \cap D = {},
         NEW i, i # Root, NEW q \in D, NEW up,
         i \in D => /\ LeadUp(D, up) /\ up[i][2].ino = q
                   /\ \A r \in D \ {i} : up[r][2].ino = E[r][2].ino
  PROVE  i \notin View!Above(Told(D, E), q)
<1> USE DEF TreeOn
<1>0. /\ Root \in D
      /\ \A p \in D : E[p][2].ino \in D
      /\ \A p \in D : \A k \in Places : E[p][k].ino # 0 => E[p][k].ino \in (D \cup F) \ {Root}
  BY DEF TreeOf, Shape
<1>1. ASSUME NEW x \in Told(D, E)
      PROVE  x.dir \in D /\ (x.ino \in D => x.ino # Root /\ E[x.ino][2].ino = x.dir)
  <2>1. PICK p \in D, k \in Places : E[p][k].ino # 0 /\ x = Line(p, E[p][k])
    BY ToldIs
  <2>2. x.dir = p /\ x.ino = E[p][k].ino
    BY <2>1, LineFields
  <2>3. Occupied(D, E, p, k, x.ino)
    BY <2>1, <2>2 DEF Occupied
  <2> QED BY <2>2, <2>3, NamedByParent
<1>2. CASE i \notin D
  <2>1. View!Above(Told(D, E), q) \subseteq D
    BY <1>1, AboveStays
  <2> QED BY <2>1, <1>2
<1>3. CASE i \in D
  <2> DEFINE Closed(S) == i \in S /\ \A r \in D \ {Root} : E[r][2].ino \in S => r \in S
             B == {b \in D : \A S \in SUBSET D : Closed(S) => b \in S}
  <2>1. i \in B
    BY <1>3
  <2>2. \A r \in D \ {Root} : E[r][2].ino \in B => r \in B
    OBVIOUS
  <2>3. Root \notin B
    <3>1. Closed(D \ {Root})
      BY <1>3
    <3> QED BY <3>1, <1>0
  <2>4. ASSUME NEW b \in B \ {i} PROVE E[b][2].ino \in B
    <3> SUFFICES ASSUME E[b][2].ino \notin B PROVE FALSE
      OBVIOUS
    <3>1. Closed(B \ {b})
      BY <2>1, <2>2, <2>4
    <3>2. B \ {b} \in SUBSET D
      OBVIOUS
    <3> HIDE DEF Closed
    <3>3. b \in B \ {b}
      BY <3>1, <3>2
    <3> QED BY <3>3
  <2>5. q \notin B
    <3> SUFFICES ASSUME q \in B PROVE FALSE
      OBVIOUS
    <3>1. B \in SUBSET D /\ B # {} /\ \A r \in B \ {Root} : up[r][2].ino \in B
      <4> HIDE DEF B
      <4>1. B \in SUBSET D
        BY DEF B
      <4> QED BY <4>1, <1>3, <2>1, <2>4
    <3> HIDE DEF B
    <3>2. Root \in B
      BY <3>1, <1>3 DEF LeadUp
    <3> QED BY <3>2, <2>3
  <2>6. \A x \in Told(D, E) : x.ino \in D \ B => x.dir \in D \ B
    <3> HIDE DEF B
    <3> QED BY <1>1, <2>2
  <2>7. View!Above(Told(D, E), q) \subseteq D \ B
    <3>1. q \in D \ B
      BY <2>5
    <3> HIDE DEF B
    <3> QED BY <2>6, <3>1, AboveStays
  <2> QED BY <2>1, <2>7
<1> QED BY <1>2, <1>3
(***************************************************************************)
(* A volume as a program is told of it, and one whole operation on it.     *)
(***************************************************************************)
TreeIn(s) == Told(Dirs(s), Held(s))
Numbers(s) == {x.ino : x \in TreeIn(s)}
SizesIn(s) == [i \in Numbers(s) \cap Files(s) |-> Inode(s, i).size]
Untold(s, p, n) == p \in Dirs(s) /\ \A x \in TreeIn(s) : ~(x.dir = p /\ x.name = n)

Alike(s, t) == TreeIn(t) = TreeIn(s) /\ Dirs(t) = Dirs(s) /\ SizesIn(t) = SizesIn(s)
Resized(s, t, i, n) ==
  /\ i \in DOMAIN SizesIn(s)
  /\ TreeIn(t) = TreeIn(s) /\ Dirs(t) = Dirs(s)
  /\ SizesIn(t) = [SizesIn(s) EXCEPT ![i] = n]
Created(s, t, p, n, i) ==
  /\ Untold(s, p, n) /\ i \notin Numbers(s)
  /\ TreeIn(t) = TreeIn(s) \cup {[dir |-> p, name |-> n, ino |-> i]}
  /\ Dirs(t) = Dirs(s) /\ SizesIn(t) = View!With(SizesIn(s), i, 0)
Made(s, t, p, n, i) ==
  /\ Untold(s, p, n) /\ i \notin Numbers(s) /\ i # Root
  /\ TreeIn(t) = TreeIn(s) \cup {[dir |-> p, name |-> n, ino |-> i]}
  /\ Dirs(t) = Dirs(s) \cup {i} /\ SizesIn(t) = SizesIn(s)
Unlinked(s, t, x) ==
  /\ x \in TreeIn(s) /\ x.ino \notin Dirs(s)
  /\ TreeIn(t) = TreeIn(s) \ {x}
  /\ Dirs(t) = Dirs(s) /\ SizesIn(t) = View!Without(SizesIn(s), x.ino)
Removed(s, t, x) ==
  /\ x \in TreeIn(s) /\ x.ino \in Dirs(s) /\ \A y \in TreeIn(s) : y.dir # x.ino
  /\ TreeIn(t) = TreeIn(s) \ {x}
  /\ Dirs(t) = Dirs(s) \ {x.ino} /\ SizesIn(t) = SizesIn(s)
Renamed(s, t, x, q, n) ==
  /\ x \in TreeIn(s) /\ Untold(s, q, n) /\ x.ino \notin View!Above(TreeIn(s), q)
  /\ TreeIn(t) = (TreeIn(s) \ {x}) \cup {[dir |-> q, name |-> n, ino |-> x.ino]}
  /\ Dirs(t) = Dirs(s) /\ SizesIn(t) = SizesIn(s)
NamesGo(s, t) ==
  \/ Alike(s, t)
  \/ \E i, n : Resized(s, t, i, n)
  \/ \E p, n, i : Created(s, t, p, n, i) \/ Made(s, t, p, n, i)
  \/ \E x : Unlinked(s, t, x) \/ Removed(s, t, x)
  \/ \E x, q, n : Renamed(s, t, x, q, n)

\* no file that stays changes its size
SizesKept(s, t) == \A j \in Files(s) \cap Files(t) : Inode(t, j).size = Inode(s, j).size

(* A tree of names, as it is told.                                         *)
LEMMA ToldOn ==
  ASSUME NEW D, NEW E, NEW F, NEW L, TreeOn(D, E, F, L)
  PROVE  \A x \in Told(D, E) : x.dir \in D /\ x.ino \in (D \cup F) \ {Root}
<1> TAKE x \in Told(D, E)
<1>1. PICK p \in D, k \in Places : E[p][k].ino # 0 /\ x = Line(p, E[p][k])
  BY ToldIs
<1>2. x.dir = p /\ x.ino = E[p][k].ino
  BY <1>1, LineFields
<1> QED BY <1>1, <1>2 DEF TreeOn, TreeOf, Shape

(* A name that no entry of a directory has is not told of it.              *)
LEMMA NewUntold ==
  ASSUME NEW s, NEW p \in Dirs(s), NEW n, NewName(Held(s), p, n)
  PROVE  Untold(s, p, n)
<1> SUFFICES ASSUME NEW x \in TreeIn(s), x.dir = p, x.name = n PROVE FALSE
  BY DEF Untold
<1>1. PICK q \in Dirs(s), k \in Places : Held(s)[q][k].ino # 0 /\ x = Line(q, Held(s)[q][k])
  BY ToldIs DEF TreeIn
<1>2. q = p /\ Held(s)[q][k].name = n
  BY <1>1, LineFields
<1> QED BY <1>1, <1>2 DEF NewName

(* The numbers when a line comes or goes.                                  *)
LEMMA NumbersMore ==
  ASSUME NEW s, NEW t, NEW x, TreeIn(t) = TreeIn(s) \cup {x}
  PROVE  Numbers(t) = Numbers(s) \cup {x.ino}
  BY DEF Numbers

(* The numbers when one goes: no other led there.                          *)
LEMMA NumbersLess ==
  ASSUME NEW s, NEW t, Unique(Dirs(s), Held(s)), NEW x \in TreeIn(s), TreeIn(t) = TreeIn(s) \ {x}
  PROVE  Numbers(t) = Numbers(s) \ {x.ino}
<1>1. ASSUME NEW y \in TreeIn(s), y.ino = x.ino PROVE y = x
  <2>1. PICK p \in Dirs(s), k \in Places : Held(s)[p][k].ino # 0 /\ x = Line(p, Held(s)[p][k])
    BY ToldIs DEF TreeIn
  <2>2. PICK q \in Dirs(s), l \in Places : Held(s)[q][l].ino # 0 /\ y = Line(q, Held(s)[q][l])
    BY ToldIs DEF TreeIn
  <2>3. Held(s)[p][k].ino = Held(s)[q][l].ino
    BY <1>1, <2>1, <2>2, LineFields
  <2> QED BY <2>1, <2>2, <2>3 DEF Unique
<1> QED BY <1>1 DEF Numbers

(* A file is created.                                                      *)
CreateTold(s, t, p, k, i, n) ==
  /\ FileNaming(Dirs(s), Held(s), Files(s), LinksOf(s), p, k, i, n, Held(t), LinksOf(t))
  /\ Dirs(t) = Dirs(s) /\ Files(t) = Files(s) \cup {i}
  /\ SizesKept(s, t) /\ Inode(t, i).size = 0

(* A program is told of a new empty file under a new name.                 *)
LEMMA CreateTells ==
  ASSUME NEW s, NEW t, NEW p, NEW k, NEW i, NEW n, CreateTold(s, t, p, k, i, n)
  PROVE  NamesGo(s, t) /\ Numbers(t) = Numbers(s) \cup {i}
<1> USE DEF CreateTold
<1>1. /\ TreeOn(Dirs(s), Held(s), Files(s), LinksOf(s)) /\ p \in Dirs(s) /\ k \in Places
      /\ Held(s)[p][k].ino = 0 /\ NewName(Held(s), p, n) /\ i \in Ino \ (Dirs(s) \cup Files(s))
      /\ \A q \in Dirs(s) : \A l \in Places :
           Held(t)[q][l] = IF q = p /\ l = k THEN Entry(i, n) ELSE Held(s)[q][l]
  BY SlotFacts DEF FileNaming, Vacant
<1> DEFINE x == [dir |-> p, name |-> n, ino |-> i]
<1>2. TreeIn(t) = TreeIn(s) \cup {x}
  <2>1. Comes(Dirs(s), Held(s), Dirs(t), Held(t), p, k, i, n)
    BY <1>1 DEF Comes
  <2> QED BY <2>1, ToldMore DEF TreeIn
<1>3. Untold(s, p, n)
  BY <1>1, NewUntold
<1>4. i \notin Numbers(s)
  BY <1>1, ToldOn DEF Numbers, TreeIn
<1>5. Numbers(t) = Numbers(s) \cup {i}
  <2>1. x.ino = i
    OBVIOUS
  <2> HIDE DEF x
  <2> QED BY <1>2, <2>1, NumbersMore
<1>6. SizesIn(t) = View!With(SizesIn(s), i, 0)
  <2>1. Numbers(t) \cap Files(t) = (Numbers(s) \cap Files(s)) \cup {i}
    BY <1>5
  <2>2. \A j \in Numbers(s) \cap Files(s) : j # i /\ Inode(t, j).size = Inode(s, j).size
    BY <1>4 DEF SizesKept
  <2> QED BY <2>1, <2>2 DEF SizesIn, View!With
<1>7. Created(s, t, p, n, i)
  BY <1>2, <1>3, <1>4, <1>6 DEF Created
<1> QED BY <1>5, <1>7 DEF NamesGo

(* A directory is made.                                                    *)
MakeTold(s, t, p, k, i, n) ==
  /\ DirectoryNaming(Dirs(s), Held(s), Files(s), LinksOf(s), p, k, i, n, Held(t), LinksOf(t))
  /\ Dirs(t) = Dirs(s) \cup {i} /\ Files(t) = Files(s) /\ SizesKept(s, t)

(* A program is told of a new empty directory under a new name.            *)
LEMMA MakeTells ==
  ASSUME NEW s, NEW t, NEW p, NEW k, NEW i, NEW n, MakeTold(s, t, p, k, i, n)
  PROVE  NamesGo(s, t) /\ Numbers(t) = Numbers(s) \cup {i}
<1> USE DEF MakeTold
<1>1. /\ TreeOn(Dirs(s), Held(s), Files(s), LinksOf(s)) /\ p \in Dirs(s) /\ k \in Places
      /\ Held(s)[p][k].ino = 0 /\ NewName(Held(s), p, n) /\ i \in Ino \ (Dirs(s) \cup Files(s))
      /\ \A q \in Dirs(s) : \A l \in Places :
           Held(t)[q][l] = IF q = p /\ l = k THEN Entry(i, n) ELSE Held(s)[q][l]
      /\ \A l \in Places : Held(t)[i][l].ino = 0
  BY SlotFacts DEF DirectoryNaming, Vacant
<1> DEFINE x == [dir |-> p, name |-> n, ino |-> i]
<1>2. TreeIn(t) = TreeIn(s) \cup {x}
  <2>1. Comes(Dirs(s), Held(s), Dirs(t), Held(t), p, k, i, n)
    BY <1>1 DEF Comes
  <2> QED BY <2>1, ToldMore DEF TreeIn
<1>3. Untold(s, p, n)
  BY <1>1, NewUntold
<1>4. i \notin Numbers(s)
  BY <1>1, ToldOn DEF Numbers, TreeIn
<1>5. Numbers(t) = Numbers(s) \cup {i} /\ i # Root
  <2>1. x.ino = i
    OBVIOUS
  <2>2. i # Root
    BY <1>1 DEF TreeOn, TreeOf, Shape
  <2> HIDE DEF x
  <2> QED BY <1>2, <2>1, <2>2, NumbersMore
<1>6. SizesIn(t) = SizesIn(s)
  <2>1. Numbers(t) \cap Files(t) = Numbers(s) \cap Files(s)
    BY <1>1, <1>5
  <2>2. \A j \in Numbers(s) \cap Files(s) : Inode(t, j).size = Inode(s, j).size
    BY DEF SizesKept
  <2> QED BY <2>1, <2>2 DEF SizesIn
<1>7. Made(s, t, p, n, i)
  BY <1>2, <1>3, <1>4, <1>5, <1>6 DEF Made
<1> QED BY <1>5, <1>7 DEF NamesGo

(* A file loses its name, and is gone.                                     *)
UnlinkTold(s, t, p, k, i) ==
  /\ FileDropping(Dirs(s), Held(s), Files(s), LinksOf(s), p, k, i, Held(t), LinksOf(t))
  /\ Dirs(t) = Dirs(s) /\ Files(t) = Files(s) \ {i} /\ SizesKept(s, t)

(* A program is told that a file and its name are gone.                    *)
LEMMA UnlinkTells ==
  ASSUME NEW s, NEW t, NEW p, NEW k, NEW i, UnlinkTold(s, t, p, k, i)
  PROVE  NamesGo(s, t) /\ Numbers(t) = Numbers(s) \ {i}
<1> USE DEF UnlinkTold
<1>1. /\ Unique(Dirs(s), Held(s)) /\ p \in Dirs(s) /\ k \in Places
      /\ Held(s)[p][k].ino = i /\ i # 0 /\ i \notin Dirs(s)
      /\ \A q \in Dirs(s) : \A l \in Places :
           Held(t)[q][l] = IF q = p /\ l = k THEN NoEntry ELSE Held(s)[q][l]
  BY SlotFacts DEF FileDropping, Occupied, TreeOn, TreeOf
<1> DEFINE x == Line(p, Held(s)[p][k])
<1>2. x.ino = i
  BY <1>1, LineFields
<1>3. x \in TreeIn(s) /\ TreeIn(t) = TreeIn(s) \ {x}
  <2>1. Goes(Dirs(s), Held(s), Dirs(t), Held(t), p, k)
    BY <1>1 DEF Goes
  <2> QED BY <2>1, ToldLess DEF TreeIn
<1> HIDE DEF x
<1>4. Numbers(t) = Numbers(s) \ {i}
  BY <1>1, <1>2, <1>3, NumbersLess
<1>5. SizesIn(t) = View!Without(SizesIn(s), i)
  <2>1. Numbers(t) \cap Files(t) = (Numbers(s) \cap Files(s)) \ {i}
    BY <1>4
  <2>2. \A j \in (Numbers(s) \cap Files(s)) \ {i} : Inode(t, j).size = Inode(s, j).size
    BY DEF SizesKept
  <2> QED BY <2>1, <2>2 DEF SizesIn, View!Without
<1>6. Unlinked(s, t, x)
  BY <1>1, <1>2, <1>3, <1>5 DEF Unlinked
<1> QED BY <1>4, <1>6 DEF NamesGo

(* An empty directory loses its name, and is gone.                         *)
RemoveTold(s, t, p, k, i) ==
  /\ DirectoryDropping(Dirs(s), Held(s), Files(s), LinksOf(s), p, k, i, Held(t), LinksOf(t))
  /\ Dirs(t) = Dirs(s) \ {i} /\ Files(t) = Files(s) /\ i \notin Files(s) /\ SizesKept(s, t)

(* A program is told that an empty directory and its name are gone.        *)
LEMMA RemoveTells ==
  ASSUME NEW s, NEW t, NEW p, NEW k, NEW i, RemoveTold(s, t, p, k, i)
  PROVE  NamesGo(s, t) /\ Numbers(t) = Numbers(s) \ {i}
<1>0. p # i
  BY NamedByParent DEF RemoveTold, DirectoryDropping
<1> USE DEF RemoveTold
<1>1. /\ Unique(Dirs(s), Held(s)) /\ p \in Dirs(t) /\ k \in Places /\ i \in Dirs(s)
      /\ Held(s)[p][k].ino = i /\ i # 0 /\ \A l \in Places : Held(s)[i][l].ino = 0
      /\ \A q \in Dirs(t) : \A l \in Places :
           Held(t)[q][l] = IF q = p /\ l = k THEN NoEntry ELSE Held(s)[q][l]
  BY <1>0, SlotFacts DEF DirectoryDropping, Occupied, TreeOn, TreeOf
<1> DEFINE x == Line(p, Held(s)[p][k])
<1>2. x.ino = i
  BY <1>1, LineFields
<1>3. x \in TreeIn(s) /\ TreeIn(t) = TreeIn(s) \ {x}
  <2>1. Goes(Dirs(s), Held(s), Dirs(t), Held(t), p, k)
    BY <1>1 DEF Goes
  <2> QED BY <2>1, ToldLess DEF TreeIn
<1> HIDE DEF x
<1>4. Numbers(t) = Numbers(s) \ {i}
  BY <1>1, <1>2, <1>3, NumbersLess
<1>5. SizesIn(t) = SizesIn(s)
  <2>1. Numbers(t) \cap Files(t) = Numbers(s) \cap Files(s)
    BY <1>4
  <2>2. \A j \in Numbers(s) \cap Files(s) : Inode(t, j).size = Inode(s, j).size
    BY DEF SizesKept
  <2> QED BY <2>1, <2>2 DEF SizesIn
<1>6. \A y \in TreeIn(s) : y.dir # i
  <2> SUFFICES ASSUME NEW y \in TreeIn(s), y.dir = i PROVE FALSE
    OBVIOUS
  <2>1. PICK q \in Dirs(s), l \in Places : Held(s)[q][l].ino # 0 /\ y = Line(q, Held(s)[q][l])
    BY ToldIs DEF TreeIn
  <2>2. q = i
    BY <2>1, LineFields
  <2> QED BY <1>1, <2>1, <2>2
<1>7. Removed(s, t, x)
  BY <1>1, <1>2, <1>3, <1>5, <1>6 DEF Removed
<1> QED BY <1>4, <1>7 DEF NamesGo

(* An entry gets another name, or a place in another directory.            *)
ShiftTold(s, t, p, k, q, m, i, n) ==
  /\ Shifts(Dirs(s), Held(s), Held(t), p, k, q, m, i, n) /\ NewName(Held(s), q, n)
  /\ i \notin View!Above(TreeIn(s), q)
  /\ Dirs(t) = Dirs(s) /\ Files(t) = Files(s) /\ SizesKept(s, t)

(* A program is told the new line of what was there, and nothing else.     *)
LEMMA ShiftTells ==
  ASSUME NEW s, NEW t, NEW p, NEW k, NEW q, NEW m, NEW i, NEW n,
         ShiftTold(s, t, p, k, q, m, i, n)
  PROVE  NamesGo(s, t) /\ Numbers(t) = Numbers(s)
<1> USE DEF ShiftTold
<1> DEFINE x == Line(p, Held(s)[p][k])
           y == [dir |-> q, name |-> n, ino |-> i]
<1>1. x.ino = i /\ y.ino = i /\ q \in Dirs(s)
  BY LineFields DEF Shifts
<1>2. x \in TreeIn(s) /\ TreeIn(t) = (TreeIn(s) \ {x}) \cup {y}
  BY ToldElsewhere DEF TreeIn
<1>3. Untold(s, q, n)
  BY <1>1, NewUntold
<1>3a. Numbers(t) = Numbers(s)
  <2> HIDE DEF x, y
  <2> QED BY <1>1, <1>2 DEF Numbers
<1>4. SizesIn(t) = SizesIn(s)
  <2>1. Numbers(t) = Numbers(s)
    BY <1>3a
  <2>2. \A j \in Numbers(s) \cap Files(s) : Inode(t, j).size = Inode(s, j).size
    BY DEF SizesKept
  <2> QED BY <2>1, <2>2 DEF SizesIn
<1> HIDE DEF x
<1>5. Renamed(s, t, x, q, n)
  BY <1>1, <1>2, <1>3, <1>4 DEF Renamed
<1> QED BY <1>3a, <1>5 DEF NamesGo

(* A name changes in the same directory, which it is not above.            *)
LEMMA RenameTells ==
  ASSUME NEW s, NEW t, NEW p, NEW k, NEW i, NEW n,
         EntryRenaming(Dirs(s), Held(s), Files(s), LinksOf(s), p, k, i, n, Held(t), LinksOf(t)),
         Files(s) \cap Dirs(s) = {}, i \in Dirs(s) \cup Files(s), i # Root,
         Dirs(t) = Dirs(s), Files(t) = Files(s), SizesKept(s, t)
  PROVE  NamesGo(s, t) /\ Numbers(t) = Numbers(s)
<1>1. /\ TreeOn(Dirs(s), Held(s), Files(s), LinksOf(s)) /\ Occupied(Dirs(s), Held(s), p, k, i)
      /\ NewName(Held(s), p, n) /\ p \in Dirs(s) /\ LeadUp(Dirs(s), Held(s)) /\ i \in Ino
  BY DEF EntryRenaming, Occupied, TreeOn, TreeOf
<1>2. i \in Dirs(s) => Held(s)[i][2].ino = p
  BY <1>1, NamedByParent
<1>3. i \notin View!Above(TreeIn(s), p)
  BY <1>1, <1>2, NotAbove DEF TreeIn
<1>4. Shifts(Dirs(s), Held(s), Held(t), p, k, p, k, i, n)
  BY <1>1, SlotFacts DEF Shifts, EntryRenaming, Occupied, TreeOn, TreeOf
<1>5. ShiftTold(s, t, p, k, p, k, i, n)
  BY <1>1, <1>3, <1>4 DEF ShiftTold
<1> QED BY <1>5, ShiftTells

(* A name goes to another directory, which it is not above.                *)
LEMMA MoveTells ==
  ASSUME NEW s, NEW t, NEW p, NEW k, NEW i, NEW q, NEW m, NEW n,
         EntryMoving(Dirs(s), Held(s), Files(s), LinksOf(s), p, k, i, q, m, n, Held(t)),
         Files(s) \cap Dirs(s) = {}, i \in Dirs(s) \cup Files(s), i # Root,
         i \in Dirs(s) => /\ LeadUp(Dirs(s), Held(t)) /\ Held(t)[i][2].ino = q
                          /\ \A r \in Dirs(s) \ {i} : Held(t)[r][2] = Held(s)[r][2],
         Dirs(t) = Dirs(s), Files(t) = Files(s), SizesKept(s, t)
  PROVE  NamesGo(s, t) /\ Numbers(t) = Numbers(s)
<1>1. /\ TreeOn(Dirs(s), Held(s), Files(s), LinksOf(s)) /\ Occupied(Dirs(s), Held(s), p, k, i)
      /\ Vacant(Dirs(s), Held(s), q, m, n) /\ NewName(Held(s), q, n) /\ q \in Dirs(s) /\ i \in Ino
  BY DEF EntryMoving, Vacant, TreeOn
<1>2. i \notin View!Above(TreeIn(s), q)
  BY <1>1, NotAbove DEF TreeIn
<1>3. Shifts(Dirs(s), Held(s), Held(t), p, k, q, m, i, n)
  BY <1>1, SlotFacts DEF Shifts, EntryMoving, Occupied, Vacant, TreeOn, TreeOf
<1>4. ShiftTold(s, t, p, k, q, m, i, n)
  BY <1>1, <1>2, <1>3 DEF ShiftTold
<1> QED BY <1>4, ShiftTells

(* Only the size of one file may change.                                   *)
LEMMA OneResized ==
  ASSUME NEW s, NEW t, NEW i, Held(t) = Held(s), Dirs(t) = Dirs(s), Files(t) = Files(s),
         \A j \in Files(s) \ {i} : Inode(t, j).size = Inode(s, j).size
  PROVE  NamesGo(s, t)
<1>1. TreeIn(t) = TreeIn(s) /\ Numbers(t) = Numbers(s)
  BY DEF TreeIn, Numbers
<1>2. CASE i \in Numbers(s) \cap Files(s)
  <2> DEFINE n == Inode(t, i).size
  <2>1. SizesIn(t) = [SizesIn(s) EXCEPT ![i] = n] /\ i \in DOMAIN SizesIn(s)
    BY <1>1, <1>2 DEF SizesIn
  <2>2. Resized(s, t, i, n)
    BY <1>1, <2>1 DEF Resized
  <2> QED BY <2>2 DEF NamesGo
<1>3. CASE i \notin Numbers(s) \cap Files(s)
  <2>1. SizesIn(t) = SizesIn(s)
    BY <1>1, <1>3 DEF SizesIn
  <2> QED BY <1>1, <2>1 DEF NamesGo, Alike
<1> QED BY <1>2, <1>3

(***************************************************************************)
(* Each transaction leaves a sound volume, and the operation may go on.    *)
(***************************************************************************)
(* What a sound volume is, one by one.                                     *)
LEMMA SoundFacts ==
  ASSUME NEW s, Sound(s)
  PROVE  /\ Blocks(s) /\ Maps(s) /\ Tables(s) /\ Datas(s) /\ Whole(s)
         /\ Counting(s) /\ Owning(s) /\ Rooted(s)
         /\ TreeOn(Dirs(s), Held(s), Files(s), LinksOf(s))
         /\ Files(s) \cap Dirs(s) = {} /\ Files(s) \subseteq InUse(s) /\ Dirs(s) \subseteq InUse(s)
         /\ Taken(s) \subseteq Blk /\ InUse(s) \subseteq Ino
<1>1. Blocks(s) /\ Maps(s) /\ Tables(s) /\ Datas(s) /\ Counting(s) /\ Owning(s) /\ Rooted(s)
  BY DEF Sound, Blocks
<1>2. Whole(s)
  <2>1. s = [x \in BlockName |-> s[x]]
    BY DEF Sound, Blocks
  <2> QED BY <2>1 DEF Whole
<1>3. Taken(s) \subseteq Blk /\ InUse(s) \subseteq Ino
  BY <1>1, Bits
<1>4. Dirs(s) \subseteq InUse(s) /\ \A p \in Dirs(s) : Inode(s, p).kind = "dir"
  BY <1>1, DirFacts
<1>5. Files(s) \subseteq InUse(s) /\ \A i \in Files(s) : Inode(s, i).kind = "file"
  BY DEF Files
<1>6. TreeOn(Dirs(s), Held(s), Files(s), LinksOf(s))
  BY <1>1, <1>3, <1>4, <1>5 DEF TreeOn, Rooted
<1> QED BY <1>1, <1>2, <1>3, <1>4, <1>5, <1>6

(* What a step leaves is a volume of whole blocks again.                   *)
LEMMA BlocksAfter ==
  ASSUME NEW s, Whole(s), NEW tx, NEW t, t = Overlay(s, tx), Maps(t), Tables(t), Datas(t)
  PROVE  Blocks(t)
<1>1. t = [x \in BlockName |-> t[x]]
  BY OverlayWhole
<1> QED BY <1>1 DEF Blocks

(* The names are as before.                                                *)
SameNames(s, t) ==
  /\ Dirs(t) = Dirs(s) /\ Files(t) = Files(s)
  /\ \A p \in Dirs(s) : Ents(t, p) = Ents(s, p)
  /\ \A j \in Dirs(s) \cup Files(s) : Inode(t, j).links = Inode(s, j).links

(* Then the tree is as before.                                             *)
LEMMA NamesStay ==
  ASSUME NEW s, Sound(s), NEW t, SameNames(s, t)
  PROVE  /\ Rooted(t) /\ NamedIn(t) = NamedIn(s)
         /\ \A p, k : p \in Dirs(s) => At(t, p, k) = At(s, p, k)
<1>1. Held(t) = Held(s)
  BY DEF Held, SameNames
<1>2. TreeOf(Dirs(s), Held(s), Files(s), LinksOf(s)) /\ Dirs(s) \cup Files(s) \subseteq Ino
  BY SoundFacts DEF Rooted
<1>3. \A j \in Dirs(s) \cup Files(s) : LinksOf(t)[j] = LinksOf(s)[j]
  BY <1>2 DEF SameNames, LinksOf
<1>4. TreeOf(Dirs(s), Held(s), Files(s), LinksOf(t))
  BY <1>2, <1>3 DEF TreeOf, Linked
<1>5. Rooted(t)
  BY <1>1, <1>4 DEF Rooted, SameNames
<1>6. \A p, k : p \in Dirs(s) => At(t, p, k) = At(s, p, k)
  BY DEF At, SameNames
<1>7. NamedIn(t) = NamedIn(s)
  BY <1>6 DEF NamedIn, SameNames
<1> QED BY <1>5, <1>6, <1>7

(* Where the names are as before, what a program is told changes by the    *)
(* size of one file at most.                                               *)
LEMMA NamesGoOn ==
  ASSUME NEW s, NEW t, SameNames(s, t), Files(s) \subseteq Ino, NEW i,
         \A j \in Ino \ {i} : Inode(t, j).size = Inode(s, j).size
  PROVE  NamesGo(s, t)
<1>1. Held(t) = Held(s) /\ Dirs(t) = Dirs(s) /\ Files(t) = Files(s)
  BY DEF Held, SameNames
<1> QED BY <1>1, OneResized

(* What a step leaves: which inodes and blocks are taken, which inodes are *)
(* named, which are directories; and what it leaves alone.                 *)
Tally(t, use, taken, numbers, dirs) ==
  InUse(t) = use /\ Taken(t) = taken /\ Numbers(t) = numbers /\ Dirs(t) = dirs
SameInodes(s, t, I) == \A j \in Ino \ I : Inode(t, j) = Inode(s, j)
SameBut(s, t, B) == \A c \in Blk \ B : t[Data(c)] = s[Data(c)]
DirBlks(s) == {DirBlk(s, p) : p \in Dirs(s)}

FreeLeft(s, t, b) ==
  /\ FreedBlk(s, t, b) /\ Tally(t, InUse(s), Taken(s) \ {b}, Numbers(s), Dirs(s))
  /\ SameInodes(s, t, {}) /\ SameBut(s, t, {})
CreateLeft(s, t, i) ==
  /\ i \in Ino \ InUse(s) /\ TookIno(s, t, i, 0) /\ Inode(t, i) = NewFile
  /\ Tally(t, InUse(s) \cup {i}, Taken(s), Numbers(s) \cup {i}, Dirs(s))
  /\ SameInodes(s, t, {i}) /\ SameBut(s, t, DirBlks(s))
MkdirLeft(s, t, i) ==
  /\ i \in Ino \ InUse(s) /\ TookIno(s, t, i, 1) /\ Inode(t, i) = NewDir
  /\ Tally(t, InUse(s) \cup {i}, Taken(s), Numbers(s), Dirs(s))
  /\ SameInodes(s, t, {i}) /\ SameBut(s, t, {})
WireLeft(s, t, p, i, b) ==
  /\ i \in InUse(s) /\ p \in Dirs(s) /\ i \notin Dirs(s) /\ b \in Blk \ Taken(s)
  /\ TookBlk(s, t, b)
  /\ Tally(t, InUse(s), Taken(s) \cup {b}, Numbers(s) \cup {i}, Dirs(s) \cup {i})
  /\ SameInodes(s, t, {i, p}) /\ SameBut(s, t, DirBlks(s) \cup {b})
  /\ Holds(s, i) = {} /\ Holds(t, i) = {b} /\ Inode(t, i).kind = "dir"
  /\ Inode(t, p).ext = Inode(s, p).ext /\ Inode(t, p).kind = "dir"
DeleteLeft(s, t, p, i, d) ==
  /\ i \in InUse(s) /\ p \in Dirs(s) /\ i # p /\ FreedIno(s, t, i, d)
  /\ Tally(t, InUse(s) \ {i}, Taken(s), Numbers(s) \ {i}, Dirs(s) \ {i})
  /\ SameInodes(s, t, {i, p}) /\ SameBut(s, t, DirBlks(s))
  /\ Inode(t, p).ext = Inode(s, p).ext /\ Inode(t, p).kind = "dir"
Became(t, i, x, n, d) ==
  Inode(t, i).kind = "file" /\ Inode(t, i).ext = x /\ Inode(t, i).size = n /\ Inode(t, i).nblk = d
FileLeft(s, t, i, B) ==
  /\ i \in Files(s) /\ SameInodes(s, t, {i})
  /\ Tally(t, InUse(s), Taken(s) \cup B, Numbers(s), Dirs(s))
  /\ SameBut(s, t, B) /\ \A b \in B : t[Data(b)] = FileData(i)
NamesLeft(s, t) ==
  /\ SameMaps(s, t) /\ Tally(t, InUse(s), Taken(s), Numbers(s), Dirs(s))
  /\ \A j \in Ino : Inode(t, j).kind = Inode(s, j).kind /\ Inode(t, j).ext = Inode(s, j).ext
  /\ SameInodes(s, t, Dirs(s)) /\ SameBut(s, t, DirBlks(s))

(* Where the names are as before, the same inodes are named.               *)
LEMMA SameNumbers ==
  ASSUME NEW s, NEW t, SameNames(s, t)
  PROVE  Numbers(t) = Numbers(s) /\ Dirs(t) = Dirs(s)
<1>1. Held(t) = Held(s) /\ Dirs(t) = Dirs(s)
  BY DEF Held, SameNames
<1> QED BY <1>1 DEF Numbers, TreeIn

(* A block that is held is freed: all that changes is which are taken.     *)
LEMMA FreeStep ==
  ASSUME NEW s, Sound(s), NEW b \in Taken(s) \ Meta, NEW t, t = Overlay(s, FreeBlk(s, b))
  PROVE  /\ Sound(t) /\ SameNames(s, t) /\ NamesGo(s, t) /\ FreeLeft(s, t, b)
         /\ Taken(t) = Taken(s) \ {b} /\ InUse(t) = InUse(s)
         /\ \A j \in Ino : Inode(t, j) = Inode(s, j)
<1>1. Whole(t) /\ FreedBlk(s, t, b) /\ SameTables(s, t) /\ SameDatas(s, t)
  BY SoundFacts, FreeLeaves
<1>2. Maps(t) /\ Counting(t) /\ Taken(t) = Taken(s) \ {b} /\ InUse(t) = InUse(s)
  BY <1>1, SoundFacts, FreedBlkCounts
<1>3. Tables(t) /\ Datas(t) /\ \A j \in Ino : Inode(t, j) = Inode(s, j)
  BY <1>1, SoundFacts DEF SameTables, SameDatas, Tables, Datas, Inode
<1>4. Blocks(t)
  BY <1>2, <1>3, SoundFacts, BlocksAfter
<1>5. Owning(t)
  <2>1. InUse(s) \subseteq Ino /\ Owning(s)
    BY SoundFacts
  <2>2. \A j \in InUse(s) : Holds(t, j) = Holds(s, j) /\ Inode(t, j).ext = Inode(s, j).ext
    BY <1>3, <2>1 DEF Holds
  <2> QED BY <1>2, <2>1, <2>2 DEF Owning
<1>6. SameNames(s, t)
  <2>1. Retold(s, t, {}, {}, {}, << >>)
    BY <1>1, <1>2, <1>3 DEF Retold, SameDatas
  <2>2. /\ \A j \in Ino \ {} : IsDir(t, j) <=> IsDir(s, j)
        /\ \A j \in Dirs(s) \ {} : Ents(t, j) = IF j \in {} THEN << >>[j] ELSE Ents(s, j)
    BY <2>1, <1>2, SoundFacts, DirsAfter
  <2>3. Dirs(t) = Dirs(s) /\ \A j \in Dirs(s) : Ents(t, j) = Ents(s, j)
    BY <2>2 DEF Dirs
  <2>4. Files(t) = Files(s)
    BY <1>2, <1>3, SoundFacts DEF Files
  <2> QED BY <2>3, <2>4, <1>3, SoundFacts DEF SameNames
<1>7. NamesGo(s, t)
  BY <1>3, <1>6, SoundFacts, NamesGoOn
<1>8. FreeLeft(s, t, b)
  BY <1>1, <1>2, <1>3, <1>6, SameNumbers DEF FreeLeft, Tally, SameInodes, SameBut, SameDatas
<1> QED BY <1>2, <1>3, <1>4, <1>5, <1>6, <1>7, <1>8, NamesStay DEF Sound

(* No inode a step took is named yet.                                      *)
LEMMA Nameless ==
  ASSUME NEW s, Sound(s), NEW i, i \notin InUse(s)
  PROVE  i \notin Dirs(s) /\ i \notin Files(s) /\ i # Root /\ i \notin NamedIn(s)
<1>1. i \notin Dirs(s) /\ i \notin Files(s)
  BY SoundFacts
<1>2. /\ Root \in Dirs(s)
      /\ \A p \in Dirs(s) : \A k \in Places : Held(s)[p][k].ino # 0 =>
           Held(s)[p][k].ino \in Dirs(s) \cup Files(s)
  BY SoundFacts DEF Rooted, TreeOf, Shape
<1>3. \A p \in Dirs(s), k \in Places : At(s, p, k) # i \/ i = 0
  BY <1>1, <1>2 DEF At, Held
<1> QED BY <1>1, <1>2, <1>3, SlotFacts DEF NamedIn

(* create: the new file is named, and only it.                             *)
LEMMA CreateStep ==
  ASSUME NEW s, Going(s, Idle), NEW p \in Dirs(s), NEW n \in Name,
         Lookup(s, p, n) = {}, HasRoom(s, p), CanAllocIno(s),
         NEW t, t = Overlay(s, CreateTx(s, p, n, AllocIno(s)))
  PROVE  Going(t, Idle) /\ NamesGo(s, t) /\ CreateLeft(s, t, AllocIno(s))
<1> DEFINE i == AllocIno(s)
           f1 == Insert(Ents(s, p), i, n)
<1>0. Sound(s) /\ AllTaken(s, {})
  BY DEF Going, Losing, Idle
<1>1. i \in Ino \ InUse(s)
  BY <1>0, SoundFacts, AllocInoFree
<1> HIDE DEF i
<1>2. PICK k \in Places : /\ Vacant(Dirs(s), Held(s), p, k, n)
                          /\ f1 = [Ents(s, p) EXCEPT ![k] = Entry(i, n)]
  BY <1>0, VacantSlot
<1>3. /\ p \in Ino /\ DirBlk(s, p) \in Blk
      /\ Ents(s, p) \in [Slot -> Record] /\ Held(s)[p] = Ents(s, p)
  BY <1>0, SoundFacts, DirFacts
<1>4. f1 \in [Slot -> Record]
  <2> HIDE DEF f1
  <2>1. Entry(i, n) \in Record
    BY <1>1, NewNodes
  <2> QED BY <2>1, <1>2, <1>3
<1>5. \A l \in Slot : f1[l] = IF l = k THEN Entry(i, n) ELSE Ents(s, p)[l]
  <2> HIDE DEF f1
  <2> QED BY <1>2, <1>3, SlotFacts
<1>6. /\ Whole(t) /\ TookIno(s, t, i, 0) /\ WroteInode(s, t, i, NewFile)
      /\ WroteData(s, t, DirBlk(s, p), DirBlock(f1))
  BY <1>0, <1>1, <1>3, SoundFacts, CreateLeaves DEF i
<1> HIDE DEF f1
<1>7. Maps(t) /\ Counting(t) /\ Taken(t) = Taken(s) /\ InUse(t) = InUse(s) \cup {i}
  BY <1>0, <1>1, <1>6, SoundFacts, TookInoCounts
<1>8. Tables(t) /\ \A j \in Ino : Inode(t, j) = IF j = i THEN NewFile ELSE Inode(s, j)
  BY <1>0, <1>1, <1>6, SoundFacts, NewNodes, InodeWritten
<1>9. Datas(t)
  BY <1>0, <1>4, <1>6, SoundFacts, NewNodes DEF Datas, WroteData
<1>10. Blocks(t)
  BY <1>0, <1>7, <1>8, <1>9, SoundFacts, BlocksAfter
<1>11. NewFile.ext = << >> /\ NewFile.kind = "file" /\ NewFile.links = 1
  BY DEF NewFile, Blank
<1>12. Once(Inode(t, i).ext) /\ Holds(t, i) = {}
  BY <1>1, <1>8, <1>11, NewNodes DEF Once, Holds, Claims
<1>13. \A j \in InUse(s) : j # i /\ j \in Ino /\ Inode(t, j) = Inode(s, j)
  BY <1>0, <1>1, <1>8, SoundFacts
<1>14. Owning(t)
  <2>1. Granted(s, t, i, {})
    BY <1>0, <1>1, <1>7, <1>12, <1>13, SoundFacts DEF Granted, Owning
  <2> QED BY <1>0, <2>1, SoundFacts, OwningAfter
<1>15. AllTaken(t, {})
  BY <1>0, <1>7, <1>12, <1>13 DEF AllTaken, Holds
<1>16. /\ \A j \in Ino \ {i} : IsDir(t, j) <=> IsDir(s, j)
       /\ \A j \in Dirs(s) \ {i} : Ents(t, j) = IF j = p THEN f1 ELSE Ents(s, j)
  <2> DEFINE G == [w \in {p} |-> f1]
  <2>1. G[p] = f1
    OBVIOUS
  <2> HIDE DEF G
  <2>2. Retold(s, t, {i}, {}, {p}, G)
    <3>1. \A j \in Ino \ {i} : (j \in InUse(t) <=> j \in InUse(s)) /\ Inode(t, j) = Inode(s, j)
      BY <1>7, <1>8
    <3>2. \A c \in Blk : t[Data(c)] = IF c = DirBlk(s, p) THEN DirBlock(G[p]) ELSE s[Data(c)]
      BY <1>6, <2>1 DEF WroteData
    <3> QED BY <1>3, <3>1, <3>2 DEF Retold
  <2>3. /\ \A j \in Ino \ {i} : IsDir(t, j) <=> IsDir(s, j)
        /\ \A j \in Dirs(s) \ {i} : Ents(t, j) = IF j \in {p} THEN G[j] ELSE Ents(s, j)
    BY <1>0, <1>7, <2>2, SoundFacts, DirsAfter
  <2> QED BY <2>1, <2>3
<1>17. i \notin Dirs(s) /\ i \notin Files(s)
  BY <1>0, <1>1, Nameless
<1>18. Dirs(t) = Dirs(s)
  <2>1. ~IsDir(t, i)
    BY <1>1, <1>8, <1>11 DEF IsDir
  <2> QED BY <2>1, <1>16, <1>17 DEF Dirs
<1>19. Files(t) = Files(s) \cup {i}
  BY <1>1, <1>7, <1>8, <1>11, <1>13 DEF Files
<1>20. \A q \in Dirs(s) : Held(t)[q] = IF q = p THEN f1 ELSE Held(s)[q]
  BY <1>16, <1>17, <1>18 DEF Held
<1>21. FileNaming(Dirs(s), Held(s), Files(s), LinksOf(s), p, k, i, n, Held(t), LinksOf(t))
  <2>1. \A q \in Dirs(s) : \A l \in Slot :
          Held(t)[q][l] = IF q = p /\ l = k THEN Entry(i, n) ELSE Held(s)[q][l]
    BY <1>3, <1>5, <1>20
  <2>2. LinksOf(t)[i] = 1 /\ \A j \in Dirs(s) \cup Files(s) : LinksOf(t)[j] = LinksOf(s)[j]
    BY <1>0, <1>1, <1>8, <1>11, <1>13, SoundFacts DEF LinksOf
  <2> QED BY <1>0, <1>1, <1>2, <1>17, <2>1, <2>2, SoundFacts DEF FileNaming
<1>22. Rooted(t)
  BY <1>18, <1>19, <1>21, FileIsNamed DEF Rooted
<1>23. NamesGo(s, t) /\ Numbers(t) = Numbers(s) \cup {i}
  <2>1. NewFile.size = 0
    BY DEF NewFile, Blank
  <2>2. SizesKept(s, t) /\ Inode(t, i).size = 0
    BY <1>0, <1>1, <1>8, <1>13, <2>1, SoundFacts DEF SizesKept
  <2> QED BY <1>18, <1>19, <1>21, <2>2, CreateTells DEF CreateTold
<1>24. CreateLeft(s, t, i)
  <2>1. DirBlk(s, p) \in DirBlks(s)
    BY DEF DirBlks
  <2>2. SameBut(s, t, DirBlks(s))
    BY <1>6, <2>1 DEF SameBut, WroteData
  <2>3. Inode(t, i) = NewFile /\ SameInodes(s, t, {i})
    BY <1>1, <1>8 DEF SameInodes
  <2> QED BY <1>1, <1>6, <1>7, <1>18, <1>23, <2>2, <2>3 DEF CreateLeft, Tally
<1>25. CreateLeft(s, t, AllocIno(s))
  BY <1>24 DEF i
<1> QED BY <1>25, <1>23, <1>7, <1>10, <1>14, <1>15, <1>22 DEF Going, Sound, Doing, Losing, Idle

(* mkdir begins: an inode of no blocks is taken, and nothing names it.     *)
LEMMA MkdirStep ==
  ASSUME NEW s, Going(s, Idle), NEW p \in Dirs(s), NEW n \in Name,
         Lookup(s, p, n) = {}, HasRoom(s, p), CanAllocIno(s),
         NEW t, t = Overlay(s, MkdirTx1(s, AllocIno(s))), NEW o,
         o = [do |-> "mkdir", begun |-> TRUE, dir |-> p, name |-> n, ino |-> AllocIno(s)]
  PROVE  Going(t, o) /\ NamesGo(s, t) /\ MkdirLeft(s, t, AllocIno(s))
<1> DEFINE i == AllocIno(s)
<1>0. Sound(s) /\ AllTaken(s, {})
  BY DEF Going, Losing, Idle
<1>1. i \in Ino \ InUse(s)
  BY <1>0, SoundFacts, AllocInoFree
<1> HIDE DEF i
<1>2. Whole(t) /\ TookIno(s, t, i, 1) /\ WroteInode(s, t, i, NewDir) /\ SameDatas(s, t)
  BY <1>0, <1>1, SoundFacts, Mkdir1Leaves DEF i
<1>3. Maps(t) /\ Counting(t) /\ Taken(t) = Taken(s) /\ InUse(t) = InUse(s) \cup {i}
  BY <1>0, <1>1, <1>2, SoundFacts, TookInoCounts
<1>4. Tables(t) /\ \A j \in Ino : Inode(t, j) = IF j = i THEN NewDir ELSE Inode(s, j)
  BY <1>0, <1>1, <1>2, SoundFacts, NewNodes, InodeWritten
<1>5. Datas(t)
  BY <1>0, <1>2, SoundFacts DEF Datas, SameDatas
<1>6. Blocks(t)
  BY <1>0, <1>3, <1>4, <1>5, SoundFacts, BlocksAfter
<1>7. NewDir.ext = << >> /\ NewDir.kind = "dir"
  BY DEF NewDir, Blank
<1>8. Once(Inode(t, i).ext) /\ Holds(t, i) = {}
  BY <1>1, <1>4, <1>7, NewNodes DEF Once, Holds, Claims
<1>9. \A j \in InUse(s) : j # i /\ j \in Ino /\ Inode(t, j) = Inode(s, j)
  BY <1>0, <1>1, <1>4, SoundFacts
<1>10. Owning(t)
  <2>1. Granted(s, t, i, {})
    BY <1>0, <1>1, <1>3, <1>8, <1>9, SoundFacts DEF Granted, Owning
  <2> QED BY <1>0, <2>1, SoundFacts, OwningAfter
<1>11. AllTaken(t, {})
  BY <1>0, <1>3, <1>8, <1>9 DEF AllTaken, Holds
<1>12. i \notin Dirs(s) /\ i \notin Files(s) /\ i # Root /\ i \notin NamedIn(s)
  BY <1>0, <1>1, Nameless
<1>13. /\ \A j \in Ino \ {i} : IsDir(t, j) <=> IsDir(s, j)
       /\ \A j \in Dirs(s) \ {i} : Ents(t, j) = Ents(s, j)
  <2>1. Retold(s, t, {i}, {}, {}, << >>)
    <3>1. \A j \in Ino \ {i} : (j \in InUse(t) <=> j \in InUse(s)) /\ Inode(t, j) = Inode(s, j)
      BY <1>3, <1>4
    <3> QED BY <1>2, <3>1 DEF Retold, SameDatas
  <2>2. /\ \A j \in Ino \ {i} : IsDir(t, j) <=> IsDir(s, j)
        /\ \A j \in Dirs(s) \ {i} : Ents(t, j) = IF j \in {} THEN << >>[j] ELSE Ents(s, j)
    BY <1>0, <1>3, <2>1, SoundFacts, DirsAfter
  <2> QED BY <2>2
<1>14. Dirs(t) = Dirs(s)
  <2>1. ~IsDir(t, i)
    <3>1. Inode(t, i).ext = << >>
      BY <1>1, <1>4, <1>7
    <3>2. First(t, i) = {}
      BY <3>1 DEF First
    <3> QED BY <3>2 DEF IsDir
  <2> QED BY <2>1, <1>12, <1>13 DEF Dirs
<1>15. Files(t) = Files(s)
  BY <1>1, <1>3, <1>4, <1>7, <1>9 DEF Files
<1>16. SameNames(s, t)
  BY <1>0, <1>9, <1>12, <1>13, <1>14, <1>15, SoundFacts DEF SameNames
<1>17. Rooted(t) /\ NamedIn(t) = NamedIn(s)
  BY <1>0, <1>16, NamesStay
<1>18. Lookup(t, p, n) = {} /\ HasRoom(t, p)
  BY <1>12, <1>13 DEF Lookup, HasRoom
<1>19. i \in InUse(t) \ (NamedIn(t) \cup {Root})
  BY <1>3, <1>12, <1>17
<1>20. Inode(t, i) = NewDir
  BY <1>1, <1>4
<1>21. o.do = "mkdir" /\ o.begun = TRUE /\ o.dir = p /\ o.name = n /\ o.ino = i
  BY DEF i
<1>22. MkdirGoing(t, o)
  BY <1>14, <1>18, <1>19, <1>20, <1>21 DEF MkdirGoing
<1>23. Losing(o) = {}
  BY <1>21 DEF Losing, Freeing
<1>24. NamesGo(s, t)
  BY <1>0, <1>4, <1>16, SoundFacts, NamesGoOn
<1>25. MkdirLeft(s, t, i)
  <2>1. SameBut(s, t, {})
    BY <1>2 DEF SameBut, SameDatas
  <2>2. SameInodes(s, t, {i})
    BY <1>4 DEF SameInodes
  <2> QED BY <1>1, <1>2, <1>3, <1>16, <1>20, <2>1, <2>2, SameNumbers DEF MkdirLeft, Tally
<1>26. MkdirLeft(s, t, AllocIno(s))
  BY <1>25 DEF i
<1> QED BY <1>26, <1>24, <1>3, <1>6, <1>10, <1>11, <1>17, <1>22, <1>23 DEF Going, Sound, Doing

(* mkdir goes on, in a block of inodes other than its parent's: the new    *)
(* directory has its block and its name.                                   *)
LEMMA WireStep ==
  ASSUME NEW s, NEW o, Going(s, o), o.do = "mkdir", CanAllocBlk(s),
         Table(o.ino) # Table(o.dir), NEW t,
         t = Overlay(s, MkdirTx2(s, o.dir, o.name, o.ino, AllocBlk(s)))
  PROVE  /\ Going(t, Idle) /\ NamesGo(s, t)
         /\ WireLeft(s, t, o.dir, o.ino, AllocBlk(s))
<1> DEFINE p == o.dir
           i == o.ino
           n == o.name
           b == AllocBlk(s)
           f1 == Insert(Ents(s, p), i, n)
           old == MkdirNode(s, i, b)
           new == MkdirParent(s, p)
<1>0. Sound(s) /\ MkdirGoing(s, o) /\ AllTaken(s, {})
  <2>1. o # Idle /\ ~RmdirGoing(s, o) /\ ~UnlinkGoing(s, o) /\ ~TruncateGoing(s, o)
    BY DEF Idle, RmdirGoing, UnlinkGoing, TruncateGoing
  <2>2. Losing(o) = {}
    BY DEF Losing, Freeing
  <2> QED BY <2>1, <2>2 DEF Going, Doing
<1>1. /\ p \in Dirs(s) /\ n \in Name /\ Lookup(s, p, n) = {} /\ HasRoom(s, p)
      /\ i \in InUse(s) /\ i \notin NamedIn(s) /\ i # Root /\ Inode(s, i) = NewDir
      /\ i \in Ino /\ Table(i) # Table(p)
  BY <1>0, SoundFacts DEF MkdirGoing
<1>2. b \in Blk \ Taken(s) /\ t = Overlay(s, MkdirTx2(s, p, n, i, b))
  BY <1>0, SoundFacts, AllocBlkFree
<1> HIDE DEF b, p, n, i
<1>3. PICK k \in Places : /\ Vacant(Dirs(s), Held(s), p, k, n)
                          /\ f1 = [Ents(s, p) EXCEPT ![k] = Entry(i, n)]
  BY <1>0, <1>1, VacantSlot
<1>4. /\ p \in Ino /\ DirBlk(s, p) \in Blk /\ DirBlk(s, p) \in Holds(s, p) /\ p \in InUse(s)
      /\ Ents(s, p) \in [Slot -> Record] /\ Held(s)[p] = Ents(s, p)
      /\ Inode(s, p).kind = "dir"
  BY <1>0, <1>1, SoundFacts, DirFacts
<1>5. /\ Whole(t) /\ TookBlk(s, t, b) /\ WroteInodes(s, t, i, old, p, new)
      /\ \A c \in Blk : t[Data(c)] = IF c = DirBlk(s, p) THEN DirBlock(f1)
                                     ELSE IF c = b THEN EmptyDir(i, p) ELSE s[Data(c)]
  <2>1. Whole(s) /\ i \in Ino /\ b \in Blk
    BY <1>0, <1>1, <1>2, SoundFacts
  <2>2. p \in Ino /\ DirBlk(s, p) \in Blk
    BY <1>4
  <2>3. Wired(s, t, p, n, i, b)
    BY <1>2 DEF Wired
  <2> QED BY <2>1, <2>2, <2>3, Mkdir2Leaves
<1>6. f1 \in [Slot -> Record]
  <2> HIDE DEF f1
  <2>1. Entry(i, n) \in Record
    BY <1>1, NewNodes
  <2> QED BY <2>1, <1>3, <1>4
<1>7. \A l \in Slot : f1[l] = IF l = k THEN Entry(i, n) ELSE Ents(s, p)[l]
  <2> HIDE DEF f1
  <2> QED BY <1>3, <1>4, SlotFacts
<1> HIDE DEF f1
<1>8. Maps(t) /\ Counting(t) /\ Taken(t) = Taken(s) \cup {b} /\ InUse(t) = InUse(s)
  BY <1>0, <1>2, <1>5, SoundFacts, TookBlkCounts
<1>9. Inode(s, p) \in Node /\ Inode(s, p).links \in Nat
  BY <1>0, <1>4, SoundFacts, TableFacts DEF Node
<1>10. /\ new \in Node /\ new.kind = "dir" /\ new.ext = Inode(s, p).ext
       /\ new.links = Inode(s, p).links + 1
  BY <1>4, <1>9 DEF Node, Relink, MkdirParent
<1> DEFINE e == [lb |-> 0, len |-> 1, pb |-> b]
<1>11. e \in Extent /\ e.lb = 0 /\ e.len = 1 /\ e.pb = b
  BY <1>2 DEF Extent
<1>12. << e >> \in Extents
  <2> HIDE DEF e
  <2>1. << e >> \in Seq(Extent) /\ Len(<< e >>) = 1 /\ DOMAIN << e >> = 1 .. 1
    BY <1>11
  <2>2. Ordered(<< e >>)
    BY <2>1 DEF Ordered
  <2>3. Len(<< e >>) <= MaxExt
    BY <2>1, Geometry
  <2> QED BY <2>1, <2>2, <2>3 DEF Extents
<1>13. /\ old \in Node /\ old.kind = "dir" /\ old.ext = << e >> /\ old.links = 2
  <2>1. old = [NewDir EXCEPT !.ext = << e >>, !.size = Unit, !.nblk = 1]
    BY <1>1 DEF MkdirNode
  <2> HIDE DEF old, e
  <2>2. NewDir.kind = "dir" /\ NewDir.links = 2
    BY DEF NewDir, Blank
  <2>3. NewDir \in Node
    BY NewNodes
  <2>4. Unit \in Nat /\ 1 \in Int
    BY Geometry
  <2> QED BY <2>1, <2>2, <2>3, <2>4, <1>12 DEF Node
<1> HIDE DEF e, old, new
<1>14. Counted(<< e >>) = {[lb |-> 0, pb |-> b]}
  <2>1. DOMAIN << e >> = {1} /\ << e >>[1] = e
    OBVIOUS
  <2>2. \A m : m \in Counted(<< e >>) <=>
          \E j \in Nat : j < 1 /\ m = [lb |-> 0 + j, pb |-> b + j]
    BY <1>11, <1>12, <2>1, CountedIs
  <2>3. \A m : m \in Counted(<< e >>) <=> m = [lb |-> 0 + 0, pb |-> b + 0]
    BY <2>2
  <2>4. b \in Nat
    BY <1>2 DEF Blk
  <2> QED BY <2>3, <2>4
<1>15. i # p
  BY <1>1
<1>16. /\ Tables(t)
       /\ \A j \in Ino : Inode(t, j) = IF j = p THEN new ELSE IF j = i THEN old ELSE Inode(s, j)
  BY <1>0, <1>1, <1>4, <1>5, <1>10, <1>13, <1>15, SoundFacts, InodesWritten
<1>17. EmptyDir(i, p) \in Contents
  <2> DEFINE g == [l \in Slot |-> CASE l = 1 -> Entry(i, ".") [] l = 2 -> Entry(p, "..")
                                  [] OTHER -> NoEntry]
  <2>1. Entry(i, ".") \in Record /\ Entry(p, "..") \in Record /\ NoEntry \in Record
    BY <1>1, <1>4, NewNodes
  <2>2. g \in [Slot -> Record]
    BY <2>1
  <2> HIDE DEF g
  <2>3. DirBlock(g) \in Contents
    BY <2>2, NewNodes
  <2> QED BY <2>3 DEF EmptyDir, g
<1>18. Datas(t)
  <2>1. DirBlock(f1) \in Contents
    BY <1>6, NewNodes
  <2> QED BY <1>0, <1>5, <1>17, <2>1, SoundFacts DEF Datas
<1>19. Blocks(t)
  BY <1>0, <1>8, <1>16, <1>18, SoundFacts, BlocksAfter
<1>20. \A j \in InUse(s) : j \in Ino /\ (j # i => Inode(t, j).ext = Inode(s, j).ext)
  BY <1>0, <1>10, <1>16, SoundFacts
<1>21. Inode(t, i) = old /\ Inode(t, p) = new
  BY <1>1, <1>4, <1>15, <1>16
<1>22. Once(Inode(t, i).ext) /\ Holds(t, i) = {b} /\ Holds(s, i) = {}
  <2>1. Once(<< e >>) /\ Claims(<< e >>) = {b}
    <3>1. \A m : m \in Counted(<< e >>) <=> m = [lb |-> 0, pb |-> b]
      BY <1>14
    <3>2. [lb |-> 0, pb |-> b].pb = b
      OBVIOUS
    <3>3. Claims(<< e >>) = {b}
      BY <3>1, <3>2 DEF Claims
    <3>4. Once(<< e >>)
      BY <3>1 DEF Once
    <3> QED BY <3>3, <3>4
  <2>2. Inode(s, i).ext = << >>
    BY <1>1 DEF NewDir, Blank
  <2> QED BY <2>1, <2>2, <1>21, <1>13, NewNodes DEF Holds, Claims
<1>23. \A j \in InUse(s) : b \notin Holds(s, j)
  BY <1>0, <1>2 DEF AllTaken
<1>24. Owning(t)
  <2>1. Meta \subseteq Taken(t) /\ b \notin Meta
    BY <1>0, <1>2, <1>8, SoundFacts DEF Owning
  <2>2. Granted(s, t, i, {b})
    BY <2>1, <1>1, <1>8, <1>20, <1>22, <1>23 DEF Granted
  <2> QED BY <1>0, <2>2, SoundFacts, OwningAfter
<1>25. AllTaken(t, {})
  <2>1. \A j \in InUse(s) : Holds(t, j) \subseteq Holds(s, j) \cup {b}
    BY <1>20, <1>22 DEF Holds
  <2> QED BY <1>0, <1>8, <2>1 DEF AllTaken
<1>26. /\ \A j \in Ino \ {i} : IsDir(t, j) <=> IsDir(s, j)
       /\ \A j \in Dirs(s) \ {i} : Ents(t, j) = IF j = p THEN f1 ELSE Ents(s, j)
  <2> DEFINE G == [w \in {p} |-> f1]
  <2>1. G[p] = f1
    OBVIOUS
  <2> HIDE DEF G
  <2>2. Retold(s, t, {i}, {b}, {p}, G)
    <3>1. \A j \in Ino \ {i} : /\ j \in InUse(t) <=> j \in InUse(s)
                              /\ Inode(t, j).kind = Inode(s, j).kind
                              /\ Inode(t, j).ext = Inode(s, j).ext
      BY <1>4, <1>8, <1>10, <1>16
    <3>2. \A c \in Blk : t[Data(c)] = IF c = DirBlk(s, p) THEN DirBlock(G[p])
                                     ELSE IF c = b THEN EmptyDir(i, p) ELSE s[Data(c)]
      BY <1>5, <2>1
    <3>3. \A j \in InUse(s) : Holds(s, j) \cap {b} = {}
      BY <1>23
    <3> QED BY <1>1, <1>4, <3>1, <3>2, <3>3 DEF Retold
  <2>3. /\ \A j \in Ino \ {i} : IsDir(t, j) <=> IsDir(s, j)
        /\ \A j \in Dirs(s) \ {i} : Ents(t, j) = IF j \in {p} THEN G[j] ELSE Ents(s, j)
    BY <1>0, <1>8, <2>2, SoundFacts, DirsAfter
  <2> QED BY <2>1, <2>3
<1>27. i \notin Dirs(s) /\ i \notin Files(s)
  <2>1. First(s, i) = {}
    BY <1>1 DEF First, NewDir, Blank
  <2>2. i \notin Dirs(s)
    BY <2>1 DEF Dirs, IsDir
  <2>3. i \notin Files(s)
    BY <1>1 DEF Files, NewDir, Blank
  <2> QED BY <2>2, <2>3
<1>28. IsDir(t, i) /\ Ents(t, i) = EmptyDir(i, p).ents
  <2>1. First(t, i) = {b}
    <3>1. Inode(t, i).ext = << e >> /\ << e >>[1] = e /\ DOMAIN << e >> = {1}
      BY <1>21, <1>13
    <3>2. RealLen(e) > 0
      <4>1. 1 % LenBit = 1
        BY Geometry, SMTT(30)
      <4> QED BY <4>1, <1>11 DEF RealLen
    <3> QED BY <3>1, <3>2, <1>11 DEF First
  <2>2. DirBlk(t, i) = b
    BY <2>1 DEF DirBlk
  <2>3. b # DirBlk(s, p)
    BY <1>4, <1>23
  <2>4. t[Data(b)] = EmptyDir(i, p)
    BY <1>2, <1>5, <2>3
  <2>5. EmptyDir(i, p).kind = "dir"
    BY DEF EmptyDir, DirBlock
  <2>6. i \in InoBits(t, InoGroup(i))
    BY <1>1, <1>8, Bits
  <2> QED BY <2>1, <2>2, <2>4, <2>5, <2>6, <1>21, <1>13 DEF IsDir, Ents
<1>29. Dirs(t) = Dirs(s) \cup {i}
  BY <1>1, <1>26, <1>27, <1>28 DEF Dirs
<1>30. Files(t) = Files(s)
  <2>1. \A j \in InUse(s) : Inode(t, j).kind = Inode(s, j).kind
    BY <1>20, <1>16, <1>10, <1>13, <1>4, <1>1 DEF NewDir, Blank
  <2> QED BY <2>1, <1>8 DEF Files
<1>31. /\ \A q \in Dirs(s) : Held(t)[q] = IF q = p THEN f1 ELSE Held(s)[q]
       /\ Held(t)[i] = EmptyDir(i, p).ents
  BY <1>26, <1>27, <1>28, <1>29 DEF Held
<1>32. DirectoryNaming(Dirs(s), Held(s), Files(s), LinksOf(s), p, k, i, n, Held(t), LinksOf(t))
  <2>1. \A q \in Dirs(s) : \A l \in Slot :
          Held(t)[q][l] = IF q = p /\ l = k THEN Entry(i, n) ELSE Held(s)[q][l]
    BY <1>4, <1>7, <1>31
  <2>2. /\ Held(t)[i][1] = Entry(i, ".") /\ Held(t)[i][2] = Entry(p, "..")
        /\ \A l \in Places : Held(t)[i][l].ino = 0
    BY <1>31, SlotFacts, EntryFields DEF EmptyDir, DirBlock
  <2>3. /\ LinksOf(t)[i] = 2 /\ LinksOf(t)[p] = LinksOf(s)[p] + 1
        /\ \A j \in (Dirs(s) \cup Files(s)) \ {p} : LinksOf(t)[j] = LinksOf(s)[j]
    BY <1>0, <1>1, <1>4, <1>10, <1>13, <1>16, <1>21, <1>27, SoundFacts DEF LinksOf
  <2> QED BY <1>0, <1>1, <1>3, <1>27, <2>1, <2>2, <2>3, SoundFacts DEF DirectoryNaming
<1>33. Rooted(t)
  BY <1>29, <1>30, <1>32, DirectoryNamed DEF Rooted
<1>34. NamesGo(s, t) /\ Numbers(t) = Numbers(s) \cup {i}
  <2>1. \A j \in Files(s) : j # i /\ j # p /\ j \in Ino
    BY <1>0, <1>1, <1>27, SoundFacts
  <2>2. SizesKept(s, t)
    BY <1>16, <2>1 DEF SizesKept
  <2> QED BY <1>29, <1>30, <1>32, <2>2, MakeTells DEF MakeTold
<1>35. WireLeft(s, t, p, i, b)
  <2>1. DirBlk(s, p) \in DirBlks(s)
    BY <1>1 DEF DirBlks
  <2>2. SameBut(s, t, DirBlks(s) \cup {b})
    BY <1>5, <2>1 DEF SameBut
  <2>3. SameInodes(s, t, {i, p})
    BY <1>16 DEF SameInodes
  <2>4. Tally(t, InUse(s), Taken(s) \cup {b}, Numbers(s) \cup {i}, Dirs(s) \cup {i})
    BY <1>8, <1>29, <1>34 DEF Tally
  <2>5. /\ Inode(t, p).ext = Inode(s, p).ext /\ Inode(t, p).kind = "dir"
        /\ Inode(t, i).kind = "dir"
    BY <1>10, <1>13, <1>21
  <2> QED BY <1>1, <1>2, <1>5, <1>22, <1>27, <2>2, <2>3, <2>4, <2>5 DEF WireLeft
<1>36. WireLeft(s, t, o.dir, o.ino, AllocBlk(s))
  BY <1>35 DEF p, i, b
<1> QED BY <1>36, <1>34, <1>8, <1>19, <1>24, <1>25, <1>33 DEF Going, Sound, Doing, Losing, Idle

(* When parent and child share a block of inodes, one of mkdir's two       *)
(* copies of it is lost.                                                   *)
LEMMA WireOverlaps ==
  ASSUME NEW s, NEW o, Going(s, o), o.do = "mkdir", CanAllocBlk(s),
         Table(o.ino) = Table(o.dir), NEW tx,
         tx = MkdirTx2(s, o.dir, o.name, o.ino, AllocBlk(s))
  PROVE  \E k \in DOMAIN tx : Overlay(s, tx)[tx[k].blk] # tx[k].val
<1> DEFINE p == o.dir
           i == o.ino
           n == o.name
           b == AllocBlk(s)
           old == MkdirNode(s, i, b)
           t == Overlay(s, tx)
<1>0. Sound(s) /\ MkdirGoing(s, o)
  <2>1. o # Idle /\ ~RmdirGoing(s, o) /\ ~UnlinkGoing(s, o) /\ ~TruncateGoing(s, o)
    BY DEF Idle, RmdirGoing, UnlinkGoing, TruncateGoing
  <2> QED BY <2>1 DEF Going, Doing
<1>1. /\ p \in Dirs(s) /\ i \in InUse(s) /\ Inode(s, i) = NewDir
      /\ i \in Ino /\ Table(i) = Table(p)
  BY <1>0, SoundFacts DEF MkdirGoing
<1>2. b \in Blk
  BY <1>0, SoundFacts, AllocBlkFree
<1>3. tx = MkdirTx2(s, p, n, i, b)
  OBVIOUS
<1> HIDE DEF b, p, n, i
<1>4. p \in Ino /\ DirBlk(s, p) \in Blk
  BY <1>0, <1>1, SoundFacts, DirFacts
<1>5. 5 \in DOMAIN tx /\ tx[5] = PutInode(s, i, old)
  BY <1>3 DEF MkdirTx2, TakeBlk, MkdirNode
<1>6. tx[5].blk = Table(i) /\ tx[5].val = [s[Table(i)] EXCEPT ![i] = old]
  BY <1>5 DEF PutInode, Wr
<1>7. WroteInodes(s, t, i, old, p, MkdirParent(s, p))
  <2>1. Wired(s, t, p, n, i, b)
    BY <1>3 DEF Wired
  <2>2. Whole(s)
    BY <1>0, SoundFacts
  <2> HIDE DEF t, old
  <2>3. WroteInodes(s, t, i, MkdirNode(s, i, b), p, MkdirParent(s, p))
    BY <1>1, <1>2, <1>4, <2>1, <2>2, Mkdir2Leaves
  <2> QED BY <2>3 DEF old
<1> HIDE DEF t
<1>8. t[Table(i)] = [s[Table(i)] EXCEPT ![p] = MkdirParent(s, p)]
  BY <1>1, <1>7 DEF WroteInodes
<1>9. i # p
  <2>1. First(s, i) = {}
    BY <1>1 DEF First, NewDir, Blank
  <2>2. i \notin Dirs(s)
    BY <2>1 DEF Dirs, IsDir
  <2> QED BY <2>2, <1>1
<1>10. s[Table(i)] \in [Beside(i) -> Node] /\ i \in Beside(i)
  BY <1>0, <1>1, SoundFacts, TableFacts DEF Tables
<1>11. t[Table(i)][i] = NewDir /\ tx[5].val[i] = old
  BY <1>1, <1>6, <1>8, <1>9, <1>10 DEF Inode
<1>12. old # NewDir
  <2>1. NewDir.nblk = 0
    BY DEF NewDir, Blank
  <2>2. old = [NewDir EXCEPT !.ext = << [lb |-> 0, len |-> 1, pb |-> b] >>, !.size = Unit, !.nblk = 1]
    BY <1>1 DEF MkdirNode
  <2>3. NewDir \in Node
    BY NewNodes
  <2>4. old.nblk = 1
    <3> HIDE DEF old
    <3> QED BY <2>2, <2>3 DEF Node
  <2> QED BY <2>1, <2>4
<1> QED BY <1>5, <1>6, <1>11, <1>12 DEF t

(* rmdir begins: the block of an empty directory is freed.                 *)
LEMMA RmdirStep ==
  ASSUME NEW s, Going(s, Idle), NEW p \in Dirs(s), NEW k \in Places, NEW i \in Dirs(s),
         At(s, p, k) = i, Children(s, i) = {},
         NEW t, t = Overlay(s, FreeBlk(s, DirBlk(s, i))), NEW o,
         o = [do |-> "rmdir", begun |-> TRUE, dir |-> p, ino |-> i]
  PROVE  Going(t, o) /\ NamesGo(s, t) /\ FreeLeft(s, t, DirBlk(s, i))
<1>0. Sound(s) /\ AllTaken(s, {})
  BY DEF Going, Losing, Idle
<1>1. DirBlk(s, i) \in Holds(s, i) /\ i \in InUse(s) /\ Ents(s, i) \in [Slot -> Record]
      /\ Held(s)[i] = Ents(s, i) /\ i \in Ino
  BY <1>0, SoundFacts, DirFacts
<1>2. DirBlk(s, i) \in Taken(s) \ Meta
  BY <1>0, <1>1, SoundFacts DEF Owning, AllTaken
<1>3. /\ Sound(t) /\ SameNames(s, t) /\ NamesGo(s, t) /\ FreeLeft(s, t, DirBlk(s, i))
      /\ Taken(t) = Taken(s) \ {DirBlk(s, i)} /\ InUse(t) = InUse(s)
      /\ \A j \in Ino : Inode(t, j) = Inode(s, j)
  BY <1>0, <1>2, FreeStep
<1>4. AllTaken(t, {i})
  <2>1. \A j \in InUse(s) : j \in Ino /\ Holds(t, j) = Holds(s, j)
    BY <1>0, <1>3, SoundFacts DEF Holds
  <2>2. \A j \in InUse(s) \ {i} : DirBlk(s, i) \notin Holds(s, j)
    BY <1>0, <1>1, SoundFacts DEF Owning
  <2> QED BY <1>0, <1>3, <2>1, <2>2 DEF AllTaken
<1>5. \A l \in Places : At(s, i, l) = 0
  <2> SUFFICES ASSUME NEW l \in Places, At(s, i, l) # 0 PROVE FALSE
    OBVIOUS
  <2> DEFINE e == Ents(s, i)[l]
  <2>1. e \in Range(Ents(s, i)) /\ e.ino # 0
    BY <1>1, SlotFacts DEF Range, At
  <2>2. e.name \in Name
    BY <1>0, <1>1, <2>1, SoundFacts DEF Rooted, TreeOf, Shape
  <2>3. e.name # "." /\ e.name # ".."
    BY <2>2, PlainNames
  <2>4. e \in Children(s, i)
    <3> HIDE DEF e
    <3> QED BY <2>1, <2>3 DEF Children
  <2> QED BY <2>4
<1>6. \A q, l : q \in Dirs(s) => At(t, q, l) = At(s, q, l)
  BY <1>0, <1>3, NamesStay
<1>7. o.do = "rmdir" /\ o.begun = TRUE /\ o.dir = p /\ o.ino = i
  OBVIOUS
<1>8. RmdirGoing(t, o)
  <2>1. Dirs(t) = Dirs(s)
    BY <1>3 DEF SameNames
  <2> QED BY <1>5, <1>6, <1>7, <2>1 DEF RmdirGoing, Child
<1>9. Losing(o) = {i}
  BY <1>7 DEF Losing, Freeing
<1> QED BY <1>3, <1>4, <1>8, <1>9 DEF Going, Doing

(* The last transaction of rmdir and unlink: a name goes, and what it      *)
(* names.                                                                  *)
Gone(s, t, p, k, i) ==
  /\ Dirs(t) = Dirs(s) \ {i} /\ Files(t) = Files(s) \ {i}
  /\ \A q \in Dirs(s) \ {i} : \A l \in Slot :
       Held(t)[q][l] = IF q = p /\ l = k THEN NoEntry ELSE Held(s)[q][l]

(* What it leaves, apart from the tree.                                    *)
LEMMA DeleteStep ==
  ASSUME NEW s, Sound(s), NEW p \in Dirs(s), NEW k \in Places, NEW i \in Ino, At(s, p, k) = i,
         AllTaken(s, {i}), NEW d \in {0, 1}, NEW new \in Node,
         new.kind = Inode(s, p).kind, new.ext = Inode(s, p).ext,
         NEW t, Deleted(s, t, p, i, d, new)
  PROVE  /\ Blocks(t) /\ Counting(t) /\ Owning(t) /\ AllTaken(t, {}) /\ Gone(s, t, p, k, i)
         /\ (Numbers(t) = Numbers(s) \ {i} => DeleteLeft(s, t, p, i, d))
         /\ \A j \in Ino \ {i} : Inode(t, j) = IF j = p THEN new ELSE Inode(s, j)
<1> DEFINE f1 == Remove(Ents(s, p), i)
<1>1. /\ p \in Ino /\ DirBlk(s, p) \in Blk /\ p \in InUse(s)
      /\ Ents(s, p) \in [Slot -> Record] /\ Held(s)[p] = Ents(s, p)
  BY SoundFacts, DirFacts
<1>2. /\ SlotOf(Ents(s, p), i) = k /\ i # p /\ i \in Dirs(s) \cup Files(s)
  BY SlotFound
<1>3. i \in InUse(s)
  BY <1>2, SoundFacts
<1>4. f1 = [Ents(s, p) EXCEPT ![k] = NoEntry]
  BY <1>2 DEF Remove
<1>5. /\ Whole(t) /\ FreedIno(s, t, i, d) /\ WroteInodes(s, t, i, Blank, p, new)
      /\ WroteData(s, t, DirBlk(s, p), DirBlock(f1))
  BY <1>1, SoundFacts, DeleteLeaves
<1> HIDE DEF f1
<1>6. f1 \in [Slot -> Record] /\ \A l \in Slot : f1[l] = IF l = k THEN NoEntry ELSE Ents(s, p)[l]
  BY <1>1, <1>4, NewNodes, SlotFacts
<1>7. Maps(t) /\ Counting(t) /\ Taken(t) = Taken(s) /\ InUse(t) = InUse(s) \ {i}
  BY <1>3, <1>5, SoundFacts, FreedInoCounts
<1>8. /\ Tables(t)
      /\ \A j \in Ino \ {i} : Inode(t, j) = IF j = p THEN new ELSE Inode(s, j)
  BY <1>1, <1>2, <1>5, SoundFacts, NewNodes, InodesWritten
<1>9. Datas(t)
  <2>1. DirBlock(f1) \in Contents
    BY <1>6, NewNodes
  <2> QED BY <1>5, <2>1, SoundFacts DEF Datas, WroteData
<1>10. Blocks(t)
  <2>1. t = Overlay(s, FreeIno(s, i, d)
                        \o << PutInode(s, i, Blank), PutEnts(s, p, Remove(Ents(s, p), i)),
                              PutInode(s, p, new) >>)
    BY DEF Deleted
  <2> QED BY <1>7, <1>8, <1>9, <2>1, SoundFacts, BlocksAfter
<1>11. \A j \in Ino \ {i} : Inode(t, j).kind = Inode(s, j).kind /\ Inode(t, j).ext = Inode(s, j).ext
  BY <1>8
<1>12. \A j \in InUse(t) : j \in Ino \ {i} /\ j \in InUse(s) /\ Holds(t, j) = Holds(s, j)
  BY <1>7, <1>11, SoundFacts DEF Holds
<1>13. Owning(t)
  <2>1. Granted(s, t, i, {})
    BY <1>7, <1>11, <1>12, SoundFacts DEF Granted, Owning
  <2> QED BY <2>1, SoundFacts, OwningAfter
<1>14. AllTaken(t, {})
  BY <1>7, <1>12 DEF AllTaken
<1>15. /\ \A j \in Ino \ {i} : IsDir(t, j) <=> IsDir(s, j)
       /\ \A j \in Dirs(s) \ {i} : Ents(t, j) = IF j = p THEN f1 ELSE Ents(s, j)
  <2> DEFINE G == [w \in {p} |-> f1]
  <2>1. G[p] = f1
    OBVIOUS
  <2> HIDE DEF G
  <2>2. Retold(s, t, {i}, {}, {p}, G)
    <3>2. \A c \in Blk : t[Data(c)] = IF c = DirBlk(s, p) THEN DirBlock(G[p]) ELSE s[Data(c)]
      BY <1>5, <2>1 DEF WroteData
    <3> QED BY <1>1, <1>7, <1>11, <3>2 DEF Retold
  <2>3. /\ \A j \in Ino \ {i} : IsDir(t, j) <=> IsDir(s, j)
        /\ \A j \in Dirs(s) \ {i} : Ents(t, j) = IF j \in {p} THEN G[j] ELSE Ents(s, j)
    BY <1>7, <2>2, SoundFacts, DirsAfter
  <2> QED BY <2>1, <2>3
<1>16. Dirs(t) = Dirs(s) \ {i}
  <2>1. ~IsDir(t, i)
    BY <1>7, Bits DEF IsDir
  <2> QED BY <2>1, <1>15 DEF Dirs
<1>17. Files(t) = Files(s) \ {i}
  BY <1>7, <1>11, SoundFacts DEF Files
<1>18. Gone(s, t, p, k, i)
  <2>1. \A q \in Dirs(s) \ {i} : Held(t)[q] = IF q = p THEN f1 ELSE Held(s)[q]
    BY <1>15, <1>16 DEF Held
  <2>2. \A q \in Dirs(s) \ {i} : \A l \in Slot :
          Held(t)[q][l] = IF q = p /\ l = k THEN NoEntry ELSE Held(s)[q][l]
    BY <1>1, <1>6, <2>1
  <2> QED BY <1>16, <1>17, <2>2 DEF Gone
<1>19. ASSUME Numbers(t) = Numbers(s) \ {i} PROVE DeleteLeft(s, t, p, i, d)
  <2>1. DirBlk(s, p) \in DirBlks(s)
    BY DEF DirBlks
  <2>2. SameBut(s, t, DirBlks(s))
    BY <1>5, <2>1 DEF SameBut, WroteData
  <2>3. SameInodes(s, t, {i, p})
    BY <1>8 DEF SameInodes
  <2>4. Inode(t, p).ext = Inode(s, p).ext /\ Inode(t, p).kind = "dir"
    BY <1>1, <1>2, <1>11, SoundFacts, DirFacts
  <2>5. Tally(t, InUse(s) \ {i}, Taken(s), Numbers(s) \ {i}, Dirs(s) \ {i})
    BY <1>7, <1>16, <1>19 DEF Tally
  <2> QED BY <1>2, <1>3, <1>5, <2>2, <2>3, <2>4, <2>5 DEF DeleteLeft
<1> QED BY <1>7, <1>8, <1>10, <1>13, <1>14, <1>18, <1>19

(* rmdir ends.                                                             *)
LEMMA RmdirEnds ==
  ASSUME NEW s, NEW o, Going(s, o), o.do = "rmdir",
         NEW t, t = Overlay(s, RmdirTx2(s, o.dir, o.ino))
  PROVE  Going(t, Idle) /\ NamesGo(s, t) /\ DeleteLeft(s, t, o.dir, o.ino, 1)
<1> DEFINE p == o.dir
           i == o.ino
           new == Relink(s, p, Fewer(Inode(s, p).links))
<1>0. Sound(s) /\ RmdirGoing(s, o) /\ AllTaken(s, {i})
  <2>1. o # Idle /\ ~MkdirGoing(s, o) /\ ~UnlinkGoing(s, o) /\ ~TruncateGoing(s, o)
    BY DEF Idle, MkdirGoing, UnlinkGoing, TruncateGoing
  <2>2. RmdirGoing(s, o)
    BY <2>1 DEF Going, Doing
  <2>3. Losing(o) = {i}
    BY <2>2 DEF Losing, Freeing, RmdirGoing
  <2> QED BY <2>2, <2>3 DEF Going
<1>1. /\ p \in Dirs(s) /\ i \in Dirs(s) /\ i \in Ino /\ p \in Ino
      /\ \A l \in Places : At(s, i, l) = 0
  BY <1>0 DEF RmdirGoing, Child, Dirs
<1>2. PICK k \in Places : At(s, p, k) = i
  BY <1>0 DEF RmdirGoing, Child
<1>3. Inode(s, p) \in Node /\ Inode(s, p).links = 2 + Cardinality(Under(Dirs(s), Held(s), p))
  <2>1. LinksOf(s)[p] = 2 + Cardinality(Under(Dirs(s), Held(s), p))
    BY <1>0, <1>1, SoundFacts DEF Rooted, TreeOf, Linked
  <2> QED BY <1>0, <1>1, <2>1, SoundFacts, TableFacts DEF LinksOf
<1>4. Fewer(Inode(s, p).links) = Inode(s, p).links - 1
  <2>1. Under(Dirs(s), Held(s), p) \subseteq Ino
    BY DEF Under, Dirs
  <2>2. Cardinality(Under(Dirs(s), Held(s), p)) \in Nat
    BY <2>1, Finite, FS_Subset, FS_CardinalityType
  <2> QED BY <1>3, <2>2 DEF Fewer
<1>5. /\ new \in Node /\ new.kind = Inode(s, p).kind /\ new.ext = Inode(s, p).ext
      /\ new.links = Inode(s, p).links - 1
  <2>1. Fewer(Inode(s, p).links) \in Nat
    BY <1>3 DEF Fewer, Node
  <2> QED BY <1>3, <1>4, <2>1 DEF Node, Relink
<1>6. Deleted(s, t, p, i, 1, new)
  BY DEF Deleted, RmdirTx2
<1> HIDE DEF p, i, new
<1>7. /\ Blocks(t) /\ Counting(t) /\ Owning(t) /\ AllTaken(t, {}) /\ Gone(s, t, p, k, i)
      /\ (Numbers(t) = Numbers(s) \ {i} => DeleteLeft(s, t, p, i, 1))
      /\ \A j \in Ino \ {i} : Inode(t, j) = IF j = p THEN new ELSE Inode(s, j)
  BY <1>0, <1>1, <1>2, <1>5, <1>6, DeleteStep
<1>8. Occupied(Dirs(s), Held(s), p, k, i) /\ i # p
  BY <1>0, <1>1, <1>2, SlotFound
<1>9. DirectoryDropping(Dirs(s), Held(s), Files(s), LinksOf(s), p, k, i, Held(t), LinksOf(t))
  <2>1. \A l \in Places : Held(s)[i][l].ino = 0
    BY <1>1 DEF At, Held
  <2>2. /\ LinksOf(t)[p] = LinksOf(s)[p] - 1
        /\ \A j \in (Dirs(s) \cup Files(s)) \ {i, p} : LinksOf(t)[j] = LinksOf(s)[j]
    BY <1>0, <1>1, <1>5, <1>7, <1>8, SoundFacts DEF LinksOf
  <2> QED BY <1>0, <1>1, <1>7, <1>8, <2>1, <2>2, SoundFacts DEF DirectoryDropping, Gone
<1>10. Rooted(t)
  <2>1. TreeOf(Dirs(s) \ {i}, Held(t), Files(s), LinksOf(t))
    BY <1>9, DirectoryDropped
  <2>2. Files(s) \ {i} = Files(s)
    BY <1>0, <1>1, SoundFacts
  <2> QED BY <1>7, <2>1, <2>2 DEF Rooted, Gone
<1>11. NamesGo(s, t) /\ Numbers(t) = Numbers(s) \ {i}
  <2>1. i \notin Files(s) /\ \A j \in Files(s) : j # p /\ j \in Ino
    BY <1>0, <1>1, SoundFacts
  <2>2. SizesKept(s, t)
    BY <1>7, <2>1 DEF SizesKept
  <2> QED BY <1>7, <1>9, <2>1, <2>2, RemoveTells DEF RemoveTold, Gone
<1>12. DeleteLeft(s, t, o.dir, o.ino, 1)
  BY <1>7, <1>11 DEF p, i
<1> QED BY <1>12, <1>11, <1>7, <1>10 DEF Going, Sound, Doing, Losing, Idle

(* unlink begins.                                                          *)
LEMMA UnlinkBegins ==
  ASSUME NEW s, Going(s, Idle), NEW p \in Dirs(s), NEW k \in Places, NEW i \in Files(s),
         At(s, p, k) = i, NEW o,
         o = [do |-> "unlink", begun |-> FALSE, dir |-> p, ino |-> i,
              todo |-> Counted(Inode(s, i).ext)]
  PROVE  Going(s, o)
<1>0. Sound(s) /\ AllTaken(s, {})
  BY DEF Going, Losing, Idle
<1>1. /\ o.do = "unlink" /\ o.begun = FALSE /\ o.dir = p /\ o.ino = i
      /\ o.todo = Counted(Inode(s, i).ext)
  OBVIOUS
<1>2. p \in Ino /\ i \in Ino /\ i \in InUse(s) /\ Inode(s, i).kind = "file"
  BY <1>0, SoundFacts DEF Dirs, Files
<1>3. \A m \in o.todo : m.pb \in Taken(s)
  BY <1>0, <1>1, <1>2 DEF AllTaken, Holds, Claims
<1>4. UnlinkGoing(s, o)
  <2>1. o \in [do : {"unlink"}, begun : BOOLEAN, dir : Ino, ino : Ino,
               todo : SUBSET Counted(Inode(s, o.ino).ext)]
    BY <1>1, <1>2
  <2> QED BY <1>1, <1>2, <1>3, <2>1 DEF UnlinkGoing, Child
<1>5. Losing(o) = {}
  BY <1>1 DEF Losing
<1> QED BY <1>0, <1>4, <1>5 DEF Going, Doing

(* Which operation it is says what may be relied on.                       *)
LEMMA WhichGoes ==
  ASSUME NEW s, NEW o, Going(s, o)
  PROVE  /\ o.do = "unlink" => UnlinkGoing(s, o)
         /\ o.do = "truncate" => TruncateGoing(s, o)
         /\ o.do = "mkdir" => MkdirGoing(s, o)
         /\ o.do = "rmdir" => RmdirGoing(s, o)
<1>1. o = Idle => o.do = "idle"
  BY DEF Idle
<1>2. /\ MkdirGoing(s, o) => o.do = "mkdir"
      /\ RmdirGoing(s, o) => o.do = "rmdir"
      /\ UnlinkGoing(s, o) => o.do = "unlink"
      /\ TruncateGoing(s, o) => o.do = "truncate"
  BY DEF MkdirGoing, RmdirGoing, UnlinkGoing, TruncateGoing
<1> QED BY <1>1, <1>2 DEF Going, Doing

(* unlink frees the block of one place.                                    *)
LEMMA UnlinkFrees ==
  ASSUME NEW s, NEW o, Going(s, o), o.do = "unlink", NEW m \in o.todo,
         NEW t, t = Overlay(s, FreeBlk(s, m.pb)), NEW u,
         u = [o EXCEPT !.todo = @ \ {m}, !.begun = TRUE]
  PROVE  Going(t, u) /\ NamesGo(s, t) /\ FreeLeft(s, t, m.pb)
<1> DEFINE i == o.ino
           x == Inode(s, i).ext
<1>0. Sound(s) /\ UnlinkGoing(s, o) /\ AllTaken(s, {i})
  <2>1. UnlinkGoing(s, o)
    BY WhichGoes
  <2>2. Losing(o) \subseteq {i}
    BY DEF Losing
  <2> QED BY <2>1, <2>2 DEF Going, AllTaken
<1>1. /\ o \in [do : {"unlink"}, begun : BOOLEAN, dir : Ino, ino : Ino, todo : SUBSET Counted(x)]
      /\ o.dir \in Dirs(s) /\ Inode(s, i).kind = "file" /\ i \in Ino
      /\ \A l \in o.todo : l.pb \in Taken(s)
  BY <1>0 DEF UnlinkGoing, Child
<1>2. PICK k \in Places : At(s, o.dir, k) = i
  BY <1>0 DEF UnlinkGoing, Child
<1>3. i \in InUse(s)
  <2>1. i \in Dirs(s) \cup Files(s)
    BY <1>0, <1>1, <1>2, SlotFound
  <2> QED BY <1>0, <2>1, SoundFacts
<1>4. /\ m \in Counted(x) /\ m.pb \in Holds(s, i)
      /\ \A l \in o.todo \ {m} : l.pb # m.pb
  BY <1>0, <1>1, <1>3, SoundFacts DEF Owning, Once, Holds, Claims
<1>5. m.pb \in Taken(s) \ Meta
  BY <1>0, <1>1, <1>3, <1>4, SoundFacts DEF Owning
<1>6. /\ Sound(t) /\ SameNames(s, t) /\ NamesGo(s, t) /\ FreeLeft(s, t, m.pb)
      /\ Taken(t) = Taken(s) \ {m.pb} /\ InUse(t) = InUse(s)
      /\ \A j \in Ino : Inode(t, j) = Inode(s, j)
  BY <1>0, <1>5, FreeStep
<1>7. AllTaken(t, {i})
  <2>1. \A j \in InUse(s) : j \in Ino /\ Holds(t, j) = Holds(s, j)
    BY <1>0, <1>6, SoundFacts DEF Holds
  <2>2. \A j \in InUse(s) \ {i} : m.pb \notin Holds(s, j)
    BY <1>0, <1>3, <1>4, SoundFacts DEF Owning
  <2> QED BY <1>0, <1>6, <2>1, <2>2 DEF AllTaken
<1>8. /\ u.do = "unlink" /\ u.begun = TRUE /\ u.dir = o.dir /\ u.ino = i
      /\ u.todo = o.todo \ {m}
      /\ u \in [do : {"unlink"}, begun : BOOLEAN, dir : Ino, ino : Ino, todo : SUBSET Counted(x)]
  BY <1>1
<1> HIDE DEF i
<1>9. UnlinkGoing(t, u)
  <2>1. Inode(t, u.ino) = Inode(s, i) /\ Inode(t, u.ino).kind = "file"
    BY <1>1, <1>6, <1>8
  <2>2. Child(t, u.dir, u.ino)
    <3>1. \A q, l : q \in Dirs(s) => At(t, q, l) = At(s, q, l)
      BY <1>0, <1>6, NamesStay
    <3> QED BY <1>1, <1>2, <1>6, <1>8, <3>1 DEF Child, SameNames
  <2>3. \A l \in u.todo : l.pb \in Taken(t)
    BY <1>1, <1>4, <1>6, <1>8
  <2> QED BY <1>8, <2>1, <2>2, <2>3 DEF UnlinkGoing
<1>10. Losing(u) = {i}
  BY <1>8 DEF Losing, Freeing
<1> QED BY <1>6, <1>7, <1>9, <1>10 DEF Going, Doing

(* unlink ends.                                                            *)
LEMMA UnlinkEnds ==
  ASSUME NEW s, NEW o, Going(s, o), o.do = "unlink",
         NEW t, t = Overlay(s, UnlinkTx(s, o.dir, o.ino))
  PROVE  Going(t, Idle) /\ NamesGo(s, t) /\ DeleteLeft(s, t, o.dir, o.ino, 0)
<1> DEFINE p == o.dir
           i == o.ino
           new == Inode(s, p)
<1>0. Sound(s) /\ UnlinkGoing(s, o) /\ AllTaken(s, {i})
  <2>1. UnlinkGoing(s, o)
    BY WhichGoes
  <2>2. Losing(o) \subseteq {i}
    BY DEF Losing
  <2> QED BY <2>1, <2>2 DEF Going, AllTaken
<1>1. p \in Dirs(s) /\ i \in Ino /\ p \in Ino /\ Inode(s, i).kind = "file"
  BY <1>0 DEF UnlinkGoing, Child, Dirs
<1>2. PICK k \in Places : At(s, p, k) = i
  BY <1>0 DEF UnlinkGoing, Child
<1>3. new \in Node
  BY <1>0, <1>1, SoundFacts, TableFacts
<1>4. Deleted(s, t, p, i, 0, new)
  BY DEF Deleted, UnlinkTx
<1> HIDE DEF p, i, new
<1>5. /\ Blocks(t) /\ Counting(t) /\ Owning(t) /\ AllTaken(t, {}) /\ Gone(s, t, p, k, i)
      /\ (Numbers(t) = Numbers(s) \ {i} => DeleteLeft(s, t, p, i, 0))
      /\ \A j \in Ino \ {i} : Inode(t, j) = IF j = p THEN new ELSE Inode(s, j)
  <2>1. new.kind = Inode(s, p).kind /\ new.ext = Inode(s, p).ext
    BY DEF new
  <2> QED BY <1>0, <1>1, <1>2, <1>3, <1>4, <2>1, DeleteStep
<1>6. Occupied(Dirs(s), Held(s), p, k, i) /\ i # p /\ i \in Dirs(s) \cup Files(s)
  BY <1>0, <1>1, <1>2, SlotFound
<1>7. i \in Files(s) \ Dirs(s)
  BY <1>0, <1>1, <1>6, SoundFacts, DirFacts
<1>8. FileDropping(Dirs(s), Held(s), Files(s), LinksOf(s), p, k, i, Held(t), LinksOf(t))
  <2>1. \A j \in (Dirs(s) \cup Files(s)) \ {i} : LinksOf(t)[j] = LinksOf(s)[j]
    BY <1>0, <1>5, SoundFacts DEF LinksOf, new
  <2>2. Dirs(s) \ {i} = Dirs(s)
    BY <1>7
  <2> QED BY <1>0, <1>5, <1>6, <1>7, <2>1, <2>2, SoundFacts DEF FileDropping, Gone
<1>9. Rooted(t)
  <2>1. TreeOf(Dirs(s), Held(t), Files(s) \ {i}, LinksOf(t))
    BY <1>8, FileDropped
  <2>2. Dirs(s) \ {i} = Dirs(s)
    BY <1>7
  <2> QED BY <1>5, <2>1, <2>2 DEF Rooted, Gone
<1>10. NamesGo(s, t) /\ Numbers(t) = Numbers(s) \ {i}
  <2>1. Dirs(s) \ {i} = Dirs(s) /\ \A j \in Files(s) : j # p /\ j \in Ino
    BY <1>0, <1>1, <1>7, SoundFacts
  <2>2. SizesKept(s, t)
    BY <1>5, <2>1 DEF SizesKept, Gone
  <2> QED BY <1>5, <1>8, <2>1, <2>2, UnlinkTells DEF UnlinkTold, Gone
<1>12. DeleteLeft(s, t, o.dir, o.ino, 0)
  BY <1>5, <1>10 DEF p, i
<1> QED BY <1>12, <1>10, <1>5, <1>9 DEF Going, Sound, Doing, Losing, Idle

(* A file's inode changes, and blocks no other inode holds.                *)
FileChanged(s, t, i, rec, B) ==
  /\ i \in Files(s) /\ rec \in Node /\ rec.kind = "file" /\ rec.links = Inode(s, i).links
  /\ Maps(t) /\ InUse(t) = InUse(s) /\ WroteInode(s, t, i, rec)
  /\ \A c \in Blk \ B : t[Data(c)] = s[Data(c)]
  /\ \A j \in InUse(s) \ {i} : Holds(s, j) \cap B = {}

(* Then the names are as before.                                           *)
LEMMA FileStep ==
  ASSUME NEW s, Sound(s), NEW t, NEW i, NEW rec, NEW B, FileChanged(s, t, i, rec, B)
  PROVE  /\ Tables(t) /\ SameNames(s, t) /\ Rooted(t) /\ NamesGo(s, t)
         /\ \A j \in Ino : Inode(t, j) = IF j = i THEN rec ELSE Inode(s, j)
<1>1. i \in Ino /\ i \in InUse(s) /\ i \notin Dirs(s) /\ Inode(s, i).kind = "file"
  BY SoundFacts DEF FileChanged, Files
<1>2. Tables(t) /\ \A j \in Ino : Inode(t, j) = IF j = i THEN rec ELSE Inode(s, j)
  BY <1>1, SoundFacts, InodeWritten DEF FileChanged
<1>3. /\ \A j \in Ino \ {i} : IsDir(t, j) <=> IsDir(s, j)
      /\ \A j \in Dirs(s) \ {i} : Ents(t, j) = Ents(s, j)
  <2>1. Retold(s, t, {i}, B, {}, << >>)
    <3>1. \A j \in Ino \ {i} : Inode(t, j) = Inode(s, j)
      BY <1>2
    <3> QED BY <3>1 DEF Retold, FileChanged
  <2>2. /\ \A j \in Ino \ {i} : IsDir(t, j) <=> IsDir(s, j)
        /\ \A j \in Dirs(s) \ {i} : Ents(t, j) = IF j \in {} THEN << >>[j] ELSE Ents(s, j)
    BY <2>1, SoundFacts, DirsAfter DEF FileChanged
  <2> QED BY <2>2
<1>4. Dirs(t) = Dirs(s)
  <2>1. ~IsDir(t, i)
    BY <1>1, <1>2 DEF IsDir, FileChanged
  <2> QED BY <2>1, <1>1, <1>3 DEF Dirs
<1>5. Files(t) = Files(s)
  BY <1>1, <1>2, SoundFacts DEF Files, FileChanged
<1>6. SameNames(s, t)
  BY <1>1, <1>2, <1>3, <1>4, <1>5, SoundFacts DEF SameNames, FileChanged
<1>7. NamesGo(s, t)
  <2>1. \A j \in Ino \ {i} : Inode(t, j).size = Inode(s, j).size
    BY <1>2
  <2> QED BY <1>6, <2>1, SoundFacts, NamesGoOn
<1> QED BY <1>2, <1>6, <1>7, NamesStay

(* truncate begins.                                                        *)
LEMMA TruncateBegins ==
  ASSUME NEW s, Going(s, Idle), NEW p \in Dirs(s), NEW k \in Places, NEW i \in Files(s),
         At(s, p, k) = i, NEW n \in Nat, NEW o,
         o = [do |-> "truncate", begun |-> FALSE, ino |-> i, size |-> n,
              ext |-> Kept(Inode(s, i).ext, n), todo |-> Doomed(Inode(s, i).ext, n),
              freed |-> Cardinality(Doomed(Inode(s, i).ext, n))]
  PROVE  Going(s, o)
<1> DEFINE x == Inode(s, i).ext
           kept == Kept(x, n)
           doomed == Doomed(x, n)
           freed == Cardinality(doomed)
<1>0. Sound(s) /\ AllTaken(s, {})
  BY DEF Going, Losing, Idle
<1>1. i \in Ino /\ i \in InUse(s) /\ Inode(s, i).kind = "file"
  BY <1>0, SoundFacts DEF Files
<1>2. \A m \in Counted(x) : m.pb \in Taken(s) /\ m.pb \in Blk
  BY <1>0, <1>1, SoundFacts DEF AllTaken, Holds, Claims
<1>3. freed \in Nat
  <2>1. Once(x)
    BY <1>0, <1>1, SoundFacts DEF Owning
  <2> DEFINE g == [m \in Counted(x) |-> m.pb]
  <2>2. g \in [Counted(x) -> Blk]
    BY <1>2
  <2>3. \A m, l \in Counted(x) : g[m] = g[l] => m = l
    BY <2>1 DEF Once
  <2> HIDE DEF g, x
  <2>4. g \in Injection(Counted(x), Blk)
    BY <2>2, <2>3 DEF Injection, IsInjective
  <2>5. IsFiniteSet(Counted(x))
    BY <2>4, Finite, FS_Injection
  <2>6. doomed \subseteq Counted(x)
    BY DEF Doomed
  <2> QED BY <2>5, <2>6, FS_Subset, FS_CardinalityType
<1>4. /\ o.do = "truncate" /\ o.begun = FALSE /\ o.ino = i /\ o.size = n
      /\ o.ext = kept /\ o.todo = doomed /\ o.freed = freed
      /\ o = [do |-> "truncate", begun |-> FALSE, ino |-> i, size |-> n, ext |-> kept,
              todo |-> doomed, freed |-> freed]
  OBVIOUS
<1>5. i \in NamedIn(s)
  BY <1>1 DEF NamedIn
<1>6. Kept(x, n) = kept /\ Doomed(x, n) = doomed /\ Cardinality(doomed) = freed
  OBVIOUS
<1> HIDE DEF kept, freed, doomed
<1>7. o \in [do : {"truncate"}, begun : BOOLEAN, ino : Ino, size : Nat,
            ext : {Kept(x, n)}, todo : SUBSET Doomed(x, n),
            freed : {Cardinality(Doomed(x, n))} \cap Nat]
  BY <1>1, <1>3, <1>4, <1>6
<1>8. TruncateGoing(s, o)
  BY <1>1, <1>2, <1>4, <1>5, <1>7 DEF TruncateGoing
<1>9. Losing(o) = {}
  BY <1>4 DEF Losing
<1> QED BY <1>0, <1>8, <1>9 DEF Going, Doing

(* What a truncate relies on.                                              *)
LEMMA TruncateFacts ==
  ASSUME NEW s, NEW o, Going(s, o), o.do = "truncate"
  PROVE  /\ Sound(s) /\ TruncateGoing(s, o) /\ AllTaken(s, {o.ino})
         /\ o.ino \in Files(s) /\ o.ino \in Ino /\ o.ino \in InUse(s)
<1>1. Sound(s) /\ TruncateGoing(s, o)
  BY WhichGoes DEF Going
<1>2. AllTaken(s, {o.ino})
  <2>1. Losing(o) \subseteq {o.ino}
    BY DEF Losing
  <2> QED BY <2>1 DEF Going, AllTaken
<1>3. o.ino \in NamedIn(s) /\ Inode(s, o.ino).kind = "file"
  BY <1>1 DEF TruncateGoing
<1>4. PICK p \in Dirs(s), k \in Places : At(s, p, k) = o.ino
  BY <1>3 DEF NamedIn
<1>5. o.ino \in Ino
  BY <1>3 DEF NamedIn
<1>6. o.ino \in Dirs(s) \cup Files(s)
  BY <1>1, <1>4, <1>5, SlotFound
<1>7. o.ino \in InUse(s)
  BY <1>1, <1>6, SoundFacts
<1> QED BY <1>1, <1>2, <1>3, <1>5, <1>7 DEF Files

(* truncate frees the block of one place.                                  *)
LEMMA TruncateFrees ==
  ASSUME NEW s, NEW o, Going(s, o), o.do = "truncate", NEW m \in o.todo,
         NEW t, t = Overlay(s, FreeBlk(s, m.pb)), NEW u,
         u = [o EXCEPT !.todo = @ \ {m}, !.begun = TRUE]
  PROVE  Going(t, u) /\ NamesGo(s, t) /\ FreeLeft(s, t, m.pb)
<1> DEFINE i == o.ino
           n == o.size
           x == Inode(s, i).ext
<1>0. /\ Sound(s) /\ TruncateGoing(s, o) /\ AllTaken(s, {i})
      /\ i \in Files(s) /\ i \in Ino /\ i \in InUse(s)
  BY TruncateFacts
<1>1. /\ o \in [do : {"truncate"}, begun : BOOLEAN, ino : Ino, size : Nat,
                ext : {Kept(x, n)}, todo : SUBSET Doomed(x, n),
                freed : {Cardinality(Doomed(x, n))} \cap Nat]
      /\ i \in NamedIn(s) /\ Inode(s, i).kind = "file"
      /\ \A l \in Counted(x) : l \in o.todo \/ l.lb < BlocksFor(n) => l.pb \in Taken(s)
  BY <1>0 DEF TruncateGoing
<1>2. m \in Counted(x) /\ m.lb >= BlocksFor(n) /\ m.pb \in Taken(s)
  BY <1>1 DEF Doomed
<1>3. /\ m.pb \in Holds(s, i)
      /\ \A l \in Counted(x) : l # m => l.pb # m.pb
  BY <1>0, <1>2, SoundFacts DEF Owning, Once, Holds, Claims
<1>4. m.pb \in Taken(s) \ Meta
  BY <1>0, <1>2, <1>3, SoundFacts DEF Owning
<1>5. /\ Sound(t) /\ SameNames(s, t) /\ NamesGo(s, t) /\ FreeLeft(s, t, m.pb)
      /\ Taken(t) = Taken(s) \ {m.pb} /\ InUse(t) = InUse(s)
      /\ \A j \in Ino : Inode(t, j) = Inode(s, j)
  BY <1>0, <1>4, FreeStep
<1>6. AllTaken(t, {i})
  <2>1. \A j \in InUse(s) : j \in Ino /\ Holds(t, j) = Holds(s, j)
    BY <1>0, <1>5, SoundFacts DEF Holds
  <2>2. \A j \in InUse(s) \ {i} : m.pb \notin Holds(s, j)
    BY <1>0, <1>3, SoundFacts DEF Owning
  <2> QED BY <1>0, <1>5, <2>1, <2>2 DEF AllTaken
<1>7. /\ u.do = "truncate" /\ u.begun = TRUE /\ u.ino = i /\ u.size = n
      /\ u.todo = o.todo \ {m}
      /\ u \in [do : {"truncate"}, begun : BOOLEAN, ino : Ino, size : Nat,
                ext : {Kept(x, n)}, todo : SUBSET Doomed(x, n),
                freed : {Cardinality(Doomed(x, n))} \cap Nat]
  <2> DEFINE kept == {Kept(x, n)}
             doomed == SUBSET Doomed(x, n)
             freed == {Cardinality(Doomed(x, n))} \cap Nat
  <2>1. \A d \in doomed : d \ {m} \in doomed
    OBVIOUS
  <2>2. o \in [do : {"truncate"}, begun : BOOLEAN, ino : Ino, size : Nat,
              ext : kept, todo : doomed, freed : freed]
    BY <1>1
  <2> HIDE DEF kept, doomed, freed, x
  <2> DEFINE rest == o.todo \ {m}
  <2>3. rest \in doomed
    BY <2>1, <2>2
  <2>4. u = [o EXCEPT !.todo = rest, !.begun = TRUE]
    OBVIOUS
  <2> HIDE DEF rest
  <2>5. /\ u.do = "truncate" /\ u.begun = TRUE /\ u.ino = i /\ u.size = n /\ u.todo = rest
        /\ u.ext = o.ext /\ u.freed = o.freed
    BY <2>2, <2>4
  <2>6. u \in [do : {"truncate"}, begun : BOOLEAN, ino : Ino, size : Nat,
              ext : kept, todo : doomed, freed : freed]
    BY <2>2, <2>3, <2>4
  <2> QED BY <2>5, <2>6 DEF kept, doomed, freed, rest
<1> HIDE DEF i, n
<1>8. TruncateGoing(t, u)
  <2>1. Inode(t, u.ino) = Inode(s, i) /\ Inode(t, u.ino).kind = "file"
    BY <1>0, <1>1, <1>5, <1>7
  <2>2. u.ino \in NamedIn(t)
    BY <1>0, <1>1, <1>5, <1>7, NamesStay
  <2>3. \A l \in Counted(x) : l \in u.todo \/ l.lb < BlocksFor(n) => l.pb \in Taken(t)
    <3> SUFFICES ASSUME NEW l \in Counted(x), l \in u.todo \/ l.lb < BlocksFor(n)
                 PROVE  l.pb \in Taken(t)
      OBVIOUS
    <3>1. l # m
      <4>1. m.lb \in Nat /\ BlocksFor(n) \in Int
        <5>1. x \in Extents
          BY <1>0, SoundFacts, TableFacts DEF Node
        <5>2. PICK k \in DOMAIN x, j \in Nat : m = [lb |-> x[k].lb + j, pb |-> x[k].pb + j]
          <6> HIDE DEF x
          <6> QED BY <1>2, <5>1, CountedIs
        <5>3. x[k].lb \in Nat
          <6> HIDE DEF x
          <6> QED BY <5>1, CountedIs DEF Extent
        <5>4. BlocksFor(n) \in Int
          <6>1. n \in Nat /\ Unit \in Nat \ {0}
            BY <1>1, Geometry DEF n
          <6>2. n + Unit - 1 \in Nat
            BY <6>1
          <6> QED BY <6>1, <6>2, Division DEF BlocksFor
        <5> QED BY <5>2, <5>3, <5>4
      <4> QED BY <1>2, <1>7, <4>1
    <3> QED BY <1>1, <1>3, <1>5, <1>7, <3>1
  <2> HIDE DEF x
  <2> QED BY <1>7, <2>1, <2>2, <2>3 DEF TruncateGoing, x
<1>9. Losing(u) = {i}
  BY <1>7 DEF Losing, Freeing
<1> QED BY <1>5, <1>6, <1>8, <1>9 DEF Going, Doing

(* truncate ends: what is kept is still taken.                             *)
LEMMA TruncateEnds ==
  ASSUME NEW s, NEW o, Going(s, o), o.do = "truncate",
         NEW t, t = Overlay(s, TruncateTx(s, o.ino, o.size, o.ext, o.freed))
  PROVE  /\ Going(t, Idle) /\ NamesGo(s, t) /\ SameMaps(s, t) /\ FileLeft(s, t, o.ino, {})
         /\ LET x == Inode(s, o.ino).ext IN
            /\ Became(t, o.ino, Kept(x, o.size), o.size, Inode(s, o.ino).nblk - o.freed)
            /\ \A m : m \in Counted(Kept(x, o.size)) <=> m \in Counted(x) /\ m.lb < BlocksFor(o.size)
<1> DEFINE i == o.ino
           n == o.size
           freed == o.freed
           x == Inode(s, i).ext
           y == Kept(x, n)
           rec == [Inode(s, i) EXCEPT !.ext = y, !.size = n, !.nblk = @ - freed]
<1>0. /\ Sound(s) /\ TruncateGoing(s, o) /\ AllTaken(s, {i})
      /\ i \in Files(s) /\ i \in Ino /\ i \in InUse(s)
  BY TruncateFacts
<1>1. /\ n \in Nat /\ o.ext = y /\ freed \in Nat /\ Inode(s, i).kind = "file"
      /\ \A l \in Counted(x) : l.lb < BlocksFor(n) => l.pb \in Taken(s)
  BY <1>0 DEF TruncateGoing
<1>2. Inode(s, i) \in Node
  BY <1>0, SoundFacts, TableFacts
<1>3. t = Overlay(s, TruncateTx(s, i, n, y, freed))
  BY <1>1
<1> HIDE DEF i, n, freed
<1>4. x \in Extents
  BY <1>2 DEF Node
<1>5. y \in Extents /\ \A m : m \in Counted(y) <=> m \in Counted(x) /\ m.lb < BlocksFor(n)
  <2> HIDE DEF x
  <2> QED BY <1>1, <1>4, KeptIs
<1>6. Whole(t) /\ SameMaps(s, t) /\ SameDatas(s, t) /\ WroteInode(s, t, i, rec)
  <2>1. Truncated(s, t, i, n, y, freed, rec)
    BY <1>3 DEF Truncated
  <2> HIDE DEF y, rec
  <2>2. Whole(s) /\ i \in Ino
    BY <1>0, SoundFacts
  <2> QED BY <2>1, <2>2, TruncateLeaves
<1>7. /\ rec \in Node /\ rec.kind = "file" /\ rec.links = Inode(s, i).links /\ rec.ext = y
      /\ rec.size = n /\ rec.nblk = Inode(s, i).nblk - freed
  <2> DEFINE l == Inode(s, i).nblk - freed
  <2>1. l \in Int
    BY <1>1, <1>2 DEF Node
  <2>2. rec = [Inode(s, i) EXCEPT !.ext = y, !.size = n, !.nblk = l]
    OBVIOUS
  <2> HIDE DEF y, l, rec
  <2>3. /\ rec \in Node /\ rec.kind = "file" /\ rec.links = Inode(s, i).links /\ rec.ext = y
        /\ rec.size = n /\ rec.nblk = l
    BY <1>1, <1>2, <1>5, <2>1, <2>2 DEF Node
  <2> QED BY <2>3 DEF l
<1>8. Maps(t) /\ Counting(t) /\ Taken(t) = Taken(s) /\ InUse(t) = InUse(s)
  BY <1>0, <1>6, SoundFacts, SameMapsCount
<1> HIDE DEF rec, y, x
<1>9. FileChanged(s, t, i, rec, {})
  BY <1>0, <1>6, <1>7, <1>8 DEF FileChanged, SameDatas
<1>10. /\ Tables(t) /\ SameNames(s, t) /\ Rooted(t) /\ NamesGo(s, t)
       /\ \A j \in Ino : Inode(t, j) = IF j = i THEN rec ELSE Inode(s, j)
  BY <1>0, <1>9, FileStep
<1>11. Datas(t)
  BY <1>0, <1>6, SoundFacts DEF Datas, SameDatas
<1>12. Blocks(t)
  BY <1>0, <1>3, <1>8, <1>10, <1>11, SoundFacts, BlocksAfter
<1>13. Once(x) /\ Claims(x) = Holds(s, i)
  BY <1>0, SoundFacts DEF Owning, Holds, x
<1>14. Inode(t, i).ext = y /\ Holds(t, i) = Claims(y)
  BY <1>0, <1>7, <1>10 DEF Holds
<1>15. Once(y) /\ Claims(y) \subseteq Claims(x)
  BY <1>5, <1>13 DEF Once, Claims
<1>16. \A j \in InUse(s) \ {i} : j \in Ino /\ Inode(t, j).ext = Inode(s, j).ext
  BY <1>0, <1>10, SoundFacts
<1>17. Owning(t)
  <2>1. Granted(s, t, i, {})
    BY <1>0, <1>8, <1>13, <1>14, <1>15, <1>16, SoundFacts DEF Granted, Owning
  <2> QED BY <1>0, <2>1, SoundFacts, OwningAfter
<1>18. AllTaken(t, {})
  <2>1. Holds(t, i) \subseteq Taken(t)
    BY <1>1, <1>5, <1>8, <1>14 DEF Claims, x
  <2> QED BY <1>0, <1>8, <1>16, <2>1 DEF AllTaken, Holds
<1>19. FileLeft(s, t, i, {})
  BY <1>0, <1>6, <1>8, <1>10, SameNumbers DEF FileLeft, Tally, SameInodes, SameBut, SameDatas
<1>20. Became(t, i, y, n, Inode(s, i).nblk - freed)
  BY <1>0, <1>7, <1>10 DEF Became
<1>21. /\ FileLeft(s, t, o.ino, {})
       /\ Became(t, o.ino, Kept(Inode(s, o.ino).ext, o.size), o.size, Inode(s, o.ino).nblk - o.freed)
  BY <1>19, <1>20 DEF i, n, freed, y, x
<1>22. \A m : m \in Counted(Kept(Inode(s, o.ino).ext, o.size)) <=>
             m \in Counted(Inode(s, o.ino).ext) /\ m.lb < BlocksFor(o.size)
  BY <1>5 DEF i, n, y, x
<1> QED BY <1>6, <1>21, <1>22, <1>8, <1>10, <1>12, <1>17, <1>18 DEF Going, Sound, Doing, Losing, Idle

(* An extended file has one place more, in a block that was free.          *)
LEMMA ExtendStep ==
  ASSUME NEW s, Going(s, Idle), NEW i \in Files(s), NEW c, c = Inode(s, i),
         NEW b \in Candidates(s, c), NEW n \in Nat,
         NEW t, t = Overlay(s, ExtendTx(s, c, i, b, n))
  PROVE  /\ Going(t, Idle) /\ NamesGo(s, t) /\ b \in Blk \ Taken(s)
         /\ TookBlk(s, t, b) /\ FileLeft(s, t, i, {b})
         /\ Became(t, i, Grown(c.ext, c, b), c.size + n, c.nblk + 1)
         /\ \A m : m \in Counted(Grown(c.ext, c, b)) <=>
              m \in Counted(c.ext) \/ m = [lb |-> After(LastExt(c)), pb |-> b]
<1> DEFINE x == c.ext
           y == Grown(x, c, b)
           rec == Append1(Inode(s, i), c, b, n)
<1>0. Sound(s) /\ AllTaken(s, {})
  BY DEF Going, Losing, Idle
<1>1. i \in Ino /\ i \in InUse(s) /\ c.kind = "file"
  BY <1>0, SoundFacts DEF Files
<1>2. c \in Node
  BY <1>0, <1>1, SoundFacts, TableFacts
<1>3. b \in Blk \ Taken(s)
  BY <1>0, SoundFacts, CandidatesFree
<1>4. Len(x) < MaxExt \/ b = Contig(c)
  <2>1. CASE Len(x) >= MaxExt
    BY <2>1 DEF Candidates
  <2>2. CASE ~(Len(x) >= MaxExt)
    <3>1. x \in Extents
      BY <1>2 DEF Node
    <3> HIDE DEF x
    <3>2. Len(x) \in Nat /\ MaxExt \in Nat
      BY <3>1, CountedIs, Geometry
    <3> QED BY <2>2, <3>2
  <2> QED BY <2>1, <2>2
<1>5. x \in Extents
  BY <1>2 DEF Node
<1>6. rec = [c EXCEPT !.ext = y, !.size = c.size + n, !.nblk = @ + 1]
  BY DEF Append1
<1>7. /\ Whole(t) /\ TookBlk(s, t, b) /\ WroteData(s, t, b, FileData(i))
      /\ WroteInode(s, t, i, rec)
  BY <1>0, <1>1, <1>3, SoundFacts, ExtendLeaves
<1> HIDE DEF y, rec
<1>8. /\ y \in Extents
      /\ \A m : m \in Counted(y) <=> m \in Counted(x) \/ m = [lb |-> After(LastExt(c)), pb |-> b]
  <2> HIDE DEF x
  <2>1. c.ext = x
    BY DEF x
  <2> QED BY <1>3, <1>4, <1>5, <2>1, GrownIs DEF y
<1>9. /\ rec \in Node /\ rec.kind = "file" /\ rec.links = c.links /\ rec.ext = y
      /\ rec.size = c.size + n /\ rec.nblk = c.nblk + 1
  <2>1. c.size + n \in Nat /\ c.nblk + 1 \in Int
    BY <1>2 DEF Node
  <2> QED BY <1>1, <1>2, <1>6, <1>8, <2>1 DEF Node
<1>10. Maps(t) /\ Counting(t) /\ Taken(t) = Taken(s) \cup {b} /\ InUse(t) = InUse(s)
  BY <1>0, <1>3, <1>7, SoundFacts, TookBlkCounts
<1>11. \A j \in InUse(s) : b \notin Holds(s, j)
  BY <1>0, <1>3 DEF AllTaken
<1>12. FileChanged(s, t, i, rec, {b})
  BY <1>7, <1>9, <1>10, <1>11 DEF FileChanged, WroteData
<1>13. /\ Tables(t) /\ SameNames(s, t) /\ Rooted(t) /\ NamesGo(s, t)
       /\ \A j \in Ino : Inode(t, j) = IF j = i THEN rec ELSE Inode(s, j)
  BY <1>0, <1>12, FileStep
<1>14. Datas(t)
  <2>1. FileData(i) \in Contents
    BY <1>1, NewNodes
  <2> QED BY <1>0, <1>7, <2>1, SoundFacts DEF Datas, WroteData
<1>15. Blocks(t)
  BY <1>0, <1>10, <1>13, <1>14, SoundFacts, BlocksAfter
<1>16. Once(x) /\ Claims(x) = Holds(s, i)
  BY <1>0, <1>1, SoundFacts DEF Owning, Holds
<1>17. Inode(t, i).ext = y /\ Holds(t, i) = Claims(y)
  BY <1>1, <1>9, <1>13 DEF Holds
<1>18. Once(y) /\ Claims(y) \subseteq Claims(x) \cup {b}
  <2> DEFINE e == [lb |-> After(LastExt(c)), pb |-> b]
  <2>1. \A m \in Counted(x) : m.pb \in Claims(x) /\ m.pb # b
    BY <1>1, <1>11, <1>16 DEF Claims
  <2>2. e.pb = b
    OBVIOUS
  <2>3. \A m \in Counted(y) : m \in Counted(x) \/ m = e
    BY <1>8
  <2> HIDE DEF e
  <2>4. Once(y)
    BY <1>16, <2>1, <2>2, <2>3 DEF Once
  <2>5. Claims(y) \subseteq Claims(x) \cup {b}
    BY <2>1, <2>2, <2>3 DEF Claims
  <2> QED BY <2>4, <2>5
<1>19. \A j \in InUse(s) \ {i} : j \in Ino /\ Inode(t, j).ext = Inode(s, j).ext
  BY <1>0, <1>13, SoundFacts
<1>20. Owning(t)
  <2>1. Meta \subseteq Taken(t) /\ b \notin Meta
    BY <1>0, <1>3, <1>10, SoundFacts DEF Owning
  <2>2. Granted(s, t, i, {b})
    BY <1>1, <1>10, <1>11, <1>16, <1>17, <1>18, <1>19, <2>1 DEF Granted
  <2> QED BY <1>0, <2>2, SoundFacts, OwningAfter
<1>21. AllTaken(t, {})
  <2>1. Holds(t, i) \subseteq Taken(t)
    BY <1>0, <1>1, <1>10, <1>16, <1>17, <1>18 DEF AllTaken
  <2> QED BY <1>0, <1>10, <1>19, <2>1 DEF AllTaken, Holds
<1>22. FileLeft(s, t, i, {b})
  BY <1>0, <1>3, <1>7, <1>10, <1>13, SameNumbers DEF FileLeft, Tally, SameInodes, SameBut, WroteData
<1>23. Became(t, i, y, c.size + n, c.nblk + 1)
  BY <1>1, <1>9, <1>13 DEF Became
<1>24. /\ Became(t, i, Grown(c.ext, c, b), c.size + n, c.nblk + 1)
       /\ \A m : m \in Counted(Grown(c.ext, c, b)) <=>
            m \in Counted(c.ext) \/ m = [lb |-> After(LastExt(c)), pb |-> b]
  BY <1>8, <1>23 DEF y
<1> QED BY <1>3, <1>7, <1>22, <1>24, <1>10, <1>13, <1>15, <1>20, <1>21 DEF Going, Sound, Doing, Losing, Idle

(* A file is written in place.                                             *)
LEMMA WriteStep ==
  ASSUME NEW s, Going(s, Idle), NEW i \in Files(s), NEW m \in Mapped(Inode(s, i).ext),
         NEW t, t = Overlay(s, WriteTx(s, i, m.pb))
  PROVE  /\ Going(t, Idle) /\ NamesGo(s, t) /\ SameMaps(s, t) /\ FileLeft(s, t, i, {m.pb})
         /\ Inode(t, i) = Inode(s, i) /\ m \in Counted(Inode(s, i).ext)
<1> DEFINE x == Inode(s, i).ext
           b == m.pb
<1>0. Sound(s) /\ AllTaken(s, {})
  BY DEF Going, Losing, Idle
<1>1. i \in Ino /\ i \in InUse(s) /\ Inode(s, i).kind = "file" /\ Inode(s, i) \in Node
  BY <1>0, SoundFacts, TableFacts DEF Files
<1>2. m \in Counted(x)
  <2>1. x \in Extents
    BY <1>1 DEF Node
  <2>2. PICK e \in Range(x) : m \in Run(e, RealLen(e))
    BY DEF Mapped
  <2> HIDE DEF x
  <2>3. e \in Extent
    BY <2>1, <2>2, CountedIs DEF Range
  <2>4. e.len \in Nat
    BY <2>3 DEF Extent
  <2>5. RealLen(e) \in Nat /\ RealLen(e) <= e.len
    <3>1. \A l \in Nat : l % LenBit \in Nat /\ l % LenBit <= l
      BY Geometry, SMTT(30)
    <3> QED BY <2>4, <3>1 DEF RealLen
  <2>6. PICK j \in 0 .. RealLen(e) : j < RealLen(e) /\ m = [lb |-> e.lb + j, pb |-> e.pb + j]
    BY <2>2 DEF Run
  <2>7. j \in 0 .. e.len /\ j < e.len
    BY <2>4, <2>5, <2>6
  <2>8. m \in Run(e, e.len)
    BY <2>6, <2>7 DEF Run
  <2> QED BY <2>2, <2>8 DEF Counted
<1>3. b \in Holds(s, i)
  BY <1>2 DEF Holds, Claims
<1>4. b \in Blk
  BY <1>0, <1>1, <1>3, SoundFacts DEF AllTaken
<1>5. t = Overlay(s, << Wr(Data(b), FileData(i)), PutInode(s, i, Inode(s, i)) >>)
  BY DEF WriteTx
<1> HIDE DEF b
<1>6. /\ Whole(t) /\ SameMaps(s, t) /\ WroteData(s, t, b, FileData(i))
      /\ WroteInode(s, t, i, Inode(s, i))
  BY <1>0, <1>1, <1>4, <1>5, SoundFacts, DataLeaves
<1>7. Maps(t) /\ Counting(t) /\ Taken(t) = Taken(s) /\ InUse(t) = InUse(s)
  BY <1>0, <1>6, SoundFacts, SameMapsCount
<1>8. FileChanged(s, t, i, Inode(s, i), {b})
  BY <1>0, <1>1, <1>3, <1>6, <1>7, SoundFacts DEF FileChanged, WroteData, Owning
<1>9. /\ Tables(t) /\ SameNames(s, t) /\ Rooted(t) /\ NamesGo(s, t)
      /\ \A j \in Ino : Inode(t, j) = Inode(s, j)
  BY <1>0, <1>8, FileStep
<1>10. Datas(t)
  <2>1. FileData(i) \in Contents
    BY <1>1, NewNodes
  <2> QED BY <1>0, <1>6, <2>1, SoundFacts DEF Datas, WroteData
<1>11. Blocks(t)
  BY <1>0, <1>5, <1>7, <1>9, <1>10, SoundFacts, BlocksAfter
<1>12. Owning(t) /\ AllTaken(t, {})
  <2>1. \A j \in InUse(s) : Inode(t, j).ext = Inode(s, j).ext /\ Holds(t, j) = Holds(s, j)
    BY <1>0, <1>9, SoundFacts DEF Holds
  <2> QED BY <1>0, <1>7, <2>1, SoundFacts DEF Owning, AllTaken
<1>13. FileLeft(s, t, i, {b})
  <2>1. Taken(t) = Taken(s) \cup {b}
    BY <1>0, <1>1, <1>3, <1>7 DEF AllTaken
  <2> QED BY <1>0, <1>4, <1>6, <1>7, <1>9, <2>1, SameNumbers
       DEF FileLeft, Tally, SameInodes, SameBut, WroteData
<1>14. FileLeft(s, t, i, {m.pb})
  BY <1>13 DEF b
<1> QED BY <1>1, <1>2, <1>6, <1>14, <1>7, <1>9, <1>11, <1>12 DEF Going, Sound, Doing, Losing, Idle

(* Only entries change, of the directories W, and links.                   *)
Reentered(s, t, W, G) ==
  /\ SameMaps(s, t) /\ W \subseteq Dirs(s)
  /\ \A j \in Ino : Inode(t, j).kind = Inode(s, j).kind /\ Inode(t, j).ext = Inode(s, j).ext
  /\ \A w \in W : t[Data(DirBlk(s, w))] = DirBlock(G[w]) /\ G[w] \in [Slot -> Record]
  /\ \A c \in Blk : (\A w \in W : c # DirBlk(s, w)) => t[Data(c)] = s[Data(c)]

(* Then all is as before but for the entries.                              *)
LEMMA EntriesStep ==
  ASSUME NEW s, Sound(s), AllTaken(s, {}), NEW t, NEW W, NEW G, Reentered(s, t, W, G)
  PROVE  /\ Maps(t) /\ Datas(t) /\ Counting(t) /\ Owning(t) /\ AllTaken(t, {})
         /\ Dirs(t) = Dirs(s) /\ Files(t) = Files(s)
         /\ Taken(t) = Taken(s) /\ InUse(t) = InUse(s) /\ SameBut(s, t, DirBlks(s))
         /\ \A q \in Dirs(s) : Held(t)[q] = IF q \in W THEN G[q] ELSE Held(s)[q]
<1>1. Maps(t) /\ Counting(t) /\ Taken(t) = Taken(s) /\ InUse(t) = InUse(s)
  BY SoundFacts, SameMapsCount DEF Reentered
<1>2. Datas(t)
  <2> SUFFICES ASSUME NEW c \in Blk PROVE t[Data(c)] \in Contents
    BY DEF Datas
  <2>1. CASE \E w \in W : c = DirBlk(s, w)
    BY <2>1, NewNodes DEF Reentered
  <2>2. CASE \A w \in W : c # DirBlk(s, w)
    BY <2>2, SoundFacts DEF Reentered, Datas
  <2> QED BY <2>1, <2>2
<1>3. \A j \in InUse(s) : Inode(t, j).ext = Inode(s, j).ext /\ Holds(t, j) = Holds(s, j)
  BY SoundFacts DEF Holds, Reentered
<1>4. Owning(t) /\ AllTaken(t, {})
  BY <1>1, <1>3, SoundFacts DEF Owning, AllTaken
<1>5. Retold(s, t, {}, {}, W, G)
  BY <1>1 DEF Retold, Reentered
<1>6. /\ \A j \in Ino \ {} : IsDir(t, j) <=> IsDir(s, j)
      /\ \A j \in Dirs(s) \ {} : Ents(t, j) = IF j \in W THEN G[j] ELSE Ents(s, j)
  BY <1>1, <1>5, SoundFacts, DirsAfter
<1>7. Dirs(t) = Dirs(s)
  BY <1>6 DEF Dirs
<1>8. Files(t) = Files(s)
  BY <1>1, SoundFacts DEF Files, Reentered
<1>9. \A q \in Dirs(s) : Held(t)[q] = IF q \in W THEN G[q] ELSE Held(s)[q]
  BY <1>6, <1>7 DEF Held
<1>10. SameBut(s, t, DirBlks(s))
  BY DEF Reentered, SameBut, DirBlks
<1> QED BY <1>1, <1>2, <1>4, <1>7, <1>8, <1>9, <1>10

(* A name is changed in its directory.                                     *)
LEMMA RenameStep ==
  ASSUME NEW s, Going(s, Idle), NEW p \in Dirs(s), NEW k \in Places, NEW i \in Ino,
         At(s, p, k) = i, NEW n \in Name, Lookup(s, p, n) = {},
         NEW t, t = Overlay(s, RenameTx(s, p, i, n))
  PROVE  Going(t, Idle) /\ NamesGo(s, t) /\ NamesLeft(s, t)
<1> DEFINE f == Ents(s, p)
           g == [f EXCEPT ![SlotOf(f, i)].name = n]
<1>0. Sound(s) /\ AllTaken(s, {})
  BY DEF Going, Losing, Idle
<1>1. /\ p \in Ino /\ DirBlk(s, p) \in Blk /\ f \in [Slot -> Record] /\ Held(s)[p] = f
  BY <1>0, SoundFacts, DirFacts
<1>2. Occupied(Dirs(s), Held(s), p, k, i) /\ SlotOf(f, i) = k
  BY <1>0, SlotFound
<1>3. NewName(Held(s), p, n)
  BY <1>0, NameIsNew
<1>4. t = Overlay(s, << Wr(Data(DirBlk(s, p)), DirBlock(g)), PutInode(s, p, Inode(s, p)) >>)
  BY DEF RenameTx, PutEnts
<1>5. k \in Slot /\ f[k].ino = i /\ Entry(i, n) \in Record
  BY SlotFacts, NewNodes DEF At
<1>6. g = [f EXCEPT ![k] = Entry(i, n)]
  <2>1. [f[k] EXCEPT !.name = n] = Entry(i, n)
    <3> DEFINE r == f[k]
    <3>1. r \in Record /\ r.ino = i
      BY <1>1, <1>5
    <3> HIDE DEF r
    <3>2. PICK N, I : Record = [name : N, ino : I]
      BY Zenon DEF Record
    <3>3. [r EXCEPT !.name = n] = [name |-> n, ino |-> i]
      BY <3>1, <3>2
    <3> QED BY <3>3 DEF Entry, r
  <2>2. g = [f EXCEPT ![k] = [f[k] EXCEPT !.name = n]]
    BY <1>2
  <2> QED BY <2>1, <2>2
<1> HIDE DEF g
<1>7. g \in [Slot -> Record] /\ \A l \in Slot : g[l] = IF l = k THEN Entry(i, n) ELSE f[l]
  BY <1>1, <1>5, <1>6
<1>8. /\ Whole(t) /\ SameMaps(s, t) /\ WroteData(s, t, DirBlk(s, p), DirBlock(g))
      /\ WroteInode(s, t, p, Inode(s, p))
  BY <1>0, <1>1, <1>4, SoundFacts, DataLeaves
<1>9. Tables(t) /\ \A j \in Ino : Inode(t, j) = Inode(s, j)
  <2>1. Inode(s, p) \in Node
    BY <1>0, <1>1, SoundFacts, TableFacts
  <2> QED BY <1>0, <1>1, <1>8, <2>1, SoundFacts, InodeWritten
<1> DEFINE G == [w \in {p} |-> g]
<1>10. G[p] = g
  OBVIOUS
<1> HIDE DEF G
<1>11. Reentered(s, t, {p}, G)
  <2>1. \A c \in Blk : t[Data(c)] = IF c = DirBlk(s, p) THEN DirBlock(g) ELSE s[Data(c)]
    BY <1>8 DEF WroteData
  <2>2. t[Data(DirBlk(s, p))] = DirBlock(G[p]) /\ G[p] \in [Slot -> Record]
    BY <1>1, <1>7, <1>10, <2>1
  <2>3. SameMaps(s, t) /\ {p} \subseteq Dirs(s)
    BY <1>8
  <2> QED BY <1>9, <2>1, <2>2, <2>3 DEF Reentered
<1>12. /\ Maps(t) /\ Datas(t) /\ Counting(t) /\ Owning(t) /\ AllTaken(t, {})
       /\ Dirs(t) = Dirs(s) /\ Files(t) = Files(s)
       /\ Taken(t) = Taken(s) /\ InUse(t) = InUse(s) /\ SameBut(s, t, DirBlks(s))
       /\ \A q \in Dirs(s) : Held(t)[q] = IF q = p THEN g ELSE Held(s)[q]
  <2>1. \A q \in Dirs(s) : Held(t)[q] = IF q \in {p} THEN G[q] ELSE Held(s)[q]
    BY <1>0, <1>11, EntriesStep
  <2> QED BY <1>0, <1>10, <1>11, <2>1, EntriesStep
<1>13. Blocks(t)
  BY <1>0, <1>4, <1>9, <1>12, SoundFacts, BlocksAfter
<1>14. EntryRenaming(Dirs(s), Held(s), Files(s), LinksOf(s), p, k, i, n, Held(t), LinksOf(t))
  <2>1. \A q \in Dirs(s) : \A l \in Slot :
          Held(t)[q][l] = IF q = p /\ l = k THEN Entry(i, n) ELSE Held(s)[q][l]
    BY <1>1, <1>7, <1>12
  <2>2. LinksOf(t) = LinksOf(s)
    BY <1>9 DEF LinksOf
  <2> QED BY <1>0, <1>2, <1>3, <2>1, <2>2, SoundFacts DEF EntryRenaming
<1>15. Rooted(t)
  BY <1>12, <1>14, EntryRenamed DEF Rooted
<1>16. NamesGo(s, t) /\ Numbers(t) = Numbers(s)
  <2>1. i \in Dirs(s) \cup Files(s) /\ i # Root /\ Files(s) \cap Dirs(s) = {}
    BY <1>0, SlotFound, SoundFacts
  <2>2. SizesKept(s, t)
    BY <1>0, <1>9, SoundFacts DEF SizesKept
  <2> QED BY <1>12, <1>14, <2>1, <2>2, RenameTells
<1>17. NamesLeft(s, t)
  BY <1>8, <1>9, <1>12, <1>16 DEF NamesLeft, Tally, SameInodes
<1> QED BY <1>17, <1>12, <1>13, <1>15, <1>16 DEF Going, Sound, Doing, Losing, Idle

(* A move to another directory that the guards let through.                *)
Moving(s, p, k, i, q, n) ==
  /\ p \in Dirs(s) /\ k \in Places /\ i \in Ino /\ At(s, p, k) = i
  /\ q \in Dirs(s) /\ q # p /\ n \in Name
  /\ Lookup(s, q, n) = {} /\ HasRoom(s, q)
  /\ i \notin Files(s) => i \in Dirs(s) /\ i # q /\ Walk(s, i, q) \in {Root, 0}

(* The volume after such a move, which took slot k and gave slot m.        *)
Carries(s, t, p, k, i, q, m, n, dir) ==
  /\ Moving(s, p, k, i, q, n) /\ dir = (i \in Dirs(s))
  /\ Occupied(Dirs(s), Held(s), p, k, i) /\ Vacant(Dirs(s), Held(s), q, m, n)
  /\ i # p /\ i # q /\ i # Root /\ i \in Dirs(s) \cup Files(s)
  /\ Whole(t) /\ SameMaps(s, t)
  /\ WroteBoth(s, t, p, XdirOld(s, p, dir), q, XdirNew(s, q, dir))
  /\ \A c \in Blk : t[Data(c)] =
       IF dir /\ c = DirBlk(s, i) THEN DirBlock([Ents(s, i) EXCEPT ![2] = Entry(q, "..")])
       ELSE IF c = DirBlk(s, q) THEN DirBlock([Ents(s, q) EXCEPT ![m] = Entry(i, n)])
       ELSE IF c = DirBlk(s, p) THEN DirBlock([Ents(s, p) EXCEPT ![k] = NoEntry])
       ELSE s[Data(c)]

(* What a move writes.                                                     *)
LEMMA XdirBegins ==
  ASSUME NEW s, Sound(s), NEW p, NEW k, NEW i, NEW q, NEW n, Moving(s, p, k, i, q, n),
         NEW t, t = Overlay(s, RenameXdirTx(s, p, i, q, n))
  PROVE  \E m \in Places : Carries(s, t, p, k, i, q, m, n, i \in Dirs(s))
<1> DEFINE dir == i \in Dirs(s)
<1>1. /\ Occupied(Dirs(s), Held(s), p, k, i) /\ SlotOf(Ents(s, p), i) = k
      /\ i # p /\ i \in Dirs(s) \cup Files(s) /\ i # Root
  BY SlotFound DEF Moving
<1>2. PICK m \in Places :
        /\ Vacant(Dirs(s), Held(s), q, m, n)
        /\ \A j : Insert(Ents(s, q), j, n) = [Ents(s, q) EXCEPT ![m] = Entry(j, n)]
  BY VacantSlot DEF Moving
<1>3. Files(s) \cap Dirs(s) = {} /\ Blocks(s) /\ Whole(s)
  BY SoundFacts
<1>4. i # q
  <2>1. ASSUME i = q PROVE FALSE
    BY <1>3, <2>1 DEF Moving
  <2> QED BY <2>1
<1>5. /\ DirBlk(s, p) \in Blk /\ DirBlk(s, q) \in Blk /\ (dir => DirBlk(s, i) \in Blk)
      /\ p \in Ino /\ q \in Ino /\ i \in Ino
      /\ dir => Ents(s, i) \in [Slot -> Record]
  BY <1>3, DirFacts DEF Moving
<1>6. dir = (Inode(s, i).kind = "dir")
  <2>1. CASE i \in Dirs(s)
    BY <1>3, <2>1, DirFacts
  <2>2. CASE i \notin Dirs(s)
    BY <1>1, <2>2 DEF Files
  <2> QED BY <2>1, <2>2
<1>7. Carried(s, t, p, i, q, n, dir)
  <2> HIDE DEF dir
  <2> QED BY <1>3, <1>5, <1>6 DEF Carried
<1>8. Remove(Ents(s, p), i) = [Ents(s, p) EXCEPT ![k] = NoEntry]
  BY <1>1 DEF Remove
<1>9. dir => [Ents(s, i) EXCEPT ![2].ino = q] = [Ents(s, i) EXCEPT ![2] = Entry(q, "..")]
  <2> SUFFICES ASSUME dir PROVE [Ents(s, i) EXCEPT ![2].ino = q] = [Ents(s, i) EXCEPT ![2] = Entry(q, "..")]
    OBVIOUS
  <2> DEFINE f == Ents(s, i)
             r == f[2]
  <2>1. r \in Record /\ r.name = ".."
    <3>1. Held(s)[i] = f
      BY <1>3, DirFacts
    <3>2. f[2].name = ".."
      BY <3>1, SoundFacts DEF Rooted, TreeOf, Shape
    <3> QED BY <1>5, <3>2, SlotFacts
  <2> HIDE DEF r
  <2>2. PICK N, I : Record = [name : N, ino : I]
    BY Zenon DEF Record
  <2>3. [r EXCEPT !.ino = q] = [name |-> "..", ino |-> q]
    BY <2>1, <2>2
  <2>4. [f EXCEPT ![2].ino = q] = [f EXCEPT ![2] = [r EXCEPT !.ino = q]]
    BY DEF r
  <2> QED BY <2>3, <2>4 DEF Entry
<1> HIDE DEF dir
<1>10. Arrived(s, t, p, i, q, n, dir)
  BY <1>7, XdirLeaves
<1>11. Insert(Ents(s, q), i, n) = [Ents(s, q) EXCEPT ![m] = Entry(i, n)]
  BY <1>2
<1>12. \A c \in Blk : t[Data(c)] =
         IF dir /\ c = DirBlk(s, i) THEN DirBlock([Ents(s, i) EXCEPT ![2] = Entry(q, "..")])
         ELSE IF c = DirBlk(s, q) THEN DirBlock([Ents(s, q) EXCEPT ![m] = Entry(i, n)])
         ELSE IF c = DirBlk(s, p) THEN DirBlock([Ents(s, p) EXCEPT ![k] = NoEntry])
         ELSE s[Data(c)]
  BY <1>8, <1>9, <1>10, <1>11 DEF Arrived
<1>13. Carries(s, t, p, k, i, q, m, n, dir)
  BY <1>1, <1>2, <1>4, <1>10, <1>12 DEF Carries, Arrived, dir
<1> QED BY <1>13 DEF dir

(* The inodes of the two parents, and the entries of the three directories. *)
LEMMA XdirInodes ==
  ASSUME NEW s, Sound(s), NEW t, NEW p, NEW k, NEW i, NEW q, NEW m, NEW n, NEW dir,
         Carries(s, t, p, k, i, q, m, n, dir)
  PROVE  /\ Tables(t)
         /\ \A j \in Ino : Inode(t, j).kind = Inode(s, j).kind /\ Inode(t, j).ext = Inode(s, j).ext
         /\ \A j \in Ino \ {p, q} : Inode(t, j) = Inode(s, j)
         /\ Inode(t, p).links = IF dir THEN Inode(s, p).links - 1 ELSE Inode(s, p).links
         /\ Inode(t, q).links = IF dir THEN Inode(s, q).links + 1 ELSE Inode(s, q).links
<1> DEFINE old == XdirOld(s, p, dir)
           new == XdirNew(s, q, dir)
<1>1. p \in Ino /\ q \in Ino /\ p # q /\ p \in Dirs(s) /\ dir \in BOOLEAN
  BY SoundFacts, DirFacts DEF Carries, Moving
<1>2. Inode(s, p) \in Node /\ Inode(s, q) \in Node
  BY <1>1, SoundFacts, TableFacts
<1>3. Inode(s, p).links = 2 + Cardinality(Under(Dirs(s), Held(s), p))
  BY <1>1, SoundFacts DEF Rooted, TreeOf, Linked, LinksOf
<1>4. Fewer(Inode(s, p).links) = Inode(s, p).links - 1
  <2>1. Under(Dirs(s), Held(s), p) \subseteq Ino
    BY DEF Under, Dirs
  <2>2. Cardinality(Under(Dirs(s), Held(s), p)) \in Nat
    BY <2>1, Finite, FS_Subset, FS_CardinalityType
  <2> QED BY <1>3, <2>2 DEF Fewer
<1>5. /\ old \in Node /\ old.kind = Inode(s, p).kind /\ old.ext = Inode(s, p).ext
      /\ old.links = IF dir THEN Inode(s, p).links - 1 ELSE Inode(s, p).links
  <2>1. CASE dir
    <3> DEFINE a == Fewer(Inode(s, p).links)
               c == Inode(s, p)
    <3>1. a \in Nat /\ old = [c EXCEPT !.links = a] /\ c \in Node
      BY <1>2, <2>1 DEF Fewer, Node, XdirOld, Relink
    <3>2. a = Inode(s, p).links - 1
      BY <1>4
    <3> HIDE DEF a, c, old
    <3>3. old \in Node /\ old.kind = c.kind /\ old.ext = c.ext /\ old.links = a
      BY <3>1 DEF Node
    <3> QED BY <2>1, <3>2, <3>3 DEF c
  <2>2. CASE ~dir
    BY <1>2, <2>2 DEF XdirOld
  <2> QED BY <1>1, <2>1, <2>2
<1>6. /\ new \in Node /\ new.kind = Inode(s, q).kind /\ new.ext = Inode(s, q).ext
      /\ new.links = IF dir THEN Inode(s, q).links + 1 ELSE Inode(s, q).links
  <2>1. CASE dir
    <3> DEFINE a == Inode(s, q).links + 1
               c == Inode(s, q)
    <3>1. a \in Nat /\ new = [c EXCEPT !.links = a] /\ c \in Node
      BY <1>2, <2>1 DEF Node, XdirNew, Relink
    <3>2. a = Inode(s, q).links + 1
      OBVIOUS
    <3> HIDE DEF a, c, new
    <3>3. new \in Node /\ new.kind = c.kind /\ new.ext = c.ext /\ new.links = a
      BY <3>1 DEF Node
    <3> QED BY <2>1, <3>2, <3>3 DEF c
  <2>2. CASE ~dir
    BY <1>2, <2>2 DEF XdirNew
  <2> QED BY <1>1, <2>1, <2>2
<1>7. WroteBoth(s, t, p, old, q, new) /\ Tables(s)
  BY SoundFacts DEF Carries
<1> HIDE DEF old, new
<1>8. /\ Tables(t)
      /\ \A j \in Ino : Inode(t, j) = IF j = q THEN new ELSE IF j = p THEN old ELSE Inode(s, j)
  BY <1>1, <1>5, <1>6, <1>7, BothWritten
<1> QED BY <1>1, <1>5, <1>6, <1>8

(* The entries of the three directories, and all that a move leaves alone. *)
LEMMA XdirEntries ==
  ASSUME NEW s, Sound(s), AllTaken(s, {}), NEW t, NEW p, NEW k, NEW i, NEW q, NEW m, NEW n, NEW dir,
         Carries(s, t, p, k, i, q, m, n, dir)
  PROVE  /\ Maps(t) /\ Datas(t) /\ Counting(t) /\ Owning(t) /\ AllTaken(t, {})
         /\ Dirs(t) = Dirs(s) /\ Files(t) = Files(s)
         /\ Taken(t) = Taken(s) /\ InUse(t) = InUse(s) /\ SameBut(s, t, DirBlks(s))
         /\ \A r \in Dirs(s) : \A l \in Slot : Held(t)[r][l] =
              IF r = p /\ l = k THEN NoEntry
              ELSE IF r = q /\ l = m THEN Entry(i, n)
              ELSE IF r = i /\ dir /\ l = 2 THEN Entry(q, "..") ELSE Held(s)[r][l]
<1> DEFINE f == [Ents(s, p) EXCEPT ![k] = NoEntry]
           g == [Ents(s, q) EXCEPT ![m] = Entry(i, n)]
           h == [Ents(s, i) EXCEPT ![2] = Entry(q, "..")]
           W == {w \in {p, q, i} : w = i => dir}
           G == [w \in W |-> IF w = p THEN f ELSE IF w = q THEN g ELSE h]
<1>1. /\ p \in Dirs(s) /\ q \in Dirs(s) /\ p # q /\ i # p /\ i # q /\ dir = (i \in Dirs(s))
      /\ k \in Slot /\ m \in Slot /\ i \in Ino /\ q \in Ino /\ n \in Name
  BY SlotFacts, SoundFacts, DirFacts DEF Carries, Moving, Vacant
<1>2. /\ Ents(s, p) \in [Slot -> Record] /\ Ents(s, q) \in [Slot -> Record]
      /\ dir => Ents(s, i) \in [Slot -> Record]
      /\ \A r \in Dirs(s) : Held(s)[r] = Ents(s, r)
  BY <1>1, SoundFacts, DirFacts
<1>3. NoEntry \in Record /\ Entry(i, n) \in Record /\ Entry(q, "..") \in Record
  BY <1>1, NewNodes
<1>4. /\ f \in [Slot -> Record] /\ \A l \in Slot : f[l] = IF l = k THEN NoEntry ELSE Ents(s, p)[l]
      /\ g \in [Slot -> Record] /\ \A l \in Slot : g[l] = IF l = m THEN Entry(i, n) ELSE Ents(s, q)[l]
  BY <1>1, <1>2, <1>3
<1>5. dir => /\ h \in [Slot -> Record]
             /\ \A l \in Slot : h[l] = IF l = 2 THEN Entry(q, "..") ELSE Ents(s, i)[l]
  BY <1>1, <1>2, <1>3, SlotFacts
<1>6. \A c \in Blk : t[Data(c)] =
        IF dir /\ c = DirBlk(s, i) THEN DirBlock(h)
        ELSE IF c = DirBlk(s, q) THEN DirBlock(g)
        ELSE IF c = DirBlk(s, p) THEN DirBlock(f) ELSE s[Data(c)]
  BY DEF Carries
<1> HIDE DEF f, g, h
<1>7. /\ p \in W /\ q \in W /\ W \subseteq Dirs(s) /\ \A w \in W : w = p \/ w = q \/ (w = i /\ dir)
      /\ (dir => i \in W) /\ (~dir => i \notin W)
      /\ G[p] = f /\ G[q] = g /\ (dir => G[i] = h)
  BY <1>1
<1> HIDE DEF W, G
<1>8. \A v, w \in Dirs(s) : v # w => DirBlk(s, v) # DirBlk(s, w)
  <2>1. \A v \in Dirs(s) : v \in InUse(s) /\ DirBlk(s, v) \in Holds(s, v)
    BY SoundFacts, DirFacts
  <2> QED BY <2>1, SoundFacts DEF Owning
<1>9. \A v \in Dirs(s) : DirBlk(s, v) \in Blk
  BY SoundFacts, DirFacts
<1>10. \A w \in W : t[Data(DirBlk(s, w))] = DirBlock(G[w]) /\ G[w] \in [Slot -> Record]
  <2>1. t[Data(DirBlk(s, p))] = DirBlock(f) /\ t[Data(DirBlk(s, q))] = DirBlock(g)
    BY <1>1, <1>6, <1>8, <1>9
  <2>2. dir => t[Data(DirBlk(s, i))] = DirBlock(h)
    BY <1>1, <1>6, <1>9
  <2> QED BY <1>4, <1>5, <1>7, <2>1, <2>2
<1>11. \A c \in Blk : (\A w \in W : c # DirBlk(s, w)) => t[Data(c)] = s[Data(c)]
  BY <1>6, <1>7
<1>12. Reentered(s, t, W, G)
  <2>1. \A j \in Ino : Inode(t, j).kind = Inode(s, j).kind /\ Inode(t, j).ext = Inode(s, j).ext
    BY XdirInodes
  <2>2. SameMaps(s, t)
    BY DEF Carries
  <2> QED BY <1>7, <1>10, <1>11, <2>1, <2>2 DEF Reentered
<1>13. /\ Maps(t) /\ Datas(t) /\ Counting(t) /\ Owning(t) /\ AllTaken(t, {})
       /\ Dirs(t) = Dirs(s) /\ Files(t) = Files(s)
       /\ Taken(t) = Taken(s) /\ InUse(t) = InUse(s) /\ SameBut(s, t, DirBlks(s))
       /\ \A r \in Dirs(s) : Held(t)[r] = IF r \in W THEN G[r] ELSE Held(s)[r]
  BY <1>12, EntriesStep
<1>14. ASSUME NEW r \in Dirs(s), NEW l \in Slot
       PROVE  Held(t)[r][l] = IF r = p /\ l = k THEN NoEntry
                ELSE IF r = q /\ l = m THEN Entry(i, n)
                ELSE IF r = i /\ dir /\ l = 2 THEN Entry(q, "..") ELSE Held(s)[r][l]
  <2>1. CASE r = p
    BY <1>1, <1>2, <1>4, <1>7, <1>13, <2>1
  <2>2. CASE r = q
    BY <1>1, <1>2, <1>4, <1>7, <1>13, <2>2
  <2>3. CASE r = i
    BY <1>1, <1>2, <1>5, <1>7, <1>13, <2>3
  <2>4. CASE r \notin {p, q, i}
    BY <1>1, <1>7, <1>13, <2>4
  <2> QED BY <2>1, <2>2, <2>3, <2>4
<1> QED BY <1>13, <1>14

(* A name moves to another directory, with its directory if it is one's.   *)
LEMMA RenameXdirStep ==
  ASSUME NEW s, Going(s, Idle), NEW p, NEW k, NEW i, NEW q, NEW n, Moving(s, p, k, i, q, n),
         NEW t, t = Overlay(s, RenameXdirTx(s, p, i, q, n))
  PROVE  Going(t, Idle) /\ NamesGo(s, t) /\ NamesLeft(s, t)
<1> DEFINE dir == i \in Dirs(s)
<1>0. Sound(s) /\ AllTaken(s, {})
  BY DEF Going, Losing, Idle
<1>1. PICK m \in Places : Carries(s, t, p, k, i, q, m, n, dir)
  BY <1>0, XdirBegins
<1>2. /\ p \in Dirs(s) /\ q \in Dirs(s) /\ p # q /\ i # p /\ i # q /\ i # Root
      /\ i \in Dirs(s) \cup Files(s) /\ k \in Places /\ p \in Ino /\ q \in Ino
      /\ Occupied(Dirs(s), Held(s), p, k, i) /\ Vacant(Dirs(s), Held(s), q, m, n)
      /\ TreeOn(Dirs(s), Held(s), Files(s), LinksOf(s))
      /\ Files(s) \cap Dirs(s) = {} /\ Dirs(s) \subseteq Ino /\ Files(s) \subseteq Ino
  BY <1>0, <1>1, SoundFacts DEF Carries, Moving, TreeOn
<1>3. /\ Tables(t) /\ SameMaps(s, t)
      /\ \A j \in Ino : Inode(t, j).kind = Inode(s, j).kind /\ Inode(t, j).ext = Inode(s, j).ext
      /\ \A j \in Ino \ {p, q} : Inode(t, j) = Inode(s, j)
      /\ Inode(t, p).links = IF dir THEN Inode(s, p).links - 1 ELSE Inode(s, p).links
      /\ Inode(t, q).links = IF dir THEN Inode(s, q).links + 1 ELSE Inode(s, q).links
  <2> HIDE DEF dir
  <2>1. SameMaps(s, t)
    BY <1>1 DEF Carries
  <2> QED BY <1>0, <1>1, <2>1, XdirInodes
<1>4. /\ Maps(t) /\ Datas(t) /\ Counting(t) /\ Owning(t) /\ AllTaken(t, {})
      /\ Dirs(t) = Dirs(s) /\ Files(t) = Files(s)
      /\ Taken(t) = Taken(s) /\ InUse(t) = InUse(s) /\ SameBut(s, t, DirBlks(s))
      /\ \A r \in Dirs(s) : \A l \in Slot : Held(t)[r][l] =
              IF r = p /\ l = k THEN NoEntry
              ELSE IF r = q /\ l = m THEN Entry(i, n)
              ELSE IF r = i /\ dir /\ l = 2 THEN Entry(q, "..") ELSE Held(s)[r][l]
  <2> HIDE DEF dir
  <2> QED BY <1>0, <1>1, XdirEntries
<1>5. Blocks(t)
  BY <1>0, <1>3, <1>4, SoundFacts, BlocksAfter
<1>6. /\ \A r \in Dirs(s) : Held(t)[r][1] = Held(s)[r][1]
      /\ \A r \in Dirs(s) : Held(t)[r][2] = IF r = i THEN Entry(q, "..") ELSE Held(s)[r][2]
      /\ EntryMoving(Dirs(s), Held(s), Files(s), LinksOf(s), p, k, i, q, m, n, Held(t))
  BY <1>2, <1>4, SlotFacts DEF EntryMoving
<1>7. /\ \A j \in Ino \ {p, q} : LinksOf(t)[j] = LinksOf(s)[j]
      /\ LinksOf(t)[p] = IF dir THEN LinksOf(s)[p] - 1 ELSE LinksOf(s)[p]
      /\ LinksOf(t)[q] = IF dir THEN LinksOf(s)[q] + 1 ELSE LinksOf(s)[q]
  BY <1>2, <1>3 DEF LinksOf
<1>10. SizesKept(s, t)
  <2>1. \A j \in Files(s) : j # p /\ j # q /\ j \in Ino
    BY <1>2
  <2> QED BY <1>3, <2>1 DEF SizesKept
<1>11. Numbers(t) = Numbers(s) => NamesLeft(s, t)
  BY <1>2, <1>3, <1>4 DEF NamesLeft, Tally, SameInodes
<1>8. CASE ~dir
  <2>1. FileMoving(Dirs(s), Held(s), Files(s), LinksOf(s), p, k, i, q, m, n, Held(t), LinksOf(t))
    BY <1>2, <1>6, <1>7, <1>8 DEF FileMoving
  <2>2. Rooted(t)
    BY <1>4, <2>1, FileMoved DEF Rooted
  <2>3. NamesGo(s, t) /\ Numbers(t) = Numbers(s)
    BY <1>2, <1>4, <1>6, <1>8, <1>10, MoveTells
  <2> QED BY <1>4, <1>5, <1>11, <2>2, <2>3 DEF Going, Sound, Doing, Losing, Idle
<1>9. CASE dir
  <2>1. LeadUp(Dirs(s), Held(t))
    <3>1. Walk(s, i, q) \in {Root, 0}
      BY <1>2, <1>9 DEF Moving
    <3>2. /\ Held(t)[i][2].ino = q
          /\ \A r \in Dirs(s) \ {i} : Held(t)[r][2].ino = DotDot(s, r)
      <4>1. \A r \in Dirs(s) : DotDot(s, r) = Held(s)[r][2].ino
        BY DEF Held, DotDot
      <4> QED BY <1>6, <1>9, <4>1, EntryFields
    <3> QED BY <1>2, <1>9, <3>1, <3>2, MoveLeadsUp
  <2>2. DirectoryMoving(Dirs(s), Held(s), Files(s), LinksOf(s), p, k, i, q, m, n, Held(t), LinksOf(t))
    BY <1>2, <1>6, <1>7, <1>9, <2>1 DEF DirectoryMoving
  <2>3. Rooted(t)
    BY <1>4, <2>2, DirectoryMoved DEF Rooted
  <2>4. NamesGo(s, t) /\ Numbers(t) = Numbers(s)
    <3>1. Held(t)[i][2].ino = q /\ \A r \in Dirs(s) \ {i} : Held(t)[r][2] = Held(s)[r][2]
      BY <1>6, <1>9, EntryFields
    <3> QED BY <1>2, <1>4, <1>6, <1>9, <1>10, <2>1, <3>1, MoveTells
  <2> QED BY <1>4, <1>5, <1>11, <2>3, <2>4 DEF Going, Sound, Doing, Losing, Idle
<1> QED BY <1>8, <1>9
==============================================================================
