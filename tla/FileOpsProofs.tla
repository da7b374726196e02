---------------------------- MODULE FileOpsProofs ----------------------------
(***************************************************************************)
(* Every transaction keeps what is in use to what has a name and files to  *)
(* the bytes written to them; and every step of the program keeps the      *)
(* volume sound, tidy and its files whole, whatever fails, until one of    *)
(* the disorders.                                                          *)
(***************************************************************************)
EXTENDS FsImageProofs

(***************************************************************************)
(* Each transaction keeps what is in use to what has a name.               *)
(***************************************************************************)
(* The inodes named are the ones a program is told of.                     *)
LEMMA NumbersAre ==
  ASSUME NEW s, Sound(s)
  PROVE  NamedIn(s) = Numbers(s)
<1>1. \A x : x \in TreeIn(s) <=>
        \E p \in Dirs(s), k \in Places : Held(s)[p][k].ino # 0 /\ x = Line(p, Held(s)[p][k])
  BY ToldIs DEF TreeIn
<1>2. \A p \in Dirs(s) : \A k \in Places :
        Held(s)[p][k].ino = At(s, p, k) /\ (At(s, p, k) # 0 => At(s, p, k) \in Ino)
  <2>1. \A p \in Dirs(s) : \A k \in Places : Held(s)[p][k].ino = At(s, p, k)
    BY DEF At, Held
  <2> QED BY <2>1, SoundFacts DEF Rooted, TreeOf, Shape
<1>3. \A p, e : Line(p, e).ino = e.ino
  BY DEF Line
<1>4. ASSUME NEW i \in NamedIn(s) PROVE i \in Numbers(s)
  <2>1. PICK p \in Dirs(s), k \in Places : At(s, p, k) = i
    BY <1>4 DEF NamedIn
  <2>2. i # 0
    <3>1. i \in Ino
      BY <1>4 DEF NamedIn
    <3> QED BY <3>1 DEF Ino
  <2>3. Line(p, Held(s)[p][k]) \in TreeIn(s)
    BY <1>1, <1>2, <2>1, <2>2
  <2> QED BY <1>2, <1>3, <2>1, <2>3 DEF Numbers
<1>5. ASSUME NEW i \in Numbers(s) PROVE i \in NamedIn(s)
  <2>1. PICK x \in TreeIn(s) : i = x.ino
    BY <1>5 DEF Numbers
  <2>2. PICK p \in Dirs(s), k \in Places : Held(s)[p][k].ino # 0 /\ x = Line(p, Held(s)[p][k])
    BY <1>1, <2>1
  <2> QED BY <1>2, <1>3, <2>1, <2>2 DEF NamedIn
<1> QED BY <1>4, <1>5

(* A directory's block depends on its inode alone.                         *)
LEMMA SameDirBlk ==
  ASSUME NEW s, NEW t, NEW p, Inode(t, p).ext = Inode(s, p).ext
  PROVE  DirBlk(t, p) = DirBlk(s, p) /\ Holds(t, p) = Holds(s, p)
<1>1. First(t, p) = First(s, p)
  BY DEF First
<1> QED BY <1>1 DEF DirBlk, Holds

(* Of an inode no operation empties, every block is still held.            *)
LEMMA HeldStill ==
  ASSUME NEW s, NEW o, NEW i
  PROVE  /\ StillHeld(s, o, i) \subseteq Holds(s, i)
         /\ i \notin Emptied(o) => StillHeld(s, o, i) = Holds(s, i)
         /\ \A t : Inode(t, i).ext = Inode(s, i).ext => StillHeld(t, o, i) = StillHeld(s, o, i)
  BY DEF StillHeld, Holds, Claims

(* An operation that is over empties nothing.                              *)
LEMMA NothingGoing == Emptied(Idle) = {} /\ Making(Idle) = {}
  BY DEF Emptied, Making, Idle, Freeing

-----------------------------------------------------------------------------
(* The count of directories of each group.                                 *)
DirCounts(s, D) == \A g \in Group : s[Bgd][g].dirs = Cardinality(D \cap InosOf(g))

(* Taking or freeing a block or a file's inode leaves it alone.            *)
DirsKept(s, t) ==
  \/ SameMaps(s, t)
  \/ \E b \in Blk : TookBlk(s, t, b) \/ FreedBlk(s, t, b)
  \/ \E i \in Ino : TookIno(s, t, i, 0) \/ FreedIno(s, t, i, 0)

(* Then the counts of directories are as before.                           *)
LEMMA DirsSame ==
  ASSUME NEW s, Maps(s), NEW t, NEW D, DirCounts(s, D), DirsKept(s, t)
  PROVE  DirCounts(t, D)
<1>1. s[Bgd] \in [Group -> Descriptor] /\ \A g \in Group : s[Bgd][g].dirs \in Nat
  BY DEF Maps, Descriptor
<1>2. SUFFICES ASSUME NEW g \in Group PROVE t[Bgd][g].dirs = s[Bgd][g].dirs
  BY DEF DirCounts
<1>3. s[Bgd][g] \in Descriptor /\ s[Bgd][g].dirs \in Nat
  BY <1>1
<1>4. CASE SameMaps(s, t)
  BY <1>4 DEF SameMaps
<1>5. ASSUME NEW b \in Blk, TookBlk(s, t, b) PROVE t[Bgd][g].dirs = s[Bgd][g].dirs
  <2>1. t[Bgd] = [s[Bgd] EXCEPT ![BlkGroup(b)].fb = @ - 1, ![BlkGroup(b)].uninit = @ \ {"blocks"}]
    BY <1>5 DEF TookBlk
  <2>2. \/ t[Bgd][g] = s[Bgd][g]
        \/ t[Bgd][g] = [s[Bgd][g] EXCEPT !.fb = @ - 1, !.uninit = @ \ {"blocks"}]
    BY <1>1, <2>1, BlkPlaced, Zenon
  <2> QED BY <1>3, <2>2 DEF Descriptor
<1>6. ASSUME NEW b \in Blk, FreedBlk(s, t, b) PROVE t[Bgd][g].dirs = s[Bgd][g].dirs
  <2>1. t[Bgd] = [s[Bgd] EXCEPT ![BlkGroup(b)].fb = @ + 1]
    BY <1>6 DEF FreedBlk
  <2>2. t[Bgd][g] = s[Bgd][g] \/ t[Bgd][g] = [s[Bgd][g] EXCEPT !.fb = @ + 1]
    BY <1>1, <2>1, BlkPlaced, Zenon
  <2> QED BY <1>3, <2>2 DEF Descriptor
<1>7. ASSUME NEW i \in Ino, TookIno(s, t, i, 0) PROVE t[Bgd][g].dirs = s[Bgd][g].dirs
  <2>1. t[Bgd] = [s[Bgd] EXCEPT ![InoGroup(i)].fi = @ - 1, ![InoGroup(i)].dirs = @ + 0,
                                ![InoGroup(i)].uninit = @ \ {"inodes"},
                                ![InoGroup(i)].unused = UnusedPast(i, @)]
    BY <1>7 DEF TookIno
  <2>2. \/ t[Bgd][g] = s[Bgd][g]
        \/ t[Bgd][g] = [s[Bgd][g] EXCEPT !.fi = @ - 1, !.dirs = @ + 0, !.uninit = @ \ {"inodes"},
                                         !.unused = UnusedPast(i, @)]
    BY <1>1, <2>1, InoPlaced, Zenon
  <2>3. t[Bgd][g] = s[Bgd][g] \/ t[Bgd][g].dirs = s[Bgd][g].dirs + 0
    BY <1>3, <2>2 DEF Descriptor
  <2> QED BY <1>3, <2>3
<1>8. ASSUME NEW i \in Ino, FreedIno(s, t, i, 0) PROVE t[Bgd][g].dirs = s[Bgd][g].dirs
  <2>1. t[Bgd] = [s[Bgd] EXCEPT ![InoGroup(i)].fi = @ + 1,
                                ![InoGroup(i)].dirs = IF @ > 0 THEN @ - 0 ELSE @]
    BY <1>8 DEF FreedIno
  <2>2. \/ t[Bgd][g] = s[Bgd][g]
        \/ t[Bgd][g] = [s[Bgd][g] EXCEPT !.fi = @ + 1, !.dirs = IF @ > 0 THEN @ - 0 ELSE @]
    BY <1>1, <2>1, InoPlaced, Zenon
  <2>3. \/ t[Bgd][g] = s[Bgd][g]
        \/ t[Bgd][g].dirs = IF s[Bgd][g].dirs > 0 THEN s[Bgd][g].dirs - 0 ELSE s[Bgd][g].dirs
    BY <1>3, <2>2 DEF Descriptor
  <2> QED BY <1>3, <2>3
<1> QED BY <1>4, <1>5, <1>6, <1>7, <1>8 DEF DirsKept

(* A directory's inode is taken: its group counts one more.                *)
LEMMA DirsMore ==
  ASSUME NEW s, Maps(s), NEW t, NEW i \in Ino, NEW D \in SUBSET Ino, i \notin D, DirCounts(s, D),
         TookIno(s, t, i, 1)
  PROVE  DirCounts(t, D \cup {i})
<1> DEFINE h == InoGroup(i)
<1>1. /\ s[Bgd] \in [Group -> Descriptor] /\ h \in Group
      /\ \A g \in Group : i \in InosOf(g) <=> g = h
  BY InoPlaced DEF Maps
<1>2. SUFFICES ASSUME NEW g \in Group PROVE t[Bgd][g].dirs = Cardinality((D \cup {i}) \cap InosOf(g))
  BY DEF DirCounts
<1>3. s[Bgd][g] \in Descriptor /\ s[Bgd][g].dirs = Cardinality(D \cap InosOf(g))
  BY <1>1 DEF DirCounts
<1>4. t[Bgd] = [s[Bgd] EXCEPT ![h].fi = @ - 1, ![h].dirs = @ + 1, ![h].uninit = @ \ {"inodes"},
                              ![h].unused = UnusedPast(i, @)]
  BY DEF TookIno
<1> HIDE DEF h
<1>5. CASE g # h
  <2>1. t[Bgd][g] = s[Bgd][g]
    BY <1>1, <1>4, <1>5
  <2>2. (D \cup {i}) \cap InosOf(g) = D \cap InosOf(g)
    BY <1>1, <1>5
  <2> QED BY <1>3, <2>1, <2>2
<1>6. CASE g = h
  <2>1. t[Bgd][g] = [s[Bgd][g] EXCEPT !.fi = @ - 1, !.dirs = @ + 1, !.uninit = @ \ {"inodes"},
                                      !.unused = UnusedPast(i, @)]
    BY <1>1, <1>4, <1>6
  <2>2. t[Bgd][g].dirs = s[Bgd][g].dirs + 1
    BY <1>3, <2>1 DEF Descriptor
  <2>3. (D \cup {i}) \cap InosOf(g) = (D \cap InosOf(g)) \cup {i} /\ i \notin D \cap InosOf(g)
    BY <1>1, <1>6
  <2>4. IsFiniteSet(D \cap InosOf(g))
    BY Finite, FS_Subset
  <2>5. Cardinality((D \cap InosOf(g)) \cup {i}) = Cardinality(D \cap InosOf(g)) + 1
    BY <2>3, <2>4, FS_AddElement
  <2> QED BY <1>3, <2>2, <2>3, <2>5
<1> QED BY <1>5, <1>6

(* And one fewer when it is freed.                                         *)
LEMMA DirsFewer ==
  ASSUME NEW s, Maps(s), NEW t, NEW i \in Ino, NEW D \in SUBSET Ino, i \in D, DirCounts(s, D),
         FreedIno(s, t, i, 1)
  PROVE  DirCounts(t, D \ {i})
<1> DEFINE h == InoGroup(i)
<1>1. /\ s[Bgd] \in [Group -> Descriptor] /\ h \in Group
      /\ \A g \in Group : i \in InosOf(g) <=> g = h
  BY InoPlaced DEF Maps
<1>2. SUFFICES ASSUME NEW g \in Group PROVE t[Bgd][g].dirs = Cardinality((D \ {i}) \cap InosOf(g))
  BY DEF DirCounts
<1>3. s[Bgd][g] \in Descriptor /\ s[Bgd][g].dirs = Cardinality(D \cap InosOf(g))
  BY <1>1 DEF DirCounts
<1>4. t[Bgd] = [s[Bgd] EXCEPT ![h].fi = @ + 1, ![h].dirs = IF @ > 0 THEN @ - 1 ELSE @]
  BY DEF FreedIno
<1> HIDE DEF h
<1>5. CASE g # h
  <2>1. t[Bgd][g] = s[Bgd][g]
    BY <1>1, <1>4, <1>5
  <2>2. (D \ {i}) \cap InosOf(g) = D \cap InosOf(g)
    BY <1>1, <1>5
  <2> QED BY <1>3, <2>1, <2>2
<1>6. CASE g = h
  <2>1. t[Bgd][g] = [s[Bgd][g] EXCEPT !.fi = @ + 1, !.dirs = IF @ > 0 THEN @ - 1 ELSE @]
    BY <1>1, <1>4, <1>6
  <2>2. t[Bgd][g].dirs = IF s[Bgd][g].dirs > 0 THEN s[Bgd][g].dirs - 1 ELSE s[Bgd][g].dirs
    BY <1>3, <2>1 DEF Descriptor
  <2>3. (D \ {i}) \cap InosOf(g) = (D \cap InosOf(g)) \ {i} /\ i \in D \cap InosOf(g)
    BY <1>1, <1>6
  <2>4. IsFiniteSet(D \cap InosOf(g))
    BY Finite, FS_Subset
  <2>5. /\ Cardinality((D \cap InosOf(g)) \ {i}) = Cardinality(D \cap InosOf(g)) - 1
        /\ Cardinality(D \cap InosOf(g)) > 0 /\ Cardinality(D \cap InosOf(g)) \in Nat
    <3>1. /\ IsFiniteSet((D \cap InosOf(g)) \ {i})
          /\ Cardinality((D \cap InosOf(g)) \ {i}) = Cardinality(D \cap InosOf(g)) - 1
      BY <2>3, <2>4, FS_RemoveElement
    <3>2. Cardinality((D \cap InosOf(g)) \ {i}) \in Nat /\ Cardinality(D \cap InosOf(g)) \in Nat
      BY <2>4, <3>1, FS_CardinalityType
    <3> QED BY <3>1, <3>2
  <2> QED BY <1>3, <2>2, <2>3, <2>5
<1> QED BY <1>5, <1>6

-----------------------------------------------------------------------------
(* What stays tidy.                                                        *)

(* Of all an operation still holds, the next may hold more.                *)
HoldsOn(s, o, t, u, B) == \A j \in InUse(s) : StillHeld(s, o, j) \ B \subseteq StillHeld(t, u, j)

(* An operation that has only read, or is left before it wrote.            *)
LEMMA TidyMore ==
  ASSUME NEW s, NEW o, NEW u, Tidy(s, o), Making(u) = Making(o), HoldsOn(s, o, s, u, {})
  PROVE  Tidy(s, u)
  BY DEF Tidy, HoldsOn

(* The parts that inodes and directories make up.                          *)
NodesTidy(s) ==
  /\ \A i \in Reserved : Holds(s, i) = {}
  /\ \A p \in Dirs(s) : Holds(s, p) = {DirBlk(s, p)}
  /\ \A i \in Ino \ InUse(s) : Inode(s, i) = Blank

(* They stay as inodes of X change, of which none is reserved, free or a   *)
(* directory with other extents.                                           *)
Changes(s, t, X) ==
  /\ SameInodes(s, t, X) /\ X \cap Reserved = {}
  /\ \A i \in X : i \notin InUse(t) => Inode(t, i) = Blank
  /\ \A p \in X \cap Dirs(t) : Holds(t, p) = {DirBlk(t, p)}
  /\ Dirs(t) \subseteq Dirs(s) \cup X /\ InUse(s) \subseteq InUse(t) \cup X
  /\ Dirs(t) \subseteq Ino /\ Reserved \subseteq Ino

(* Then those parts stay as they are.                                      *)
LEMMA NodesStay ==
  ASSUME NEW s, NEW t, NEW X, NodesTidy(s), Changes(s, t, X)
  PROVE  NodesTidy(t)
<1>1. \A j \in Ino \ X : Inode(t, j) = Inode(s, j)
  BY DEF Changes, SameInodes
<1>2. \A j \in Ino \ X : Holds(t, j) = Holds(s, j) /\ DirBlk(t, j) = DirBlk(s, j)
  BY <1>1, SameDirBlk
<1>3. ASSUME NEW i \in Reserved PROVE Holds(t, i) = {}
  BY <1>2, <1>3 DEF Changes, NodesTidy
<1>4. ASSUME NEW p \in Dirs(t) PROVE Holds(t, p) = {DirBlk(t, p)}
  BY <1>2, <1>4 DEF Changes, NodesTidy
<1>5. ASSUME NEW i \in Ino \ InUse(t) PROVE Inode(t, i) = Blank
  BY <1>1, <1>5 DEF Changes, NodesTidy
<1> QED BY <1>3, <1>4, <1>5 DEF NodesTidy

(* The rest is about which numbers are in use, taken and named.            *)
NumbersTidy(s, o, use, named) ==
  /\ Reserved \subseteq use \ (named \cup {Root} \cup Making(o))
  /\ use \subseteq named \cup Reserved \cup {Root} \cup Making(o)
BlocksTidy(s, o) == Taken(s) \subseteq Meta \cup UNION {StillHeld(s, o, i) : i \in InUse(s)}

(* Together they say what is tidy, for a program is told every name.       *)
LEMMA TidyIs ==
  ASSUME NEW s, NEW o, Sound(s)
  PROVE  Tidy(s, o) <=> /\ NumbersTidy(s, o, InUse(s), Numbers(s)) /\ BlocksTidy(s, o)
                        /\ NodesTidy(s) /\ DirCounts(s, Dirs(s) \cup Making(o))
<1>1. NamedIn(s) = Numbers(s)
  BY NumbersAre
<1> QED BY <1>1 DEF Tidy, NumbersTidy, BlocksTidy, NodesTidy, DirCounts

(* Blocks that are taken and held stay so.                                 *)
LEMMA BlocksStay ==
  ASSUME NEW s, NEW o, NEW t, NEW u, NEW B, BlocksTidy(s, o), InUse(s) \subseteq InUse(t),
         HoldsOn(s, o, t, u, B),
         Taken(t) \subseteq (Taken(s) \ B) \cup UNION {StillHeld(t, u, i) : i \in InUse(t)}
  PROVE  BlocksTidy(t, u)
<1>1. SUFFICES ASSUME NEW b \in Taken(s) \ B, b \notin Meta
               PROVE  \E i \in InUse(t) : b \in StillHeld(t, u, i)
  BY DEF BlocksTidy
<1>2. PICK i \in InUse(s) : b \in StillHeld(s, o, i)
  BY <1>1 DEF BlocksTidy
<1> QED BY <1>1, <1>2 DEF HoldsOn

StaysTidy(s, o, t, u) == Tidy(s, o) => Tidy(t, u)
Both(s, t) == Sound(s) /\ Sound(t)

(* What is reserved is an inode, and directories are.                      *)
LEMMA InodesAre ==
  ASSUME NEW s, Sound(s)
  PROVE  Reserved \subseteq Ino /\ Dirs(s) \subseteq Ino /\ Dirs(s) \subseteq InUse(s) /\ InUse(s) \subseteq Ino
  BY ImageAssumption, SoundFacts DEF Ino

(* What is still held of an inode that did not change.                     *)
LEMMA HoldsSame ==
  ASSUME NEW s, NEW o, NEW t, NEW u, NEW B, HoldsOn(s, o, s, u, B), InUse(s) \subseteq Ino,
         \A j \in Ino : Inode(t, j).ext = Inode(s, j).ext
  PROVE  HoldsOn(s, o, t, u, B)
<1>1. \A j \in InUse(s) : StillHeld(t, u, j) = StillHeld(s, u, j)
  BY HeldStill
<1> QED BY <1>1 DEF HoldsOn

(* A block is freed.                                                       *)
LEMMA FreeTidies ==
  ASSUME NEW s, NEW o, NEW t, NEW u, NEW b \in Blk, Both(s, t), FreeLeft(s, t, b),
         Making(u) = Making(o), HoldsOn(s, o, s, u, {b})
  PROVE  StaysTidy(s, o, t, u)
<1> SUFFICES ASSUME Tidy(s, o) PROVE Tidy(t, u)
  BY DEF StaysTidy
<1>1. /\ InUse(t) = InUse(s) /\ Taken(t) = Taken(s) \ {b} /\ Numbers(t) = Numbers(s) /\ Dirs(t) = Dirs(s)
      /\ FreedBlk(s, t, b) /\ \A j \in Ino : Inode(t, j) = Inode(s, j)
  BY DEF FreeLeft, Tally, SameInodes
<1>2. /\ NumbersTidy(s, o, InUse(s), Numbers(s)) /\ BlocksTidy(s, o)
      /\ NodesTidy(s) /\ DirCounts(s, Dirs(s) \cup Making(o))
  BY TidyIs DEF Both
<1>3. HoldsOn(s, o, t, u, {b})
  BY <1>1, HoldsSame, InodesAre DEF Both
<1>4. BlocksTidy(t, u)
  BY <1>1, <1>2, <1>3, BlocksStay
<1>5. NodesTidy(t)
  <2>1. Changes(s, t, {})
    BY <1>1, InodesAre DEF Changes, SameInodes, Both
  <2> QED BY <1>2, <2>1, NodesStay
<1>6. DirCounts(t, Dirs(t) \cup Making(u))
  <2>1. DirsKept(s, t)
    BY <1>1 DEF DirsKept
  <2> QED BY <1>1, <1>2, <2>1, DirsSame, SoundFacts DEF Both
<1>7. NumbersTidy(t, u, InUse(t), Numbers(t))
  BY <1>1, <1>2 DEF NumbersTidy
<1> QED BY <1>4, <1>5, <1>6, <1>7, TidyIs DEF Both

(* Names change, and nothing else does.                                    *)
LEMMA NamesTidy ==
  ASSUME NEW s, NEW t, Both(s, t), NamesLeft(s, t)
  PROVE  StaysTidy(s, Idle, t, Idle)
<1> SUFFICES ASSUME Tidy(s, Idle) PROVE Tidy(t, Idle)
  BY DEF StaysTidy
<1>1. /\ InUse(t) = InUse(s) /\ Taken(t) = Taken(s) /\ Numbers(t) = Numbers(s) /\ Dirs(t) = Dirs(s)
      /\ SameMaps(s, t) /\ \A j \in Ino : Inode(t, j).ext = Inode(s, j).ext
      /\ SameInodes(s, t, Dirs(s))
  BY DEF NamesLeft, Tally
<1>2. /\ NumbersTidy(s, Idle, InUse(s), Numbers(s)) /\ BlocksTidy(s, Idle)
      /\ NodesTidy(s) /\ DirCounts(s, Dirs(s) \cup Making(Idle))
  BY TidyIs DEF Both
<1>3. HoldsOn(s, Idle, t, Idle, {})
  <2>1. HoldsOn(s, Idle, s, Idle, {})
    BY DEF HoldsOn
  <2> QED BY <1>1, <2>1, HoldsSame, InodesAre DEF Both
<1>4. BlocksTidy(t, Idle)
  BY <1>1, <1>2, <1>3, BlocksStay
<1>5. NodesTidy(t)
  <2>1. \A j \in Ino : Holds(t, j) = Holds(s, j) /\ DirBlk(t, j) = DirBlk(s, j)
    BY <1>1, SameDirBlk
  <2>2. ASSUME NEW i \in Ino \ InUse(t) PROVE Inode(t, i) = Blank
    BY <1>1, <1>2, InodesAre, <2>2 DEF Both, SameInodes, NodesTidy
  <2> QED BY <1>1, <1>2, <2>1, <2>2, InodesAre DEF NodesTidy, Both
<1>6. DirCounts(t, Dirs(t) \cup Making(Idle))
  <2>1. DirsKept(s, t)
    BY <1>1 DEF DirsKept
  <2> QED BY <1>1, <1>2, <2>1, DirsSame, SoundFacts DEF Both
<1>7. NumbersTidy(t, Idle, InUse(t), Numbers(t))
  BY <1>1, <1>2 DEF NumbersTidy
<1> QED BY <1>4, <1>5, <1>6, <1>7, TidyIs DEF Both

(* A file changes, and holds the blocks it gets.                           *)
LEMMA FileTidies ==
  ASSUME NEW s, NEW o, NEW t, NEW i \in Numbers(s), NEW B, Both(s, t), FileLeft(s, t, i, B),
         DirsKept(s, t), Making(o) = {}, HoldsOn(s, o, t, Idle, {}), B \subseteq Holds(t, i)
  PROVE  StaysTidy(s, o, t, Idle)
<1> SUFFICES ASSUME Tidy(s, o) PROVE Tidy(t, Idle)
  BY DEF StaysTidy
<1>1. /\ InUse(t) = InUse(s) /\ Taken(t) = Taken(s) \cup B /\ Numbers(t) = Numbers(s) /\ Dirs(t) = Dirs(s)
      /\ i \in Files(s) /\ SameInodes(s, t, {i})
  BY DEF FileLeft, Tally
<1>2. /\ NumbersTidy(s, o, InUse(s), Numbers(s)) /\ BlocksTidy(s, o)
      /\ NodesTidy(s) /\ DirCounts(s, Dirs(s) \cup Making(o))
  BY TidyIs DEF Both
<1>3. i \in InUse(s) /\ i \notin Dirs(s) /\ i \notin Reserved
  BY <1>1, <1>2, SoundFacts DEF Both, NumbersTidy
<1>4. BlocksTidy(t, Idle)
  <2>1. StillHeld(t, Idle, i) = Holds(t, i)
    BY HeldStill, NothingGoing
  <2>2. B \subseteq UNION {StillHeld(t, Idle, j) : j \in InUse(t)}
    BY <1>1, <1>3, <2>1
  <2> QED BY <1>1, <1>2, <2>2, BlocksStay
<1>5. NodesTidy(t)
  <2>1. Changes(s, t, {i})
    BY <1>1, <1>3, InodesAre DEF Changes, Both
  <2> QED BY <1>2, <2>1, NodesStay
<1>6. DirCounts(t, Dirs(t) \cup Making(Idle))
  BY <1>1, <1>2, DirsSame, SoundFacts, NothingGoing DEF Both
<1>7. NumbersTidy(t, Idle, InUse(t), Numbers(t))
  BY <1>1, <1>2, NothingGoing DEF NumbersTidy
<1> QED BY <1>4, <1>5, <1>6, <1>7, TidyIs DEF Both

(* A file is created.                                                      *)
LEMMA CreateTidies ==
  ASSUME NEW s, NEW t, NEW i, Both(s, t), CreateLeft(s, t, i)
  PROVE  StaysTidy(s, Idle, t, Idle)
<1> SUFFICES ASSUME Tidy(s, Idle) PROVE Tidy(t, Idle)
  BY DEF StaysTidy
<1>1. /\ InUse(t) = InUse(s) \cup {i} /\ Taken(t) = Taken(s) /\ Numbers(t) = Numbers(s) \cup {i}
      /\ Dirs(t) = Dirs(s) /\ i \in Ino \ InUse(s) /\ SameInodes(s, t, {i}) /\ TookIno(s, t, i, 0)
  BY DEF CreateLeft, Tally
<1>2. /\ NumbersTidy(s, Idle, InUse(s), Numbers(s)) /\ BlocksTidy(s, Idle)
      /\ NodesTidy(s) /\ DirCounts(s, Dirs(s) \cup Making(Idle))
  BY TidyIs DEF Both
<1>3. i \notin Dirs(s) /\ i \notin Reserved
  BY <1>1, <1>2, InodesAre DEF Both, NumbersTidy
<1>4. BlocksTidy(t, Idle)
  <2>1. \A j \in InUse(s) : StillHeld(t, Idle, j) = StillHeld(s, Idle, j)
    BY <1>1, HeldStill, InodesAre DEF SameInodes, Both
  <2>2. HoldsOn(s, Idle, t, Idle, {})
    BY <2>1 DEF HoldsOn
  <2> QED BY <1>1, <1>2, <2>2, BlocksStay
<1>5. NodesTidy(t)
  <2>1. Changes(s, t, {i})
    BY <1>1, <1>3, InodesAre DEF Changes, Both
  <2> QED BY <1>2, <2>1, NodesStay
<1>6. DirCounts(t, Dirs(t) \cup Making(Idle))
  <2>1. DirsKept(s, t)
    BY <1>1 DEF DirsKept
  <2> QED BY <1>1, <1>2, <2>1, DirsSame, SoundFacts DEF Both
<1>7. NumbersTidy(t, Idle, InUse(t), Numbers(t))
  BY <1>1, <1>2, <1>3 DEF NumbersTidy
<1> QED BY <1>4, <1>5, <1>6, <1>7, TidyIs DEF Both

(* A directory is begun: its inode is in use and not yet named.            *)
LEMMA MkdirTidies ==
  ASSUME NEW s, NEW t, NEW i, NEW u, Both(s, t), MkdirLeft(s, t, i),
         Making(u) = {i}, Emptied(u) = {}
  PROVE  StaysTidy(s, Idle, t, u)
<1> SUFFICES ASSUME Tidy(s, Idle) PROVE Tidy(t, u)
  BY DEF StaysTidy
<1>1. /\ InUse(t) = InUse(s) \cup {i} /\ Taken(t) = Taken(s) /\ Numbers(t) = Numbers(s)
      /\ Dirs(t) = Dirs(s) /\ i \in Ino \ InUse(s) /\ SameInodes(s, t, {i}) /\ TookIno(s, t, i, 1)
  BY DEF MkdirLeft, Tally
<1>2. /\ NumbersTidy(s, Idle, InUse(s), Numbers(s)) /\ BlocksTidy(s, Idle)
      /\ NodesTidy(s) /\ DirCounts(s, Dirs(s) \cup Making(Idle))
  BY TidyIs DEF Both
<1>3. i \notin Dirs(s) /\ i \notin Reserved /\ Making(Idle) = {}
  BY <1>1, <1>2, InodesAre, NothingGoing DEF Both, NumbersTidy
<1>4. BlocksTidy(t, u)
  <2>1. \A j \in InUse(s) : StillHeld(t, u, j) = StillHeld(s, Idle, j)
    BY <1>1, HeldStill, InodesAre, NothingGoing, SameDirBlk DEF SameInodes, Both
  <2>2. HoldsOn(s, Idle, t, u, {})
    BY <2>1 DEF HoldsOn
  <2> QED BY <1>1, <1>2, <2>2, BlocksStay
<1>5. NodesTidy(t)
  <2>1. Changes(s, t, {i})
    BY <1>1, <1>3, InodesAre DEF Changes, Both
  <2> QED BY <1>2, <2>1, NodesStay
<1>6. DirCounts(t, Dirs(t) \cup Making(u))
  <2>1. DirCounts(s, Dirs(s)) /\ Maps(s) /\ Dirs(s) \in SUBSET Ino
    BY <1>2, <1>3, SoundFacts, InodesAre DEF Both
  <2> QED BY <1>1, <1>3, <2>1, DirsMore
<1>7. NumbersTidy(t, u, InUse(t), Numbers(t))
  <2>1. i \notin Numbers(s)
    BY <1>1, Nameless, NumbersAre DEF Both
  <2> QED BY <1>1, <1>2, <1>3, <2>1 DEF NumbersTidy
<1> QED BY <1>4, <1>5, <1>6, <1>7, TidyIs DEF Both

(* A directory is named, and has its block.                                *)
LEMMA WireTidies ==
  ASSUME NEW s, NEW o, NEW t, NEW p, NEW i, NEW b, Both(s, t), WireLeft(s, t, p, i, b),
         Making(o) = {i}, Emptied(o) = {}
  PROVE  StaysTidy(s, o, t, Idle)
<1> SUFFICES ASSUME Tidy(s, o) PROVE Tidy(t, Idle)
  BY DEF StaysTidy
<1>1. /\ InUse(t) = InUse(s) /\ Taken(t) = Taken(s) \cup {b} /\ Numbers(t) = Numbers(s) \cup {i}
      /\ Dirs(t) = Dirs(s) \cup {i} /\ i \in InUse(s) /\ i \notin Dirs(s) /\ p \in Dirs(s)
      /\ b \in Blk \ Taken(s) /\ SameInodes(s, t, {i, p}) /\ TookBlk(s, t, b)
      /\ Holds(s, i) = {} /\ Holds(t, i) = {b} /\ Inode(t, p).ext = Inode(s, p).ext
  BY DEF WireLeft, Tally
<1>2. /\ NumbersTidy(s, o, InUse(s), Numbers(s)) /\ BlocksTidy(s, o)
      /\ NodesTidy(s) /\ DirCounts(s, Dirs(s) \cup Making(o))
  BY TidyIs DEF Both
<1>3. i \notin Reserved /\ i # p /\ Making(Idle) = {}
  BY <1>1, <1>2, NothingGoing DEF NumbersTidy
<1>4. \A j \in Ino \ {i} : Inode(t, j).ext = Inode(s, j).ext
  BY <1>1 DEF SameInodes
<1>5. BlocksTidy(t, Idle)
  <2>1. ASSUME NEW j \in InUse(s) PROVE StillHeld(s, o, j) \subseteq StillHeld(t, Idle, j)
    <3>1. CASE j = i
      BY <1>1, <3>1, HeldStill
    <3>2. CASE j # i
      <4>1. Inode(t, j).ext = Inode(s, j).ext
        BY <1>4, <2>1, <3>2, InodesAre DEF Both
      <4>2. StillHeld(t, Idle, j) = Holds(t, j) /\ Holds(t, j) = Holds(s, j)
        BY <4>1, HeldStill, NothingGoing, SameDirBlk
      <4> QED BY <4>2, HeldStill
    <3> QED BY <3>1, <3>2
  <2>2. HoldsOn(s, o, t, Idle, {})
    BY <2>1 DEF HoldsOn
  <2>3. StillHeld(t, Idle, i) = {b}
    BY <1>1, HeldStill, NothingGoing
  <2>4. b \in UNION {StillHeld(t, Idle, j) : j \in InUse(t)}
    BY <1>1, <2>3
  <2> QED BY <1>1, <1>2, <2>2, <2>4, BlocksStay
<1>6. NodesTidy(t)
  <2>1. \A j \in Ino \ {i} : Holds(t, j) = Holds(s, j) /\ DirBlk(t, j) = DirBlk(s, j)
    BY <1>4, SameDirBlk
  <2>2. Holds(t, i) = {DirBlk(t, i)}
    <3>1. DirBlk(t, i) \in Holds(t, i)
      BY <1>1, SoundFacts, DirFacts DEF Both
    <3> QED BY <1>1, <3>1
  <2>3. ASSUME NEW j \in Ino \ InUse(t) PROVE Inode(t, j) = Blank
    BY <1>1, <1>2, InodesAre, <2>3 DEF Both, SameInodes, NodesTidy
  <2>4. \A q \in Dirs(t) : Holds(t, q) = {DirBlk(t, q)}
    BY <1>1, <1>2, <2>1, <2>2, InodesAre DEF NodesTidy, Both
  <2>5. \A j \in Reserved : Holds(t, j) = {}
    BY <1>2, <1>3, <2>1, InodesAre DEF NodesTidy, Both
  <2> QED BY <2>3, <2>4, <2>5 DEF NodesTidy
<1>7. DirCounts(t, Dirs(t) \cup Making(Idle))
  <2>1. DirsKept(s, t)
    BY <1>1 DEF DirsKept
  <2> QED BY <1>1, <1>2, <1>3, <2>1, DirsSame, SoundFacts DEF Both
<1>8. NumbersTidy(t, Idle, InUse(t), Numbers(t))
  <2>1. i # Root
    <3>1. Root \in Dirs(s)
      BY SoundFacts DEF Both, TreeOn, TreeOf, Shape
    <3> QED BY <1>1, <3>1
  <2> QED BY <1>1, <1>2, <1>3, <2>1 DEF NumbersTidy
<1> QED BY <1>5, <1>6, <1>7, <1>8, TidyIs DEF Both

(* A name and what it leads to are gone.                                   *)
LEMMA DeleteTidies ==
  ASSUME NEW s, NEW o, NEW t, NEW p, NEW i \in Numbers(s), NEW d, Both(s, t), DeleteLeft(s, t, p, i, d),
         (d = 1 /\ i \in Dirs(s)) \/ (d = 0 /\ i \notin Dirs(s)),
         Making(o) = {}, Emptied(o) = {i}, StillHeld(s, o, i) = {}, Inode(t, i) = Blank
  PROVE  StaysTidy(s, o, t, Idle)
<1> SUFFICES ASSUME Tidy(s, o) PROVE Tidy(t, Idle)
  BY DEF StaysTidy
<1>1. /\ InUse(t) = InUse(s) \ {i} /\ Taken(t) = Taken(s) /\ Numbers(t) = Numbers(s) \ {i}
      /\ Dirs(t) = Dirs(s) \ {i} /\ i \in InUse(s) /\ p \in Dirs(s) /\ i # p
      /\ SameInodes(s, t, {i, p}) /\ FreedIno(s, t, i, d) /\ Inode(t, p).ext = Inode(s, p).ext
  BY DEF DeleteLeft, Tally
<1>2. /\ NumbersTidy(s, o, InUse(s), Numbers(s)) /\ BlocksTidy(s, o)
      /\ NodesTidy(s) /\ DirCounts(s, Dirs(s) \cup Making(o))
  BY TidyIs DEF Both
<1>3. i \notin Reserved /\ Making(Idle) = {} /\ i \in Ino
  BY <1>1, <1>2, NothingGoing, InodesAre DEF NumbersTidy, Both
<1>4. \A j \in Ino \ {i} : Inode(t, j).ext = Inode(s, j).ext
  BY <1>1 DEF SameInodes
<1>5. BlocksTidy(t, Idle)
  <2>1. SUFFICES ASSUME NEW b \in Taken(s), b \notin Meta
                 PROVE  \E j \in InUse(t) : b \in StillHeld(t, Idle, j)
    BY <1>1 DEF BlocksTidy
  <2>2. PICK j \in InUse(s) : b \in StillHeld(s, o, j)
    BY <1>2, <2>1 DEF BlocksTidy
  <2>3. j # i /\ j \in InUse(t) /\ j \in Ino
    BY <1>1, <2>2, InodesAre DEF Both
  <2>4. StillHeld(t, Idle, j) = Holds(t, j) /\ Holds(t, j) = Holds(s, j)
    BY <1>4, <2>3, HeldStill, NothingGoing, SameDirBlk
  <2>5. b \in Holds(s, j)
    BY <2>2, HeldStill
  <2> QED BY <2>3, <2>4, <2>5
<1>6. NodesTidy(t)
  <2>1. \A j \in Ino \ {i} : Holds(t, j) = Holds(s, j) /\ DirBlk(t, j) = DirBlk(s, j)
    BY <1>4, SameDirBlk
  <2>2. ASSUME NEW j \in Ino \ InUse(t) PROVE Inode(t, j) = Blank
    <3>1. CASE j = i
      BY <3>1
    <3>2. CASE j # i
      <4>1. j \notin InUse(s) /\ j # p
        BY <1>1, <3>2, <2>2, InodesAre DEF Both
      <4> QED BY <1>1, <1>2, <3>2, <4>1, <2>2 DEF SameInodes, NodesTidy
    <3> QED BY <3>1, <3>2
  <2>3. \A q \in Dirs(t) : Holds(t, q) = {DirBlk(t, q)}
    BY <1>1, <1>2, <2>1, InodesAre DEF NodesTidy, Both
  <2>4. \A j \in Reserved : Holds(t, j) = {}
    BY <1>2, <1>3, <2>1, InodesAre DEF NodesTidy, Both
  <2> QED BY <2>2, <2>3, <2>4 DEF NodesTidy
<1>7. DirCounts(t, Dirs(t) \cup Making(Idle))
  <2>1. DirCounts(s, Dirs(s)) /\ Maps(s) /\ Dirs(s) \in SUBSET Ino
    BY <1>2, SoundFacts, InodesAre DEF Both
  <2>2. CASE d = 1 /\ i \in Dirs(s)
    BY <1>1, <1>3, <2>1, <2>2, DirsFewer
  <2>3. CASE d = 0 /\ i \notin Dirs(s)
    <3>1. DirsKept(s, t)
      BY <1>1, <1>3, <2>3 DEF DirsKept
    <3> QED BY <1>1, <1>3, <2>1, <2>3, <3>1, DirsSame
  <2> QED BY <2>2, <2>3
<1>8. NumbersTidy(t, Idle, InUse(t), Numbers(t))
  BY <1>1, <1>2, <1>3 DEF NumbersTidy
<1> QED BY <1>5, <1>6, <1>7, <1>8, TidyIs DEF Both

-----------------------------------------------------------------------------
(* Files stay the bytes that were written to them.                         *)

(* How many blocks some bytes take.                                        *)
LEMMA BlocksForIs ==
  /\ \A n \in Nat : BlocksFor(n) \in Nat
  /\ \A m, n \in Nat : m <= n => BlocksFor(m) <= BlocksFor(n)
  /\ \A k \in Nat : BlocksFor(k * Unit) = k
  /\ \A k \in Nat, n \in 1 .. Unit : BlocksFor(k * Unit + n) = k + 1
  /\ \A l, n \in Nat : l < BlocksFor(n) <=> l * Unit < n
<1> DEFINE U == Unit
<1>1. U \in Nat \ {0}
  BY Geometry
<1>2. \A n \in Nat : n + U - 1 \in Nat /\ BlocksFor(n) = (n + U - 1) \div U
  BY <1>1 DEF BlocksFor
<1> HIDE DEF U
<1>3. ASSUME NEW n \in Nat
      PROVE  /\ BlocksFor(n) \in Nat
             /\ BlocksFor(n) * U <= n + U - 1 /\ n + U - 1 < BlocksFor(n) * U + U
  BY <1>1, <1>2, Division
<1>4. ASSUME NEW n \in Nat, NEW q \in Nat, q * U <= n + U - 1, n + U - 1 < q * U + U
      PROVE  BlocksFor(n) = q
  BY <1>1, <1>2, <1>4, DivisionIs
<1>5. ASSUME NEW m \in Nat, NEW n \in Nat, m <= n PROVE BlocksFor(m) <= BlocksFor(n)
  <2> DEFINE a == BlocksFor(m)
             c == BlocksFor(n)
  <2>1. /\ a \in Nat /\ c \in Nat /\ a * U \in Nat /\ c * U \in Nat
        /\ a * U <= m + U - 1 /\ n + U - 1 < c * U + U
    BY <1>1, <1>3
  <2> HIDE DEF a, c
  <2>2. c < a => c * U + U <= a * U
    BY <1>1, <2>1, GroupsApart
  <2>3. a <= c
    BY <1>1, <1>5, <2>1, <2>2
  <2> QED BY <2>3 DEF a, c
<1>6. ASSUME NEW k \in Nat PROVE BlocksFor(k * U) = k
  <2> DEFINE n == k * U
  <2>1. n \in Nat
    BY <1>1
  <2>2. k * U = n
    OBVIOUS
  <2> HIDE DEF n
  <2>3. BlocksFor(n) = k
    BY <1>1, <1>4, <2>1, <2>2
  <2> QED BY <2>3 DEF n
<1>7. ASSUME NEW k \in Nat, NEW n \in 1 .. U PROVE BlocksFor(k * U + n) = k + 1
  <2> DEFINE a == k * U
             r == (k + 1) * U
  <2>1. a \in Nat /\ r = a + U
    BY <1>1
  <2> HIDE DEF a, r
  <2>2. a + n \in Nat /\ r <= a + n + U - 1 /\ a + n + U - 1 < r + U
    BY <1>1, <2>1
  <2>3. (k + 1) * U <= (a + n) + U - 1 /\ (a + n) + U - 1 < (k + 1) * U + U
    BY <2>2 DEF r
  <2>4. BlocksFor(a + n) = k + 1
    BY <1>4, <2>2, <2>3
  <2> QED BY <2>4 DEF a
<1>8. ASSUME NEW l \in Nat, NEW n \in Nat PROVE l < BlocksFor(n) <=> l * U < n
  <2> DEFINE a == BlocksFor(n)
             x == l * U
             y == a * U
  <2>1. a \in Nat /\ x \in Nat /\ y \in Nat /\ y <= n + U - 1 /\ n + U - 1 < y + U
    BY <1>1, <1>3
  <2>2. (l < a => x + U <= y) /\ (a < l => y + U <= x) /\ (a = l => x = y)
    BY <1>1, <2>1, GroupsApart
  <2> HIDE DEF a, x, y
  <2>3. l < a <=> x < n
    BY <1>1, <2>1, <2>2
  <2> QED BY <2>3 DEF a, x
<1> QED BY <1>3, <1>5, <1>6, <1>7, <1>8 DEF U

(* A file that is left alone, and whose blocks are.                        *)
LEMMA CompleteStays ==
  ASSUME NEW s, NEW t, NEW i, Complete(s, i), Inode(t, i) = Inode(s, i),
         NEW B, SameBut(s, t, B), Holds(s, i) \cap B = {}
  PROVE  Complete(t, i)
<1>1. \A m \in Counted(Inode(s, i).ext) : m.pb \in Holds(s, i)
  BY DEF Holds, Claims
<1> QED BY <1>1 DEF Complete, SameBut

(* The blocks of entries are not those of a file.                          *)
LEMMA FilesApart ==
  ASSUME NEW s, Sound(s), NEW i \in Files(s)
  PROVE  Holds(s, i) \cap DirBlks(s) = {}
<1>1. SUFFICES ASSUME NEW p \in Dirs(s), DirBlk(s, p) \in Holds(s, i) PROVE FALSE
  BY DEF DirBlks
<1>2. p # i /\ p \in InUse(s) /\ i \in InUse(s) /\ DirBlk(s, p) \in Holds(s, p) /\ Owning(s)
  BY SoundFacts, DirFacts
<1> QED BY <1>1, <1>2 DEF Owning

StaysFilled(s, o, t, u) == Filled(s, o) => Filled(t, u)

(* Files that stay, untouched, stay what they are.                         *)
LEMMA FilledStays ==
  ASSUME NEW s, NEW o, NEW t, NEW u, NEW B, SameBut(s, t, B),
         \A i \in Files(t) : i \in Files(s) /\ Inode(t, i) = Inode(s, i) /\ Holds(s, i) \cap B = {},
         u.do = "truncate" => o.do = "truncate" /\ u.size = o.size /\ u.ino = o.ino /\ u.ino \in Files(t)
  PROVE  StaysFilled(s, o, t, u)
<1> SUFFICES ASSUME Filled(s, o) PROVE Filled(t, u)
  BY DEF StaysFilled
<1>1. ASSUME NEW i \in Files(t) PROVE Complete(t, i)
  <2>1. Complete(s, i) /\ Inode(t, i) = Inode(s, i) /\ Holds(s, i) \cap B = {}
    BY DEF Filled
  <2> QED BY <2>1, CompleteStays
<1>2. u.do = "truncate" => u.size <= Inode(t, u.ino).size
  BY DEF Filled
<1> QED BY <1>1, <1>2 DEF Filled

(* One file changes, to what it should be.                                 *)
LEMMA OneFills ==
  ASSUME NEW s, NEW o, NEW t, NEW i, NEW B, SameBut(s, t, B), SameInodes(s, t, {i}),
         Files(t) \subseteq Files(s) \cup {i}, Files(t) \subseteq Ino,
         \A j \in Files(t) \ {i} : Holds(s, j) \cap B = {}, Filled(s, o), Complete(t, i)
  PROVE  Filled(t, Idle)
<1>1. ASSUME NEW j \in Files(t) PROVE Complete(t, j)
  <2>1. CASE j # i
    <3>1. Complete(s, j) /\ Inode(t, j) = Inode(s, j) /\ Holds(s, j) \cap B = {}
      BY <2>1 DEF Filled, SameInodes
    <3> QED BY <3>1, CompleteStays
  <2> QED BY <2>1
<1> QED BY <1>1 DEF Filled, Idle

(* A new file is empty, and complete.                                      *)
LEMMA CreateFills ==
  ASSUME NEW s, NEW t, NEW i, Both(s, t), CreateLeft(s, t, i)
  PROVE  StaysFilled(s, Idle, t, Idle)
<1> SUFFICES ASSUME Filled(s, Idle) PROVE Filled(t, Idle)
  BY DEF StaysFilled
<1>1. /\ InUse(t) = InUse(s) \cup {i} /\ i \in Ino /\ SameInodes(s, t, {i})
      /\ SameBut(s, t, DirBlks(s)) /\ Inode(t, i) = NewFile
  BY DEF CreateLeft, Tally
<1>2. Files(t) \subseteq Files(s) \cup {i} /\ Files(t) \subseteq Ino
  BY <1>1, SoundFacts DEF Files, SameInodes, Both
<1>3. Complete(t, i)
  <2>1. NewFile.size = 0 /\ NewFile.ext = << >> /\ NewFile.nblk = 0
    BY DEF NewFile, Blank
  <2>2. BlocksFor(0 * Unit) = 0 /\ 0 * Unit = 0
    BY BlocksForIs, Geometry
  <2>3. Counted(<< >>) = {} /\ Cardinality({}) = 0 /\ 0 < LenBit
    BY NewNodes, FS_EmptySet, Geometry
  <2>4. 0 .. 0 - 1 = {}
    OBVIOUS
  <2> QED BY <1>1, <2>1, <2>2, <2>3, <2>4 DEF Complete
<1>4. \A j \in Files(t) \ {i} : Holds(s, j) \cap DirBlks(s) = {}
  BY <1>2, FilesApart DEF Both
<1> QED BY <1>1, <1>2, <1>3, <1>4, OneFills

(* The places a file counts are finitely many, and no more than there are  *)
(* blocks.                                                                 *)
LEMMA CountedFinite ==
  ASSUME NEW x, Once(x), Claims(x) \subseteq Blk
  PROVE  IsFiniteSet(Counted(x)) /\ Cardinality(Counted(x)) <= Cardinality(Blk)
<1> DEFINE f == [m \in Counted(x) |-> m.pb]
<1>1. f \in [Counted(x) -> Blk]
  BY DEF Claims
<1>2. \A m, k \in Counted(x) : f[m] = f[k] => m = k
  BY DEF Once
<1>3. f \in Injection(Counted(x), Blk)
  BY <1>1, <1>2 DEF Injection, IsInjective
<1> QED BY <1>3, Finite, FS_Injection

(* What changes of a file leaves the others.                               *)
LEMMA FileAlone ==
  ASSUME NEW s, NEW t, NEW i, NEW B, Both(s, t), FileLeft(s, t, i, B)
  PROVE  /\ SameBut(s, t, B) /\ SameInodes(s, t, {i}) /\ i \in Files(s)
         /\ Files(t) \subseteq Files(s) \cup {i} /\ Files(t) \subseteq Ino
<1>1. InUse(t) = InUse(s) /\ SameInodes(s, t, {i}) /\ SameBut(s, t, B) /\ i \in Files(s)
  BY DEF FileLeft, Tally
<1> QED BY <1>1, SoundFacts DEF Files, SameInodes, Both

(* What a file holds in its blocks is its own, and they are blocks.        *)
LEMMA CompleteHolds ==
  ASSUME NEW s, Sound(s), NEW i \in InUse(s), Complete(s, i)
  PROVE  LET x == Inode(s, i).ext IN
         /\ Once(x) /\ IsFiniteSet(Counted(x)) /\ Cardinality(Counted(x)) \in Nat
         /\ Holds(s, i) = Claims(x) /\ Claims(x) \subseteq Blk
         /\ Cardinality(Counted(x)) <= Cardinality(Blk)
<1>1. Once(Inode(s, i).ext) /\ Claims(Inode(s, i).ext) \subseteq Blk
  BY SoundFacts DEF Owning, Complete, Claims
<1> QED BY <1>1, CountedFinite, FS_CardinalityType DEF Holds

(* A shorter file ends where it should.                                    *)
Shortened(s, o, t, i) ==
  LET x == Inode(s, i).ext IN
  /\ o.do = "truncate" /\ o.ino = i /\ o.size \in Nat /\ o.freed = Cardinality(Doomed(x, o.size))
  /\ Inode(s, i).size \in Nat
  /\ Became(t, i, Kept(x, o.size), o.size, Inode(s, i).nblk - o.freed)
  /\ \A m : m \in Counted(Kept(x, o.size)) <=> m \in Counted(x) /\ m.lb < BlocksFor(o.size)

(* Then it is complete, and other files are what they were.                *)
LEMMA TruncateFills ==
  ASSUME NEW s, NEW o, NEW t, NEW i, Both(s, t), FileLeft(s, t, i, {}), Shortened(s, o, t, i)
  PROVE  StaysFilled(s, o, t, Idle)
<1> SUFFICES ASSUME Filled(s, o) PROVE Filled(t, Idle)
  BY DEF StaysFilled
<1> DEFINE x == Inode(s, i).ext
           y == Inode(t, i).ext
           a == BlocksFor(o.size)
           b == BlocksFor(Inode(s, i).size)
<1>1. /\ SameBut(s, t, {}) /\ SameInodes(s, t, {i}) /\ i \in Files(s) /\ i \in InUse(s)
      /\ Files(t) \subseteq Files(s) \cup {i} /\ Files(t) \subseteq Ino
  BY FileAlone, SoundFacts DEF Both
<1>2. Complete(s, i) /\ o.size <= Inode(s, i).size
  BY <1>1 DEF Filled, Shortened
<1>3. /\ a \in Nat /\ b \in Nat /\ a <= b /\ b < LenBit
      /\ {m.lb : m \in Counted(x)} = 0 .. b - 1
      /\ Inode(s, i).nblk = Cardinality(Counted(x))
      /\ \A m \in Counted(x) : m.pb \in Blk /\ s[Data(m.pb)] = FileData(i)
  BY <1>2, BlocksForIs DEF Complete, Shortened
<1>4. /\ Inode(t, i).size = o.size /\ Inode(t, i).nblk = Inode(s, i).nblk - Cardinality(Doomed(x, o.size))
      /\ \A m : m \in Counted(y) <=> m \in Counted(x) /\ m.lb < a
  BY DEF Shortened, Became
<1>5. Doomed(x, o.size) = {m \in Counted(x) : m.lb >= a}
  BY DEF Doomed
<1> HIDE DEF x, y, a, b
<1>6. {m.lb : m \in Counted(y)} = 0 .. a - 1
  <2>1. \A l : l \in {m.lb : m \in Counted(y)} <=> l \in 0 .. b - 1 /\ l < a
    BY <1>3, <1>4
  <2>2. \A l : l \in 0 .. a - 1 <=> l \in 0 .. b - 1 /\ l < a
    BY <1>3
  <2> QED BY <2>1, <2>2
<1>7. Inode(t, i).nblk = Cardinality(Counted(y))
  <2>1. \A m \in Counted(x) : m.lb \in 0 .. b - 1
    BY <1>3
  <2>2. Counted(y) = Counted(x) \ Doomed(x, o.size) /\ Counted(x) \cap Doomed(x, o.size) = Doomed(x, o.size)
    BY <1>3, <1>4, <1>5, <2>1
  <2>3. IsFiniteSet(Counted(x))
    BY <1>1, <1>2, CompleteHolds DEF x, Both
  <2>4. Cardinality(Counted(y)) = Cardinality(Counted(x)) - Cardinality(Doomed(x, o.size))
    BY <2>2, <2>3, FS_Difference
  <2> QED BY <1>3, <1>4, <2>4
<1>8. \A m \in Counted(y) : m.pb \in Blk /\ t[Data(m.pb)] = FileData(i)
  BY <1>1, <1>3, <1>4 DEF SameBut
<1>9. Complete(t, i)
  BY <1>3, <1>4, <1>6, <1>7, <1>8, Geometry DEF Complete, y, a
<1> QED BY <1>1, <1>9, OneFills

(* A file written in place stays what it is.                               *)
LEMMA WriteFills ==
  ASSUME NEW s, NEW t, NEW i, NEW m, Both(s, t), FileLeft(s, t, i, {m.pb}),
         Inode(t, i) = Inode(s, i), m \in Counted(Inode(s, i).ext)
  PROVE  StaysFilled(s, Idle, t, Idle)
<1> SUFFICES ASSUME Filled(s, Idle) PROVE Filled(t, Idle)
  BY DEF StaysFilled
<1>1. /\ SameBut(s, t, {m.pb}) /\ SameInodes(s, t, {i}) /\ i \in Files(s) /\ i \in InUse(s)
      /\ Files(t) \subseteq Files(s) \cup {i} /\ Files(t) \subseteq Ino
  BY FileAlone, SoundFacts DEF Both
<1>2. Complete(s, i) /\ t[Data(m.pb)] = FileData(i)
  BY <1>1 DEF Filled, FileLeft
<1>3. Complete(t, i)
  BY <1>1, <1>2 DEF Complete, SameBut
<1>4. m.pb \in Holds(s, i)
  BY DEF Holds, Claims
<1>5. \A j \in Files(t) \ {i} : Holds(s, j) \cap {m.pb} = {}
  BY <1>1, <1>4, SoundFacts DEF Both, Owning
<1> QED BY <1>1, <1>3, <1>5, OneFills

(* Where the last extent of a file ends.                                   *)
LEMMA LastEnds ==
  ASSUME NEW c \in Node
  PROVE  After(LastExt(c)) \in Nat
<1>1. c.ext \in Extents
  BY DEF Node
<1>2. CASE c.ext = << >>
  BY <1>2 DEF LastExt, After, NoExt
<1>3. CASE c.ext # << >>
  <2>1. Len(c.ext) \in DOMAIN c.ext
    BY <1>1, <1>3 DEF Extents
  <2>2. LastExt(c) \in Extent
    BY <1>1, <1>3, <2>1, CountedIs DEF LastExt
  <2> QED BY <2>2 DEF After, Extent
<1> QED BY <1>2, <1>3

(* A longer file ends where it should, as long as no program lets a file   *)
(* grow until the length of one extent is taken for that of a hole.        *)
Lengthened(s, t, i, b, n) ==
  LET c == Inode(s, i)
      l == After(LastExt(c)) IN
  /\ n \in 1 .. Unit /\ EndsInLastBlock(c) /\ c.size + n <= MaxSize
  /\ b \in Blk \ Taken(s) /\ AllTaken(s, {})
  /\ Became(t, i, Grown(c.ext, c, b), c.size + n, c.nblk + 1)
  /\ \A m : m \in Counted(Grown(c.ext, c, b)) <=> m \in Counted(c.ext) \/ m = [lb |-> l, pb |-> b]
Fitting == BlocksFor(MaxSize) < LenBit

(* Then it is complete, and other files are what they were.                *)
LEMMA ExtendFills ==
  ASSUME Fitting, NEW s, NEW t, NEW i, NEW b, NEW n, Both(s, t), FileLeft(s, t, i, {b}),
         Lengthened(s, t, i, b, n)
  PROVE  StaysFilled(s, Idle, t, Idle)
<1> SUFFICES ASSUME Filled(s, Idle) PROVE Filled(t, Idle)
  BY DEF StaysFilled
<1> DEFINE c == Inode(s, i)
           y == Inode(t, i).ext
           l == After(LastExt(c))
           new == [lb |-> l, pb |-> b]
<1>1. /\ SameBut(s, t, {b}) /\ SameInodes(s, t, {i}) /\ i \in Files(s) /\ i \in InUse(s)
      /\ Files(t) \subseteq Files(s) \cup {i} /\ Files(t) \subseteq Ino /\ i \in Ino
  BY FileAlone, SoundFacts DEF Both
<1>2. Complete(s, i) /\ t[Data(b)] = FileData(i) /\ b \in Blk
  BY <1>1 DEF Filled, FileLeft, Lengthened
<1>3. c \in Node /\ c.size \in Nat /\ c.nblk \in Int
  BY <1>1, SoundFacts, TableFacts DEF Both, Node
<1>4. l \in Nat /\ BlocksFor(c.size) = l /\ BlocksFor(c.size + n) = l + 1
  <2>1. l \in Nat
    BY <1>3, LastEnds
  <2>2. c.size = l * Unit /\ n \in 1 .. Unit
    BY DEF Lengthened, EndsInLastBlock
  <2> HIDE DEF c, l
  <2> QED BY <2>1, <2>2, BlocksForIs
<1>5. l + 1 < LenBit
  <2>1. c.size + n \in Nat /\ MaxSize \in Nat /\ c.size + n <= MaxSize
    BY <1>3, Geometry, BoundsAssumption DEF Lengthened
  <2>2. BlocksFor(c.size + n) <= BlocksFor(MaxSize) /\ BlocksFor(MaxSize) \in Nat
    BY <2>1, BlocksForIs
  <2> HIDE DEF c, l
  <2> QED BY <1>4, <2>2, Geometry DEF Fitting
<1>6. /\ {m.lb : m \in Counted(c.ext)} = 0 .. l - 1
      /\ c.nblk = Cardinality(Counted(c.ext))
      /\ \A m \in Counted(c.ext) : m.pb \in Blk /\ s[Data(m.pb)] = FileData(i)
  BY <1>2, <1>4 DEF Complete
<1>7. /\ Inode(t, i).size = c.size + n /\ Inode(t, i).nblk = c.nblk + 1
      /\ \A m : m \in Counted(y) <=> m \in Counted(c.ext) \/ m = new
  BY DEF Lengthened, Became
<1>8. \A j \in Files(s) : Holds(s, j) \cap {b} = {}
  BY SoundFacts DEF Both, AllTaken, Lengthened
<1>9. new.lb = l /\ new.pb = b /\ new \notin Counted(c.ext)
  BY <1>1, <1>8 DEF Holds, Claims
<1>10. IsFiniteSet(Counted(c.ext)) /\ Cardinality(Counted(c.ext)) \in Nat
  BY <1>1, <1>2, CompleteHolds DEF Both
<1>11. \A m \in Counted(c.ext) : m.pb # b
  BY <1>1, <1>8 DEF Holds, Claims
<1> HIDE DEF c, y, l, new
<1>12. {m.lb : m \in Counted(y)} = 0 .. l
  <2>1. \A k : k \in {m.lb : m \in Counted(y)} <=> k \in 0 .. l - 1 \/ k = l
    BY <1>6, <1>7, <1>9
  <2>2. \A k : k \in 0 .. l <=> k \in 0 .. l - 1 \/ k = l
    BY <1>4
  <2> QED BY <2>1, <2>2
<1>13. Inode(t, i).nblk = Cardinality(Counted(y))
  <2>1. Counted(y) = Counted(c.ext) \cup {new}
    BY <1>7
  <2>2. Cardinality(Counted(y)) = Cardinality(Counted(c.ext)) + 1
    BY <1>9, <1>10, <2>1, FS_AddElement
  <2> QED BY <1>6, <1>7, <2>2
<1>14. \A m \in Counted(y) : m.pb \in Blk /\ t[Data(m.pb)] = FileData(i)
  BY <1>1, <1>2, <1>6, <1>7, <1>9, <1>11 DEF SameBut
<1>15. Complete(t, i)
  <2>1. BlocksFor(Inode(t, i).size) = l + 1
    BY <1>4, <1>7
  <2>2. {m.lb : m \in Counted(y)} = 0 .. BlocksFor(Inode(t, i).size) - 1
    <3>1. BlocksFor(Inode(t, i).size) - 1 = l
      BY <1>4, <2>1
    <3> QED BY <1>12, <3>1
  <2>3. BlocksFor(Inode(t, i).size) < LenBit
    BY <1>5, <2>1
  <2> QED BY <1>13, <1>14, <2>2, <2>3 DEF Complete, y
<1> QED BY <1>1, <1>8, <1>15, OneFills

-----------------------------------------------------------------------------
(* Each transaction, all told.                                             *)
Unharmed(s, tx) == \A k \in DOMAIN tx : Overlay(s, tx)[tx[k].blk] = tx[k].val
Proceeds(s, o, tx, u) ==
  /\ Going(Overlay(s, tx), u) /\ NamesGo(s, Overlay(s, tx))
  /\ Unharmed(s, tx) => StaysTidy(s, o, Overlay(s, tx), u)
  /\ Fitting => StaysFilled(s, o, Overlay(s, tx), u)
  /\ u.begun \/ u = Idle

(* A volume under an operation is sound.                                   *)
LEMMA GoingSound ==
  ASSUME NEW s, NEW o, Going(s, o)
  PROVE  Sound(s) /\ AllTaken(s, Losing(o))
  BY DEF Going

(* What is idle.                                                           *)
LEMMA IdleIs == Idle.do = "idle" /\ Losing(Idle) = {} /\ Making(Idle) = {} /\ Emptied(Idle) = {}
  BY NothingGoing DEF Idle, Losing

(* A file is created.                                                      *)
LEMMA CreateProceeds ==
  ASSUME NEW s, Going(s, Idle), NEW p \in Dirs(s), NEW n \in Name,
         Lookup(s, p, n) = {}, HasRoom(s, p), CanAllocIno(s)
  PROVE  Proceeds(s, Idle, CreateTx(s, p, n, AllocIno(s)), Idle)
<1> DEFINE tx == CreateTx(s, p, n, AllocIno(s))
           t == Overlay(s, tx)
<1>1. Going(t, Idle) /\ NamesGo(s, t) /\ CreateLeft(s, t, AllocIno(s))
  BY CreateStep
<1> HIDE DEF tx
<1>2. Both(s, t)
  BY <1>1, GoingSound DEF Both
<1>3. StaysTidy(s, Idle, t, Idle) /\ StaysFilled(s, Idle, t, Idle)
  BY <1>1, <1>2, CreateTidies, CreateFills
<1>4. Proceeds(s, Idle, tx, Idle)
  BY <1>1, <1>3 DEF Proceeds
<1> QED BY <1>4 DEF tx

(* Files are left alone by what frees a block.                             *)
LEMMA FreeFills ==
  ASSUME NEW s, NEW o, NEW t, NEW u, NEW b, Both(s, t), FreeLeft(s, t, b),
         u.do = "truncate" => o.do = "truncate" /\ u.size = o.size /\ u.ino = o.ino /\ u.ino \in Files(s)
  PROVE  StaysFilled(s, o, t, u)
<1>1. InUse(t) = InUse(s) /\ SameBut(s, t, {}) /\ \A j \in Ino : Inode(t, j) = Inode(s, j)
  BY DEF FreeLeft, Tally, SameInodes
<1>2. Files(t) = Files(s) /\ Files(s) \subseteq Ino
  BY <1>1, SoundFacts DEF Files, Both
<1> QED BY <1>1, <1>2, FilledStays

(* By what changes directories, too.                                       *)
LEMMA DirsFill ==
  ASSUME NEW s, NEW o, NEW t, NEW u, NEW X, NEW B, Both(s, t), SameInodes(s, t, X),
         SameBut(s, t, DirBlks(s) \cup B), InUse(t) \ X \subseteq InUse(s),
         \A j \in X \cap InUse(t) : Inode(t, j).kind = "dir",
         \A j \in Files(s) : Holds(s, j) \cap B = {}, u.do # "truncate"
  PROVE  StaysFilled(s, o, t, u)
<1>1. ASSUME NEW i \in Files(t)
      PROVE  i \in Files(s) /\ Inode(t, i) = Inode(s, i) /\ Holds(s, i) \cap (DirBlks(s) \cup B) = {}
  <2>1. i \in InUse(t) /\ i \in Ino /\ Inode(t, i).kind = "file"
    BY SoundFacts DEF Files, Both
  <2>2. i \notin X /\ i \in InUse(s) /\ Inode(t, i) = Inode(s, i)
    BY <2>1 DEF SameInodes
  <2>3. i \in Files(s)
    BY <2>1, <2>2 DEF Files
  <2> QED BY <2>2, <2>3, FilesApart DEF Both
<1> QED BY <1>1, FilledStays

(* mkdir takes its inode.                                                  *)
LEMMA MkdirProceeds ==
  ASSUME NEW s, Going(s, Idle), NEW p \in Dirs(s), NEW n \in Name,
         Lookup(s, p, n) = {}, HasRoom(s, p), CanAllocIno(s), NEW o,
         o = [do |-> "mkdir", begun |-> TRUE, dir |-> p, name |-> n, ino |-> AllocIno(s)]
  PROVE  Proceeds(s, Idle, MkdirTx1(s, AllocIno(s)), o)
<1> DEFINE i == AllocIno(s)
           tx == MkdirTx1(s, i)
           t == Overlay(s, tx)
<1>1. Going(t, o) /\ NamesGo(s, t) /\ MkdirLeft(s, t, i)
  BY MkdirStep
<1>2. o.do = "mkdir" /\ o.begun /\ Making(o) = {i} /\ Emptied(o) = {}
  BY DEF Making, Emptied, Freeing
<1> HIDE DEF tx, i
<1>3. Both(s, t)
  BY <1>1, GoingSound DEF Both
<1>4. StaysTidy(s, Idle, t, o)
  BY <1>1, <1>2, <1>3, MkdirTidies
<1>5. StaysFilled(s, Idle, t, o)
  <2>1. /\ SameInodes(s, t, {i}) /\ SameBut(s, t, DirBlks(s) \cup {})
        /\ InUse(t) \ {i} \subseteq InUse(s) /\ Inode(t, i).kind = "dir"
    BY <1>1 DEF MkdirLeft, Tally, SameBut, NewDir, Blank
  <2> QED BY <1>2, <1>3, <2>1, DirsFill
<1>6. Proceeds(s, Idle, tx, o)
  BY <1>1, <1>2, <1>4, <1>5 DEF Proceeds
<1> QED BY <1>6 DEF tx, i

(* mkdir wires the directory in, where it does not lose a copy.            *)
LEMMA WireProceeds ==
  ASSUME NEW s, NEW o, Going(s, o), o.do = "mkdir", CanAllocBlk(s), Table(o.ino) # Table(o.dir)
  PROVE  Proceeds(s, o, MkdirTx2(s, o.dir, o.name, o.ino, AllocBlk(s)), Idle)
<1> DEFINE b == AllocBlk(s)
           tx == MkdirTx2(s, o.dir, o.name, o.ino, b)
           t == Overlay(s, tx)
<1>1. Going(t, Idle) /\ NamesGo(s, t) /\ WireLeft(s, t, o.dir, o.ino, b)
  BY WireStep
<1>2. Making(o) = {o.ino} /\ Emptied(o) = {} /\ Losing(o) = {}
  BY DEF Making, Emptied, Freeing, Losing
<1> HIDE DEF tx, b
<1>3. Both(s, t)
  BY <1>1, GoingSound DEF Both
<1>4. StaysTidy(s, o, t, Idle)
  BY <1>1, <1>2, <1>3, WireTidies
<1>5. StaysFilled(s, o, t, Idle)
  <2>1. /\ SameInodes(s, t, {o.ino, o.dir}) /\ SameBut(s, t, DirBlks(s) \cup {b})
        /\ InUse(t) \ {o.ino, o.dir} \subseteq InUse(s) /\ b \notin Taken(s)
        /\ \A j \in {o.ino, o.dir} \cap InUse(t) : Inode(t, j).kind = "dir"
    BY <1>1 DEF WireLeft, Tally
  <2>2. \A j \in Files(s) : Holds(s, j) \subseteq Taken(s)
    BY <1>2, GoingSound, SoundFacts DEF AllTaken
  <2>3. \A j \in Files(s) : Holds(s, j) \cap {b} = {}
    BY <2>1, <2>2
  <2> QED BY <1>3, <2>1, <2>3, DirsFill, IdleIs
<1>6. Proceeds(s, o, tx, Idle)
  BY <1>1, <1>4, <1>5 DEF Proceeds
<1> QED BY <1>6 DEF tx, b

(* rmdir frees the block of an empty directory.                            *)
LEMMA RmdirProceeds ==
  ASSUME NEW s, Going(s, Idle), NEW p \in Dirs(s), NEW k \in Places, NEW i \in Dirs(s),
         At(s, p, k) = i, Children(s, i) = {}, NEW o,
         o = [do |-> "rmdir", begun |-> TRUE, dir |-> p, ino |-> i]
  PROVE  Proceeds(s, Idle, FreeBlk(s, DirBlk(s, i)), o)
<1> DEFINE b == DirBlk(s, i)
           tx == FreeBlk(s, b)
           t == Overlay(s, tx)
<1>1. Going(t, o) /\ NamesGo(s, t) /\ FreeLeft(s, t, b)
  BY RmdirStep
<1>2. o.do = "rmdir" /\ o.begun /\ Making(o) = {} /\ Emptied(o) = {i}
  BY DEF Making, Emptied, Freeing
<1>3. b \in Blk
  BY GoingSound, SoundFacts, DirFacts
<1> HIDE DEF tx, b
<1>4. Both(s, t)
  BY <1>1, GoingSound DEF Both
<1>5. StaysTidy(s, Idle, t, o)
  <2> SUFFICES ASSUME Tidy(s, Idle) PROVE Tidy(t, o)
    BY DEF StaysTidy
  <2>1. Holds(s, i) = {b}
    BY DEF Tidy, b
  <2>2. \A j : StillHeld(s, Idle, j) \subseteq Holds(s, j)
    BY HeldStill
  <2>3. \A j : j # i => StillHeld(s, o, j) = Holds(s, j)
    BY <1>2, HeldStill
  <2>4. HoldsOn(s, Idle, s, o, {b})
    BY <2>1, <2>2, <2>3 DEF HoldsOn
  <2> QED BY <1>1, <1>2, <1>3, <1>4, <2>4, FreeTidies, IdleIs DEF StaysTidy
<1>6. StaysFilled(s, Idle, t, o)
  BY <1>1, <1>2, <1>4, FreeFills
<1>7. Proceeds(s, Idle, tx, o)
  BY <1>1, <1>2, <1>5, <1>6 DEF Proceeds
<1> QED BY <1>7 DEF tx, b

(* What a write says of its block.                                         *)
LEMMA WriteSays == \A x, v, y : y = Wr(x, v) => y.blk = x /\ y.val = v
  BY DEF Wr

(* What an unharmed transaction leaves of the inode it frees.              *)
LEMMA FreedIsBlank ==
  ASSUME NEW s, Sound(s), NEW i \in Ino, NEW d, NEW v, NEW w, NEW tx,
         tx = FreeIno(s, i, d) \o << PutInode(s, i, Blank), v, w >>, Unharmed(s, tx)
  PROVE  Inode(Overlay(s, tx), i) = Blank
<1> DEFINE r == [s[Table(i)] EXCEPT ![i] = Blank]
<1>1. 4 \in DOMAIN tx /\ tx[4] = PutInode(s, i, Blank)
  BY DEF FreeIno
<1>2. tx[4].blk = Table(i) /\ tx[4].val = r
  <2>1. PutInode(s, i, Blank) = Wr(Table(i), r)
    BY Zenon DEF PutInode
  <2> DEFINE y == tx[4]
  <2>2. y = Wr(Table(i), r)
    BY <1>1, <2>1, Zenon
  <2> HIDE DEF y, r
  <2>3. y.blk = Table(i) /\ y.val = r
    BY <2>2, WriteSays
  <2> QED BY <2>3 DEF y
<1>3. Overlay(s, tx)[Table(i)] = [s[Table(i)] EXCEPT ![i] = Blank]
  BY <1>1, <1>2 DEF Unharmed
<1>4. s[Table(i)] \in [Beside(i) -> Node] /\ i \in Beside(i)
  BY SoundFacts, TableFacts DEF Tables
<1> QED BY <1>3, <1>4 DEF Inode

(* What an operation ends with that took a name away.                      *)
Deleting(s, o, d, tx) ==
  /\ Both(s, Overlay(s, tx)) /\ DeleteLeft(s, Overlay(s, tx), o.dir, o.ino, d)
  /\ o.do \in Freeing /\ o.ino \in Numbers(s) /\ StillHeld(s, o, o.ino) = {}
  /\ (d = 1 /\ o.ino \in Dirs(s)) \/ (d = 0 /\ o.ino \notin Dirs(s))
  /\ \E v, w : tx = FreeIno(s, o.ino, d) \o << PutInode(s, o.ino, Blank), v, w >>

(* Then what is tidy and complete stays so.                                *)
LEMMA DeleteGoesOn ==
  ASSUME NEW s, NEW o, NEW d, NEW tx, Deleting(s, o, d, tx)
  PROVE  /\ Unharmed(s, tx) => StaysTidy(s, o, Overlay(s, tx), Idle)
         /\ StaysFilled(s, o, Overlay(s, tx), Idle)
<1> DEFINE t == Overlay(s, tx)
           p == o.dir
           i == o.ino
<1>1. Both(s, t) /\ DeleteLeft(s, t, p, i, d)
  BY DEF Deleting
<1>2. i \in Ino
  BY <1>1, InodesAre DEF DeleteLeft, Both
<1>3. Making(o) = {} /\ Emptied(o) = {i}
  BY DEF Deleting, Freeing, Making, Emptied
<1>4. ASSUME Unharmed(s, tx) PROVE StaysTidy(s, o, t, Idle)
  <2>1. PICK v, w : tx = FreeIno(s, i, d) \o << PutInode(s, i, Blank), v, w >>
    BY DEF Deleting
  <2>2. Inode(t, i) = Blank
    <3> HIDE DEF i
    <3> QED BY <1>1, <1>2, <1>4, <2>1, FreedIsBlank DEF Both
  <2>3. /\ i \in Numbers(s) /\ StillHeld(s, o, i) = {}
        /\ (d = 1 /\ i \in Dirs(s)) \/ (d = 0 /\ i \notin Dirs(s))
    BY DEF Deleting
  <2> HIDE DEF t, p, i
  <2> QED BY <1>1, <1>3, <2>2, <2>3, DeleteTidies
<1>5. StaysFilled(s, o, t, Idle)
  <2> HIDE DEF t, p, i
  <2>1. /\ SameInodes(s, t, {i, p}) /\ SameBut(s, t, DirBlks(s) \cup {})
        /\ InUse(t) \ {i, p} \subseteq InUse(s)
        /\ \A j \in {i, p} \cap InUse(t) : Inode(t, j).kind = "dir"
    BY <1>1 DEF DeleteLeft, Tally
  <2> QED BY <1>1, <2>1, DirsFill, IdleIs
<1> QED BY <1>4, <1>5

(* rmdir takes the name away and frees the inode.                          *)
LEMMA RmdirEndsProceeds ==
  ASSUME NEW s, NEW o, Going(s, o), o.do = "rmdir"
  PROVE  Proceeds(s, o, RmdirTx2(s, o.dir, o.ino), Idle)
<1> DEFINE tx == RmdirTx2(s, o.dir, o.ino)
           t == Overlay(s, tx)
<1>1. Going(t, Idle) /\ NamesGo(s, t) /\ DeleteLeft(s, t, o.dir, o.ino, 1)
  BY RmdirEnds
<1>2. Both(s, t)
  BY <1>1, GoingSound DEF Both
<1>3. RmdirGoing(s, o)
  BY WhichGoes
<1>4. o.ino \in Numbers(s) /\ o.ino \in Dirs(s)
  <2>1. o.ino \in NamedIn(s)
    BY <1>3 DEF RmdirGoing, Child, NamedIn, Dirs
  <2> QED BY <1>3, <2>1, NumbersAre, GoingSound DEF RmdirGoing
<1>5. StillHeld(s, o, o.ino) = {}
  BY DEF StillHeld, Emptied, Freeing, Spared
<1>6. \E v, w : tx = FreeIno(s, o.ino, 1) \o << PutInode(s, o.ino, Blank), v, w >>
  BY DEF RmdirTx2
<1> HIDE DEF tx
<1>7. Deleting(s, o, 1, tx)
  BY <1>1, <1>2, <1>4, <1>5, <1>6 DEF Deleting, Freeing
<1>8. Proceeds(s, o, tx, Idle)
  BY <1>1, <1>7, DeleteGoesOn DEF Proceeds
<1> QED BY <1>8 DEF tx

(* unlink takes the name away and frees the inode.                         *)
LEMMA UnlinkEndsProceeds ==
  ASSUME NEW s, NEW o, Going(s, o), o.do = "unlink", o.todo = {}
  PROVE  Proceeds(s, o, UnlinkTx(s, o.dir, o.ino), Idle)
<1> DEFINE tx == UnlinkTx(s, o.dir, o.ino)
           t == Overlay(s, tx)
<1>1. Going(t, Idle) /\ NamesGo(s, t) /\ DeleteLeft(s, t, o.dir, o.ino, 0)
  BY UnlinkEnds
<1>2. Both(s, t)
  BY <1>1, GoingSound DEF Both
<1>3. UnlinkGoing(s, o)
  BY WhichGoes
<1>4. o.ino \in Numbers(s) /\ o.ino \notin Dirs(s)
  <2>1. o.ino \in NamedIn(s)
    BY <1>3 DEF UnlinkGoing, Child, NamedIn
  <2>2. o.ino \notin Dirs(s)
    BY <1>3 DEF UnlinkGoing, Dirs, IsDir
  <2> QED BY <2>1, <2>2, NumbersAre, GoingSound
<1>5. StillHeld(s, o, o.ino) = {}
  BY DEF StillHeld, Emptied, Freeing, Spared
<1>6. \E v, w : tx = FreeIno(s, o.ino, 0) \o << PutInode(s, o.ino, Blank), v, w >>
  BY DEF UnlinkTx
<1> HIDE DEF tx
<1>7. Deleting(s, o, 0, tx)
  BY <1>1, <1>2, <1>4, <1>5, <1>6 DEF Deleting, Freeing
<1>8. Proceeds(s, o, tx, Idle)
  BY <1>1, <1>7, DeleteGoesOn DEF Proceeds
<1> QED BY <1>8 DEF tx

(* One place less of those an operation goes through.                      *)
OneLess(o, u, m) ==
  /\ o.do \in {"unlink", "truncate"} /\ m \in o.todo
  /\ u.do = o.do /\ u.ino = o.ino /\ u.todo = o.todo \ {m}
  /\ o.do = "truncate" => u.size = o.size

(* What is still held but for that place stays so.                         *)
LEMMA SparesOn ==
  ASSUME NEW s, NEW o, NEW u, NEW m, OneLess(o, u, m)
  PROVE  Making(u) = Making(o) /\ HoldsOn(s, o, s, u, {m.pb})
<1>1. Making(u) = Making(o) /\ Emptied(u) = Emptied(o)
  BY DEF Making, Emptied, OneLess
<1>2. \A k : Spared(o, k) => Spared(u, k) \/ k = m
  BY DEF Spared, OneLess
<1>3. ASSUME NEW j PROVE StillHeld(s, o, j) \ {m.pb} \subseteq StillHeld(s, u, j)
  <2>1. ASSUME NEW x \in StillHeld(s, o, j), x # m.pb PROVE x \in StillHeld(s, u, j)
    <3>1. PICK k \in Counted(Inode(s, j).ext) : x = k.pb /\ (j \in Emptied(o) => Spared(o, k))
      BY DEF StillHeld
    <3>2. k # m
      BY <2>1, <3>1
    <3> QED BY <1>1, <1>2, <3>1, <3>2 DEF StillHeld
  <2> QED BY <2>1
<1> QED BY <1>1, <1>3 DEF HoldsOn

(* unlink frees one block.                                                 *)
LEMMA UnlinkFreesProceeds ==
  ASSUME NEW s, NEW o, Going(s, o), o.do = "unlink", NEW m \in o.todo, NEW u,
         u = [o EXCEPT !.todo = @ \ {m}, !.begun = TRUE]
  PROVE  Proceeds(s, o, FreeBlk(s, m.pb), u)
<1> DEFINE tx == FreeBlk(s, m.pb)
           t == Overlay(s, tx)
<1>1. Going(t, u) /\ NamesGo(s, t) /\ FreeLeft(s, t, m.pb)
  BY UnlinkFrees
<1>2. UnlinkGoing(s, o)
  BY WhichGoes
<1>3. m.pb \in Blk
  BY <1>2, GoingSound, SoundFacts DEF UnlinkGoing
<1>4. u.do = "unlink" /\ u.ino = o.ino /\ u.begun /\ u.todo = o.todo \ {m}
  BY <1>2 DEF UnlinkGoing
<1> HIDE DEF tx
<1>5. Both(s, t)
  BY <1>1, GoingSound DEF Both
<1>6. StaysTidy(s, o, t, u)
  <2>1. Making(u) = Making(o) /\ HoldsOn(s, o, s, u, {m.pb})
    BY <1>4, SparesOn DEF OneLess
  <2> QED BY <1>1, <1>3, <1>5, <2>1, FreeTidies
<1>7. StaysFilled(s, o, t, u)
  BY <1>1, <1>4, <1>5, FreeFills
<1>8. Proceeds(s, o, tx, u)
  BY <1>1, <1>4, <1>6, <1>7 DEF Proceeds
<1> QED BY <1>8 DEF tx

(* truncate frees one block.                                               *)
LEMMA TruncateFreesProceeds ==
  ASSUME NEW s, NEW o, Going(s, o), o.do = "truncate", NEW m \in o.todo, NEW u,
         u = [o EXCEPT !.todo = @ \ {m}, !.begun = TRUE]
  PROVE  Proceeds(s, o, FreeBlk(s, m.pb), u)
<1> DEFINE tx == FreeBlk(s, m.pb)
           t == Overlay(s, tx)
<1>1. Going(t, u) /\ NamesGo(s, t) /\ FreeLeft(s, t, m.pb)
  BY TruncateFrees
<1>2. TruncateGoing(s, o) /\ o.ino \in Files(s)
  BY TruncateFacts
<1>3. u.do = "truncate" /\ u.ino = o.ino /\ u.begun /\ u.todo = o.todo \ {m} /\ u.size = o.size
  BY <1>2 DEF TruncateGoing
<1>4. m.pb \in Blk
  <2>1. m \in Counted(Inode(s, o.ino).ext)
    BY <1>2 DEF TruncateGoing, Doomed
  <2> QED BY <1>2, <2>1, GoingSound, SoundFacts DEF TruncateGoing
<1> HIDE DEF tx
<1>5. Both(s, t)
  BY <1>1, GoingSound DEF Both
<1>6. StaysTidy(s, o, t, u)
  <2>1. Making(u) = Making(o) /\ HoldsOn(s, o, s, u, {m.pb})
    BY <1>3, SparesOn DEF OneLess
  <2> QED BY <1>1, <1>4, <1>5, <2>1, FreeTidies
<1>7. StaysFilled(s, o, t, u)
  BY <1>1, <1>2, <1>3, <1>5, FreeFills
<1>8. Proceeds(s, o, tx, u)
  BY <1>1, <1>3, <1>6, <1>7 DEF Proceeds
<1> QED BY <1>8 DEF tx

(* truncate writes the inode that keeps the rest.                          *)
LEMMA TruncateEndsProceeds ==
  ASSUME NEW s, NEW o, Going(s, o), o.do = "truncate", o.todo = {}
  PROVE  Proceeds(s, o, TruncateTx(s, o.ino, o.size, o.ext, o.freed), Idle)
<1> DEFINE i == o.ino
           x == Inode(s, i).ext
           tx == TruncateTx(s, o.ino, o.size, o.ext, o.freed)
           t == Overlay(s, tx)
<1>1. /\ Going(t, Idle) /\ NamesGo(s, t) /\ SameMaps(s, t) /\ FileLeft(s, t, i, {})
      /\ Became(t, i, Kept(x, o.size), o.size, Inode(s, i).nblk - o.freed)
      /\ \A m : m \in Counted(Kept(x, o.size)) <=> m \in Counted(x) /\ m.lb < BlocksFor(o.size)
  BY TruncateEnds
<1>2. TruncateGoing(s, o) /\ i \in Files(s) /\ i \in Ino /\ Sound(s)
  BY TruncateFacts
<1>3. i \in Numbers(s)
  BY <1>2, NumbersAre DEF TruncateGoing
<1> HIDE DEF tx
<1>4. Both(s, t) /\ DirsKept(s, t)
  BY <1>1, <1>2, GoingSound DEF Both, DirsKept
<1>5. Making(o) = {} /\ Emptied(o) = {i}
  BY DEF Making, Emptied, Freeing
<1>6. HoldsOn(s, o, t, Idle, {})
  <2>1. ASSUME NEW j \in InUse(s) PROVE StillHeld(s, o, j) \subseteq StillHeld(t, Idle, j)
    <3>1. StillHeld(t, Idle, j) = Holds(t, j)
      BY HeldStill, IdleIs
    <3>2. CASE j = i
      <4>1. ASSUME NEW b \in StillHeld(s, o, i) PROVE b \in Holds(t, i)
        <5>1. PICK m \in Counted(x) : b = m.pb /\ Spared(o, m)
          BY <1>5 DEF StillHeld
        <5>2. m \in Counted(Inode(t, i).ext)
          BY <1>1, <5>1 DEF Spared, Became
        <5> QED BY <5>1, <5>2 DEF Holds, Claims
      <4> QED BY <3>1, <3>2, <4>1
    <3>3. CASE j # i
      <4>1. Inode(t, j) = Inode(s, j)
        BY <1>1, <1>4, <2>1, <3>3, InodesAre DEF FileLeft, SameInodes, Both
      <4>2. Holds(t, j) = Holds(s, j)
        BY <4>1, SameDirBlk
      <4> QED BY <3>1, <4>2, HeldStill
    <3> QED BY <3>2, <3>3
  <2> QED BY <2>1 DEF HoldsOn
<1>7. StaysTidy(s, o, t, Idle)
  <2> HIDE DEF t, i
  <2> QED BY <1>1, <1>3, <1>4, <1>5, <1>6, FileTidies
<1>8. StaysFilled(s, o, t, Idle)
  <2>1. o.size \in Nat /\ o.freed = Cardinality(Doomed(x, o.size))
    BY <1>2 DEF TruncateGoing
  <2>2. Inode(s, i).size \in Nat
    BY <1>2, SoundFacts, TableFacts DEF Node
  <2>3. Shortened(s, o, t, i)
    BY <1>1, <2>1, <2>2 DEF Shortened
  <2> HIDE DEF t, i
  <2> QED BY <1>1, <1>4, <2>3, TruncateFills
<1>9. Proceeds(s, o, tx, Idle)
  BY <1>1, <1>7, <1>8 DEF Proceeds
<1> QED BY <1>9 DEF tx

(* A file grows by a block.                                                *)
LEMMA ExtendProceeds ==
  ASSUME NEW s, Going(s, Idle), NEW i \in Files(s) \cap Numbers(s), NEW c, c = Inode(s, i),
         EndsInLastBlock(c), NEW n \in 1 .. Unit, c.size + n <= MaxSize, NEW b \in Candidates(s, c)
  PROVE  Proceeds(s, Idle, ExtendTx(s, c, i, b, n), Idle)
<1> DEFINE tx == ExtendTx(s, c, i, b, n)
           t == Overlay(s, tx)
<1>1. /\ Going(t, Idle) /\ NamesGo(s, t) /\ b \in Blk \ Taken(s)
      /\ TookBlk(s, t, b) /\ FileLeft(s, t, i, {b})
      /\ Became(t, i, Grown(c.ext, c, b), c.size + n, c.nblk + 1)
      /\ \A m : m \in Counted(Grown(c.ext, c, b)) <=>
           m \in Counted(c.ext) \/ m = [lb |-> After(LastExt(c)), pb |-> b]
  <2>1. n \in Nat
    BY Geometry
  <2> QED BY <2>1, ExtendStep
<1> HIDE DEF tx
<1>2. Both(s, t) /\ DirsKept(s, t) /\ AllTaken(s, {})
  BY <1>1, GoingSound, IdleIs DEF Both, DirsKept
<1>3. \A m : m \in Counted(c.ext) => m \in Counted(Inode(t, i).ext)
  BY <1>1 DEF Became
<1>4. HoldsOn(s, Idle, t, Idle, {}) /\ {b} \subseteq Holds(t, i)
  <2>1. ASSUME NEW j \in InUse(s) PROVE Holds(s, j) \subseteq Holds(t, j)
    <3>1. CASE j = i
      BY <1>3, <3>1 DEF Holds, Claims
    <3>2. CASE j # i
      <4>1. Inode(t, j) = Inode(s, j)
        BY <1>1, <1>2, <2>1, <3>2, InodesAre DEF FileLeft, SameInodes, Both
      <4> QED BY <4>1, SameDirBlk
    <3> QED BY <3>1, <3>2
  <2>2. \A j : StillHeld(s, Idle, j) = Holds(s, j) /\ StillHeld(t, Idle, j) = Holds(t, j)
    BY HeldStill, IdleIs
  <2>3. [lb |-> After(LastExt(c)), pb |-> b] \in Counted(Inode(t, i).ext)
    BY <1>1 DEF Became
  <2>4. b \in Holds(t, i)
    BY <2>3 DEF Holds, Claims
  <2> QED BY <2>1, <2>2, <2>4 DEF HoldsOn
<1>5. StaysTidy(s, Idle, t, Idle)
  <2> HIDE DEF t
  <2> QED BY <1>1, <1>2, <1>4, FileTidies, IdleIs
<1>6. ASSUME Fitting PROVE StaysFilled(s, Idle, t, Idle)
  <2>1. Lengthened(s, t, i, b, n)
    BY <1>1, <1>2 DEF Lengthened
  <2> HIDE DEF t
  <2> QED BY <1>1, <1>2, <1>6, <2>1, ExtendFills
<1>7. Proceeds(s, Idle, tx, Idle)
  BY <1>1, <1>5, <1>6 DEF Proceeds
<1> QED BY <1>7 DEF tx

(* A block of a file is written over.                                      *)
LEMMA WriteProceeds ==
  ASSUME NEW s, Going(s, Idle), NEW i \in Files(s) \cap Numbers(s), NEW m \in Mapped(Inode(s, i).ext)
  PROVE  Proceeds(s, Idle, WriteTx(s, i, m.pb), Idle)
<1> DEFINE tx == WriteTx(s, i, m.pb)
           t == Overlay(s, tx)
<1>1. /\ Going(t, Idle) /\ NamesGo(s, t) /\ SameMaps(s, t) /\ FileLeft(s, t, i, {m.pb})
      /\ Inode(t, i) = Inode(s, i) /\ m \in Counted(Inode(s, i).ext)
  BY WriteStep
<1> HIDE DEF tx
<1>2. Both(s, t) /\ DirsKept(s, t)
  BY <1>1, GoingSound DEF Both, DirsKept
<1>3. HoldsOn(s, Idle, t, Idle, {}) /\ {m.pb} \subseteq Holds(t, i)
  <2>1. \A j \in Ino : Inode(t, j) = Inode(s, j)
    BY <1>1 DEF FileLeft, SameInodes
  <2>2. HoldsOn(s, Idle, s, Idle, {})
    BY DEF HoldsOn
  <2>3. HoldsOn(s, Idle, t, Idle, {})
    BY <1>2, <2>1, <2>2, HoldsSame, InodesAre DEF Both
  <2> QED BY <1>1, <2>3 DEF Holds, Claims
<1>4. StaysTidy(s, Idle, t, Idle)
  <2> HIDE DEF t
  <2> QED BY <1>1, <1>2, <1>3, FileTidies, IdleIs
<1>5. StaysFilled(s, Idle, t, Idle)
  <2> HIDE DEF t
  <2> QED BY <1>1, <1>2, WriteFills
<1>6. Proceeds(s, Idle, tx, Idle)
  BY <1>1, <1>4, <1>5 DEF Proceeds
<1> QED BY <1>6 DEF tx

(* Names change, and files do not.                                         *)
Shifted(s, tx) ==
  Going(s, Idle) /\ Going(Overlay(s, tx), Idle) /\ NamesGo(s, Overlay(s, tx)) /\ NamesLeft(s, Overlay(s, tx))

(* Then all else is as it was.                                             *)
LEMMA NamesProceed ==
  ASSUME NEW s, NEW tx, Shifted(s, tx)
  PROVE  Proceeds(s, Idle, tx, Idle)
<1> DEFINE t == Overlay(s, tx)
<1>1. Both(s, t) /\ NamesLeft(s, t)
  BY GoingSound DEF Both, Shifted
<1>2. StaysTidy(s, Idle, t, Idle)
  BY <1>1, NamesTidy
<1>3. StaysFilled(s, Idle, t, Idle)
  <2>1. \A j \in Dirs(s) : Inode(s, j).kind = "dir" /\ j \in Ino
    BY <1>1, SoundFacts, DirFacts DEF Both
  <2>2. /\ SameInodes(s, t, Dirs(s)) /\ SameBut(s, t, DirBlks(s) \cup {})
        /\ InUse(t) \ Dirs(s) \subseteq InUse(s)
        /\ \A j \in Dirs(s) \cap InUse(t) : Inode(t, j).kind = "dir"
    BY <1>1, <2>1 DEF NamesLeft, Tally
  <2> HIDE DEF t
  <2> QED BY <1>1, <2>2, DirsFill, IdleIs
<1> QED BY <1>2, <1>3 DEF Proceeds, Shifted

(* An operation that has only read, or is left.                            *)
LEMMA LeftProceeds ==
  ASSUME NEW s, NEW o
  PROVE  /\ Making(o) = {} => StaysTidy(s, o, s, Idle)
         /\ StaysFilled(s, o, s, Idle)
<1>1. ASSUME Making(o) = {} PROVE StaysTidy(s, o, s, Idle)
  <2>1. HoldsOn(s, o, s, Idle, {})
    BY HeldStill, IdleIs DEF HoldsOn
  <2> QED BY <1>1, <2>1, TidyMore, IdleIs DEF StaysTidy
<1>2. StaysFilled(s, o, s, Idle)
  BY IdleIs DEF StaysFilled, Filled
<1> QED BY <1>1, <1>2

(* An operation begins that goes through all blocks of a file it does not  *)
(* keep.                                                                   *)
BeginsAt(s, o, i) ==
  /\ o.ino = i /\ o.do \in {"unlink", "truncate"}
  /\ o.do = "truncate" => o.size <= Inode(s, i).size
  /\ \A m \in Counted(Inode(s, i).ext) : Spared(o, m)

(* Then nothing is lost yet.                                               *)
LEMMA BeginProceeds ==
  ASSUME NEW s, NEW o, NEW i, BeginsAt(s, o, i)
  PROVE  StaysTidy(s, Idle, s, o) /\ StaysFilled(s, Idle, s, o)
<1>1. Making(o) = {} /\ Emptied(o) = {i}
  BY DEF BeginsAt, Making, Emptied, Freeing
<1>2. ASSUME NEW j PROVE StillHeld(s, Idle, j) \subseteq StillHeld(s, o, j)
  <2>1. CASE j # i
    BY <1>1, <2>1, HeldStill
  <2>2. CASE j = i
    BY <1>1, <2>2 DEF StillHeld, BeginsAt
  <2> QED BY <2>1, <2>2
<1>3. HoldsOn(s, Idle, s, o, {})
  BY <1>2 DEF HoldsOn
<1>4. StaysTidy(s, Idle, s, o)
  BY <1>1, <1>3, TidyMore, IdleIs DEF StaysTidy
<1>5. StaysFilled(s, Idle, s, o)
  BY DEF StaysFilled, Filled, BeginsAt
<1> QED BY <1>4, <1>5

(***************************************************************************)
(* The volume is sound between any two transactions.                       *)
(***************************************************************************)
(* An operation whose blocks are not being freed can be left where it is.  *)
LEMMA LeftThere ==
  ASSUME NEW s, NEW o, Going(s, o), Losing(o) = {}
  PROVE  Going(s, Idle)
<1>1. Losing(Idle) = {}
  BY DEF Losing, Idle
<1> QED BY <1>1 DEF Going, Doing

(* What has happened stays in the history.                                 *)
LEMMA HistoryGrows ==
  ASSUME [Next]_vars
  PROVE  interrupted \subseteq interrupted' /\ overlapped \subseteq overlapped'
<1> DEFINE Grow == interrupted \subseteq interrupted' /\ overlapped \subseteq overlapped'
<1>1. \A name, tx, next : Commit(name, tx, next) => Grow
  BY DEF Commit, CommitOk, CheckpointFails, Applied
<1>2. \A o : Begin(o) => Grow
  BY DEF Begin
<1>3. MkdirNoSpace \/ Interrupt \/ Remount => Grow
  BY DEF MkdirNoSpace, Interrupt, Remount
<1> HIDE DEF Grow
<1>4. MkdirWire \/ RmdirFinish \/ UnlinkFree \/ UnlinkFinish \/ TruncateFree \/ TruncateFinish => Grow
  BY <1>1 DEF MkdirWire, RmdirFinish, UnlinkFree, UnlinkFinish, TruncateFree, TruncateFinish
<1>5. \A p, n : Create(p, n) \/ Mkdir(p, n) => Grow
  BY <1>1 DEF Create, Mkdir
<1>6. \A p, i : Rmdir(p, i) \/ Unlink(p, i) \/ WriteBlock(i) => Grow
  BY <1>1, <1>2 DEF Rmdir, Unlink, WriteBlock
<1>7. \A i, n : Truncate(i, n) \/ Extend(i, n) => Grow
  BY <1>1, <1>2 DEF Truncate, Extend
<1>8. \A p, i, q, n : Rename(p, i, n) \/ RenameXdir(p, i, q, n) => Grow
  BY <1>1 DEF Rename, RenameXdir
<1>9. Next => Grow
  BY <1>3, <1>4, <1>5, <1>6, <1>7, <1>8 DEF Next
<1>10. UNCHANGED vars => Grow
  BY DEF vars, Grow
<1>11. Grow
  BY <1>9, <1>10
<1> QED BY <1>11 DEF Grow

(* So a history without disorder had none before.                          *)
LEMMA StillCalm ==
  ASSUME [Next]_vars
  PROVE  /\ ~Exposed' => ~Exposed
         /\ interrupted' = {} /\ overlapped' = {} => interrupted = {} /\ overlapped = {}
  BY HistoryGrows DEF Exposed

(* A step leaves the volume sound, and changes what a program is told by   *)
(* nothing or by one whole operation; it leaves it tidy and its files      *)
(* complete, if they were.                                                 *)
Advances ==
  /\ VolumeInv' /\ NamesGo(store, store')
  /\ interrupted' = {} /\ overlapped' = {} => StaysTidy(store, op, store', op')
  /\ Fitting => StaysFilled(store, op, store', op')

(* Where nothing changes, a program is told the same.                      *)
LEMMA SameTold ==
  /\ \A s : NamesGo(s, s)
  /\ \A s, o : StaysTidy(s, o, s, o) /\ StaysFilled(s, o, s, o)
  BY DEF NamesGo, Alike, StaysTidy, StaysFilled

(* A commit leaves what its transaction leaves, whether or not its         *)
(* checkpoint fails.                                                       *)
LEMMA CommitStep ==
  ASSUME VolumeInv, NEW name, NEW tx, NEW next, Commit(name, tx, next), ~Exposed',
         Proceeds(store, op, tx, next)
  PROVE  Advances
<1> DEFINE t == Overlay(store, tx)
<1>1. /\ Going(t, next) /\ NamesGo(store, t)
      /\ Unharmed(store, tx) => StaysTidy(store, op, t, next)
      /\ Fitting => StaysFilled(store, op, t, next)
      /\ next.begun \/ next = Idle
  BY DEF Proceeds
<1>2. Applied(name, tx)
  BY DEF Commit, CommitOk, CheckpointFails
<1>3. store' = t
  BY <1>2 DEF Applied
<1>4. overlapped' = {} => Unharmed(store, tx)
  BY <1>2 DEF Applied, Unharmed
<1> HIDE DEF t
<1>5. CASE CommitOk(name, tx, next)
  <2>1. op' = next /\ dirty' = dirty /\ faults' = faults
    BY <1>5 DEF CommitOk
  <2> QED BY <1>1, <1>3, <1>4, <2>1 DEF VolumeInv, Advances
<1>6. CASE CheckpointFails(name, tx, next)
  <2>1. /\ op' = Idle /\ dirty' = TRUE
        /\ faults < MaxFaults /\ faults' = faults + 1
        /\ interrupted' = interrupted \cup Abandoned(next)
    BY <1>6 DEF CheckpointFails
  <2>2. Losing(next) = {}
    BY <2>1 DEF Exposed, Losing, Abandoned
  <2>3. Going(t, Idle)
    BY <1>1, <2>2, LeftThere
  <2>4. faults' \in 0 .. MaxFaults
    BY <2>1, BoundsAssumption DEF VolumeInv
  <2>5. interrupted' = {} => next = Idle
    BY <1>1, <2>1 DEF Abandoned
  <2>6. StaysFilled(store, op, t, next) => StaysFilled(store, op, t, Idle)
    BY LeftProceeds DEF StaysFilled
  <2> QED BY <1>1, <1>3, <1>4, <2>1, <2>3, <2>4, <2>5, <2>6 DEF VolumeInv, Advances
<1> QED BY <1>5, <1>6 DEF Commit

(* What a directory leads to is behind one of its slots.                   *)
LEMMA BelowFacts ==
  ASSUME NEW p \in Dirs(store), Sound(store), NEW i \in Below(p)
  PROVE  /\ i \in Ino /\ i \in Dirs(store) \cup Files(store)
         /\ \E k \in Places : At(store, p, k) = i
         /\ IsFile(i) <=> i \in Files(store)
<1>1. PICK e \in Children(store, p) : i = e.ino
  BY DEF Below
<1>2. i \in Ino /\ \E k \in Places : At(store, p, k) = i
  BY <1>1, ChildSlot
<1>3. i \in Dirs(store) \cup Files(store)
  BY <1>2, SlotFound
<1>4. IsFile(i) <=> i \in Files(store)
  BY <1>3, SoundFacts, DirFacts DEF IsFile, Files
<1> QED BY <1>2, <1>3, <1>4

(* So a program is told of it.                                             *)
LEMMA BelowNumbers ==
  ASSUME NEW p \in Dirs(store), Sound(store), NEW i \in Below(p)
  PROVE  i \in Numbers(store)
<1>1. i \in Ino /\ \E k \in Places : At(store, p, k) = i
  BY BelowFacts
<1> QED BY <1>1, NumbersAre DEF NamedIn

-----------------------------------------------------------------------------
(* Each operation, one transaction at a time.                              *)
LEMMA CreateKeeps ==
  ASSUME VolumeInv, NEW p \in Dirs(store), NEW n \in Name, Create(p, n), ~Exposed'
  PROVE  Advances
<1> DEFINE tx == CreateTx(store, p, n, AllocIno(store))
<1>1. Going(store, Idle) /\ Commit("create", tx, Idle)
  BY DEF VolumeInv, Create, Ready
<1>2. Proceeds(store, op, tx, Idle)
  BY <1>1, CreateProceeds DEF Create, Free, Ready
<1> HIDE DEF tx
<1> QED BY <1>1, <1>2, CommitStep

(* mkdir, first transaction.                                               *)
LEMMA MkdirKeeps ==
  ASSUME VolumeInv, NEW p \in Dirs(store), NEW n \in Name, Mkdir(p, n), ~Exposed'
  PROVE  Advances
<1> DEFINE o == [do |-> "mkdir", begun |-> TRUE, dir |-> p, name |-> n, ino |-> AllocIno(store)]
           tx == MkdirTx1(store, AllocIno(store))
<1>1. Going(store, Idle)
  BY DEF VolumeInv, Mkdir, Ready
<1>2. Proceeds(store, op, tx, o)
  BY <1>1, MkdirProceeds DEF Mkdir, Free, Ready
<1>3. Commit("mkdir", tx, o)
  BY DEF Mkdir
<1> HIDE DEF o, tx
<1> QED BY <1>2, <1>3, CommitStep

(* A mkdir whose two copies of one block of inodes collide is a disorder.  *)
LEMMA MkdirWireKeeps ==
  ASSUME VolumeInv, MkdirWire, ~Exposed'
  PROVE  Advances
<1> DEFINE tx == MkdirTx2(store, op.dir, op.name, op.ino, AllocBlk(store))
<1>1. Going(store, op) /\ op.do = "mkdir" /\ CanAllocBlk(store) /\ Commit("mkdir", tx, Idle)
  BY DEF VolumeInv, MkdirWire
<1>2. Table(op.ino) # Table(op.dir)
  <2> SUFFICES ASSUME Table(op.ino) = Table(op.dir) PROVE FALSE
    OBVIOUS
  <2>1. \E k \in DOMAIN tx : Overlay(store, tx)[tx[k].blk] # tx[k].val
    BY <1>1, WireOverlaps
  <2> HIDE DEF tx
  <2>2. Applied("mkdir", tx)
    BY <1>1 DEF Commit, CommitOk, CheckpointFails
  <2>3. "mkdir" \in overlapped'
    BY <2>1, <2>2 DEF Applied
  <2> QED BY <2>3 DEF Exposed
<1>3. Proceeds(store, op, tx, Idle)
  BY <1>1, <1>2, WireProceeds
<1> HIDE DEF tx
<1> QED BY <1>1, <1>3, CommitStep

(* rmdir, first transaction: the guards hold for a directory that is       *)
(* found.                                                                  *)
LEMMA RmdirKeeps ==
  ASSUME VolumeInv, NEW p \in Dirs(store), NEW i \in Below(p), Rmdir(p, i), ~Exposed'
  PROVE  Advances
<1> DEFINE o == [do |-> "rmdir", begun |-> TRUE, dir |-> p, ino |-> i]
           tx == FreeBlk(store, DirBlk(store, i))
<1>1. Going(store, Idle) /\ Sound(store) /\ op = Idle
  BY DEF VolumeInv, Rmdir, Ready, Going
<1>2. i \in Dirs(store) /\ Children(store, i) = {} /\ Commit("rmdir", tx, o)
  BY <1>1, BelowFacts DEF Rmdir, Dirs
<1>3. PICK k \in Places : At(store, p, k) = i
  BY <1>1, BelowFacts
<1>4. Proceeds(store, op, tx, o)
  BY <1>1, <1>2, <1>3, RmdirProceeds
<1> HIDE DEF o, tx
<1> QED BY <1>2, <1>4, CommitStep

(* rmdir, second transaction.                                              *)
LEMMA RmdirFinishKeeps ==
  ASSUME VolumeInv, RmdirFinish, ~Exposed'
  PROVE  Advances
<1> DEFINE tx == RmdirTx2(store, op.dir, op.ino)
<1>1. Going(store, op) /\ op.do = "rmdir" /\ Commit("rmdir", tx, Idle)
  BY DEF VolumeInv, RmdirFinish
<1>2. Proceeds(store, op, tx, Idle)
  BY <1>1, RmdirEndsProceeds
<1> HIDE DEF tx
<1> QED BY <1>1, <1>2, CommitStep

(* An operation that has only read.                                        *)
LEMMA BeginStep ==
  ASSUME VolumeInv, op = Idle, NEW o, Begin(o), Going(store, o), NEW i, BeginsAt(store, o, i)
  PROVE  Advances
<1>1. StaysTidy(store, op, store, o) /\ StaysFilled(store, op, store, o)
  BY BeginProceeds
<1> QED BY <1>1, SameTold DEF VolumeInv, Begin, Advances

(* unlink begins to read.                                                  *)
LEMMA UnlinkKeeps ==
  ASSUME VolumeInv, NEW p \in Dirs(store), NEW i \in Below(p), Unlink(p, i)
  PROVE  Advances
<1> DEFINE o == [do |-> "unlink", begun |-> FALSE, dir |-> p, ino |-> i,
                 todo |-> Counted(Inode(store, i).ext)]
<1>1. Going(store, Idle) /\ Sound(store) /\ op = Idle
  BY DEF VolumeInv, Unlink, Ready, Going
<1>2. i \in Files(store) /\ Begin(o)
  BY <1>1, BelowFacts DEF Unlink
<1>3. PICK k \in Places : At(store, p, k) = i
  BY <1>1, BelowFacts
<1>4. Going(store, o)
  BY <1>1, <1>2, <1>3, UnlinkBegins
<1>5. BeginsAt(store, o, i)
  BY DEF BeginsAt, Spared
<1> HIDE DEF o
<1> QED BY <1>1, <1>2, <1>4, <1>5, BeginStep

(* unlink frees a block.                                                   *)
LEMMA UnlinkFreeKeeps ==
  ASSUME VolumeInv, UnlinkFree, ~Exposed'
  PROVE  Advances
<1>1. Going(store, op) /\ op.do = "unlink"
  BY DEF VolumeInv, UnlinkFree
<1>2. PICK m \in op.todo : Commit("unlink", FreeBlk(store, m.pb), [op EXCEPT !.todo = @ \ {m}, !.begun = TRUE])
  BY DEF UnlinkFree
<1> DEFINE tx == FreeBlk(store, m.pb)
           o == [op EXCEPT !.todo = @ \ {m}, !.begun = TRUE]
<1>3. Proceeds(store, op, tx, o)
  BY <1>1, UnlinkFreesProceeds
<1>4. Commit("unlink", tx, o)
  BY <1>2
<1> HIDE DEF tx, o
<1> QED BY <1>3, <1>4, CommitStep

(* unlink, last transaction.                                               *)
LEMMA UnlinkFinishKeeps ==
  ASSUME VolumeInv, UnlinkFinish, ~Exposed'
  PROVE  Advances
<1> DEFINE tx == UnlinkTx(store, op.dir, op.ino)
<1>1. Going(store, op) /\ op.do = "unlink" /\ Commit("unlink", tx, Idle)
  BY DEF VolumeInv, UnlinkFinish
<1>2. Proceeds(store, op, tx, Idle)
  BY <1>1, UnlinkEndsProceeds DEF UnlinkFinish
<1> HIDE DEF tx
<1> QED BY <1>1, <1>2, CommitStep

(* truncate begins to read.                                                *)
LEMMA TruncateKeeps ==
  ASSUME VolumeInv, NEW p \in Dirs(store), NEW i \in Below(p), NEW n \in 0 .. MaxSize, Truncate(i, n)
  PROVE  Advances
<1> DEFINE x == Inode(store, i).ext
           o == [do |-> "truncate", begun |-> FALSE, ino |-> i, size |-> n, ext |-> Kept(x, n),
                 todo |-> Doomed(x, n), freed |-> Cardinality(Doomed(x, n))]
<1>1. Going(store, Idle) /\ Sound(store) /\ op = Idle
  BY DEF VolumeInv, Truncate, Ready, Going
<1>2. i \in Files(store) /\ Begin(o) /\ n \in Nat
  BY <1>1, BelowFacts, BoundsAssumption DEF Truncate
<1>3. PICK k \in Places : At(store, p, k) = i
  BY <1>1, BelowFacts
<1>4. Going(store, o)
  BY <1>1, <1>2, <1>3, TruncateBegins
<1>5. BeginsAt(store, o, i)
  <2>1. Inode(store, i) \in Node
    BY <1>1, <1>2, SoundFacts, TableFacts DEF Files
  <2>2. Inode(store, i).size \in Nat /\ n <= Inode(store, i).size
    BY <1>2, <2>1 DEF Node, Truncate
  <2>3. \A m \in Counted(x) : m.lb \in Nat
    <3>1. x \in Extents
      BY <2>1 DEF Node
    <3> HIDE DEF x
    <3> QED BY <3>1, CountedIs DEF Extent
  <2>4. BlocksFor(n) \in Nat
    BY <1>2, BlocksForIs
  <2>5. \A m \in Counted(x) : m \in Doomed(x, n) \/ m.lb < BlocksFor(n)
    BY <2>3, <2>4 DEF Doomed
  <2> QED BY <2>2, <2>5 DEF BeginsAt, Spared
<1> HIDE DEF o
<1> QED BY <1>1, <1>2, <1>4, <1>5, BeginStep

(* truncate frees a block.                                                 *)
LEMMA TruncateFreeKeeps ==
  ASSUME VolumeInv, TruncateFree, ~Exposed'
  PROVE  Advances
<1>1. Going(store, op) /\ op.do = "truncate"
  BY DEF VolumeInv, TruncateFree
<1>2. PICK m \in op.todo : Commit("truncate", FreeBlk(store, m.pb), [op EXCEPT !.todo = @ \ {m}, !.begun = TRUE])
  BY DEF TruncateFree
<1> DEFINE tx == FreeBlk(store, m.pb)
           o == [op EXCEPT !.todo = @ \ {m}, !.begun = TRUE]
<1>3. Proceeds(store, op, tx, o)
  BY <1>1, TruncateFreesProceeds
<1>4. Commit("truncate", tx, o)
  BY <1>2
<1> HIDE DEF tx, o
<1> QED BY <1>3, <1>4, CommitStep

(* truncate, last transaction.                                             *)
LEMMA TruncateFinishKeeps ==
  ASSUME VolumeInv, TruncateFinish, ~Exposed'
  PROVE  Advances
<1> DEFINE tx == TruncateTx(store, op.ino, op.size, op.ext, op.freed)
<1>1. Going(store, op) /\ op.do = "truncate" /\ Commit("truncate", tx, Idle)
  BY DEF VolumeInv, TruncateFinish
<1>2. Proceeds(store, op, tx, Idle)
  BY <1>1, TruncateEndsProceeds DEF TruncateFinish
<1> HIDE DEF tx
<1> QED BY <1>1, <1>2, CommitStep

(* A file is extended.                                                     *)
LEMMA ExtendKeeps ==
  ASSUME VolumeInv, NEW p \in Dirs(store), NEW i \in Below(p), NEW n \in 1 .. Unit, Extend(i, n), ~Exposed'
  PROVE  Advances
<1> DEFINE c == Inode(store, i)
<1>1. Going(store, Idle) /\ Sound(store) /\ op = Idle
  BY DEF VolumeInv, Extend, Ready, Going
<1>2. i \in Files(store) \cap Numbers(store) /\ EndsInLastBlock(c) /\ c.size + n <= MaxSize
  BY <1>1, BelowFacts, BelowNumbers DEF Extend
<1>3. PICK b \in Candidates(store, c) : Commit("extend", ExtendTx(store, c, i, b, n), Idle)
  BY DEF Extend
<1> DEFINE tx == ExtendTx(store, c, i, b, n)
<1>4. Proceeds(store, op, tx, Idle)
  BY <1>1, <1>2, ExtendProceeds
<1>5. Commit("extend", tx, Idle)
  BY <1>3
<1> HIDE DEF tx
<1> QED BY <1>4, <1>5, CommitStep

(* A block of a file is written.                                           *)
LEMMA WriteKeeps ==
  ASSUME VolumeInv, NEW p \in Dirs(store), NEW i \in Below(p), WriteBlock(i), ~Exposed'
  PROVE  Advances
<1>1. Going(store, Idle) /\ Sound(store) /\ op = Idle
  BY DEF VolumeInv, WriteBlock, Ready, Going
<1>2. i \in Files(store) \cap Numbers(store)
  BY <1>1, BelowFacts, BelowNumbers DEF WriteBlock
<1>3. PICK m \in Mapped(Inode(store, i).ext) : Commit("write", WriteTx(store, i, m.pb), Idle)
  BY DEF WriteBlock
<1> DEFINE tx == WriteTx(store, i, m.pb)
<1>4. Proceeds(store, op, tx, Idle)
  BY <1>1, <1>2, WriteProceeds
<1>5. Commit("write", tx, Idle)
  BY <1>3
<1> HIDE DEF tx
<1> QED BY <1>4, <1>5, CommitStep

(* A name changes in its directory.                                        *)
LEMMA RenameKeeps ==
  ASSUME VolumeInv, NEW p \in Dirs(store), NEW i \in Below(p), NEW n \in Name, Rename(p, i, n), ~Exposed'
  PROVE  Advances
<1> DEFINE tx == RenameTx(store, p, i, n)
<1>1. Going(store, Idle) /\ Sound(store) /\ op = Idle
  BY DEF VolumeInv, Rename, Ready, Going
<1>2. Lookup(store, p, n) = {} /\ Commit("rename", tx, Idle)
  BY DEF Rename
<1>3. PICK k \in Places : At(store, p, k) = i
  BY <1>1, BelowFacts
<1>4. i \in Ino
  BY <1>1, BelowFacts
<1>5. Proceeds(store, op, tx, Idle)
  BY <1>1, <1>2, <1>3, <1>4, RenameStep, NamesProceed DEF Shifted
<1> HIDE DEF tx
<1> QED BY <1>2, <1>5, CommitStep

(* A name moves to another directory.                                      *)
LEMMA RenameXdirKeeps ==
  ASSUME VolumeInv, NEW p \in Dirs(store), NEW i \in Below(p), NEW q \in Dirs(store) \ {p},
         NEW n \in Name, RenameXdir(p, i, q, n), ~Exposed'
  PROVE  Advances
<1> DEFINE tx == RenameXdirTx(store, p, i, q, n)
<1>1. Going(store, Idle) /\ Sound(store) /\ op = Idle
  BY DEF VolumeInv, RenameXdir, Ready, Going
<1>2. Commit("rename", tx, Idle)
  BY DEF RenameXdir
<1>3. PICK k \in Places : At(store, p, k) = i
  BY <1>1, BelowFacts
<1>4. Moving(store, p, k, i, q, n)
  <2>1. i \in Ino /\ (IsFile(i) <=> i \in Files(store))
    BY <1>1, BelowFacts
  <2> QED BY <1>3, <2>1 DEF Moving, RenameXdir, Free, Dirs
<1>5. Proceeds(store, op, tx, Idle)
  BY <1>1, <1>4, RenameXdirStep, NamesProceed DEF Shifted
<1> HIDE DEF tx
<1> QED BY <1>2, <1>5, CommitStep

(* An operation is left between two of its transactions.                   *)
LEMMA LeftKeeps ==
  ASSUME VolumeInv, MkdirNoSpace \/ Interrupt, ~Exposed'
  PROVE  Advances
<1>1. store' = store /\ op' = Idle /\ dirty' = dirty /\ faults' \in 0 .. MaxFaults
  BY BoundsAssumption DEF VolumeInv, MkdirNoSpace, Interrupt
<1>2. Losing(op) = {}
  BY DEF Losing, Freeing, Exposed, MkdirNoSpace, Interrupt, Abandoned
<1>3. Going(store, Idle)
  BY <1>2, LeftThere DEF VolumeInv
<1>4. interrupted' = {} => StaysTidy(store, op, store', op')
  <2> SUFFICES ASSUME interrupted' = {} PROVE StaysTidy(store, op, store, Idle)
    BY <1>1
  <2>1. Interrupt /\ ~op.begun
    BY DEF MkdirNoSpace, Interrupt, Abandoned
  <2>2. op.do # "mkdir"
    <3>1. Going(store, op)
      BY DEF VolumeInv
    <3> QED BY <2>1, <3>1, WhichGoes DEF MkdirGoing
  <2> QED BY <2>2, LeftProceeds DEF Making
<1>5. StaysFilled(store, op, store', op')
  BY <1>1, LeftProceeds
<1> QED BY <1>1, <1>3, <1>4, <1>5, SameTold DEF VolumeInv, Advances

-----------------------------------------------------------------------------
(* VolumeInv holds at first and after every step.                          *)
LEMMA VolumeInit ==
  ASSUME Init
  PROVE  VolumeInv
<1>1. Going(store, op)
  BY ImagesAssumption DEF Init
<1>2. dirty \in BOOLEAN
  BY DEF Init
<1>3. faults \in 0 .. MaxFaults
  BY BoundsAssumption DEF Init
<1> QED BY <1>1, <1>2, <1>3 DEF VolumeInv

(* Every step of the program keeps it, unless the step is a disorder.      *)
LEMMA VolumeStep ==
  ASSUME VolumeInv, [Next]_vars, ~Exposed'
  PROVE  Advances
<1>1. ASSUME NEW p \in Dirs(store), NEW n \in Name, Create(p, n) \/ Mkdir(p, n) PROVE Advances
  BY <1>1, CreateKeeps, MkdirKeeps
<1>2. ASSUME NEW p \in Dirs(store), NEW i \in Below(p),
             \/ Rmdir(p, i) \/ Unlink(p, i)
             \/ \E n \in 0 .. MaxSize : Truncate(i, n)
             \/ \E n \in 1 .. Unit : Extend(i, n)
             \/ WriteBlock(i)
             \/ \E n \in Name : Rename(p, i, n)
             \/ \E q \in Dirs(store) \ {p}, n \in Name : RenameXdir(p, i, q, n)
      PROVE  Advances
  BY <1>2, RmdirKeeps, UnlinkKeeps, TruncateKeeps, ExtendKeeps, WriteKeeps, RenameKeeps,
     RenameXdirKeeps
<1>3. CASE MkdirWire \/ MkdirNoSpace \/ RmdirFinish
  BY <1>3, MkdirWireKeeps, LeftKeeps, RmdirFinishKeeps
<1>4. CASE UnlinkFree \/ UnlinkFinish \/ TruncateFree \/ TruncateFinish
  BY <1>4, UnlinkFreeKeeps, UnlinkFinishKeeps, TruncateFreeKeeps, TruncateFinishKeeps
<1>5. CASE Interrupt
  BY <1>5, LeftKeeps
<1>6. CASE Remount
  BY <1>6, SameTold DEF Remount, VolumeInv, Advances
<1>7. CASE UNCHANGED vars
  BY <1>7, SameTold DEF vars, VolumeInv, Advances
<1> QED BY <1>1, <1>2, <1>3, <1>4, <1>5, <1>6, <1>7 DEF Next

(* Until a disorder happens, the volume is sound and the operation under   *)
(* way may go on, between any two transactions, whatever fails.            *)
THEOREM VolumeInvariant == Spec => []FileInv
<1>1. Init => FileInv
  BY VolumeInit DEF FileInv
<1>2. FileInv /\ [Next]_vars => FileInv'
  <2> SUFFICES ASSUME FileInv, [Next]_vars, ~Exposed' PROVE VolumeInv'
    BY DEF FileInv
  <2>1. ~Exposed
    BY StillCalm
  <2>2. VolumeInv
    BY <2>1 DEF FileInv
  <2> QED BY <2>2, VolumeStep DEF Advances
<1> QED BY <1>1, <1>2, PTL DEF Spec

-----------------------------------------------------------------------------
(* What follows of the properties the runs check.                          *)

(* A set without two members.                                              *)
LEMMA OneAtMost ==
  ASSUME NEW S, \A i, j \in S : i = j
  PROVE  Cardinality(S) <= 1
<1>1. CASE S = {}
  BY <1>1, FS_EmptySet
<1>2. CASE S # {}
  <2>1. PICK x \in S : S = {x}
    BY <1>2
  <2>2. Cardinality({x}) = 1
    BY FS_Singleton
  <2> QED BY <2>1, <2>2
<1> QED BY <1>1, <1>2

(* No block is in two places, and none in use is free.                     *)
LEMMA VolumeOwns ==
  ASSUME FileInv
  PROVE  BlocksOwnedOnce
<1> SUFFICES ASSUME ~Exposed
             PROVE  /\ NoBlockShared
                    /\ \A i \in InUse(store) : \A m, k \in Counted(Inode(store, i).ext) : m.pb = k.pb => m = k
                    /\ \A i \in InUse(store) : Claims(Inode(store, i).ext) \cap Meta = {}
                    /\ \A i \in InUse(store) \ Target : Claims(Inode(store, i).ext) \subseteq Taken(store)
  BY DEF BlocksOwnedOnce
<1>1. Owning(store) /\ AllTaken(store, Losing(op))
  BY SoundFacts DEF FileInv, VolumeInv, Going
<1>2. NoBlockShared
  <2> SUFFICES ASSUME NEW b \in Blk PROVE Cardinality(Owner(b)) <= 1
    BY DEF NoBlockShared
  <2>1. \A i, j \in Owner(b) : i = j
    BY <1>1 DEF Owner, Owning, Holds
  <2> QED BY <2>1, OneAtMost
<1>3. \A i \in InUse(store) \ Target : Claims(Inode(store, i).ext) \subseteq Taken(store)
  BY <1>1 DEF AllTaken, Holds, Target, Losing
<1> QED BY <1>1, <1>2, <1>3 DEF Owning, Once, Holds

(* What is below a directory by its entries is below it by the ".." there. *)
LEMMA SubdirsAreUnder ==
  ASSUME Sound(store), NEW p \in Dirs(store)
  PROVE  Subdirs(p) = Under(Dirs(store), Held(store), p)
<1> DEFINE D == Dirs(store)
           E == Held(store)
<1>1. TreeOn(D, E, Files(store), LinksOf(store))
  BY SoundFacts
<1>2. ASSUME NEW c \in Subdirs(p) PROVE c \in Under(D, E, p)
  <2>1. PICK e \in Children(store, p) : IsDir(store, e.ino) /\ e.ino = c
    BY DEF Subdirs
  <2>2. c \in Ino /\ \E k \in Places : At(store, p, k) = c
    BY <2>1, ChildSlot
  <2>3. PICK k \in Places : Occupied(D, E, p, k, c)
    BY <2>2, SlotFound
  <2>4. c \in D
    BY <2>1, <2>2 DEF Dirs
  <2> QED BY <1>1, <2>3, <2>4, NamedByParent DEF Under
<1>3. ASSUME NEW c \in Under(D, E, p) PROVE c \in Subdirs(p)
  <2>1. c \in D \ {Root} /\ E[c][2].ino = p
    BY DEF Under
  <2>2. PICK k \in Places : E[p][k].ino = c
    BY <1>1, <2>1 DEF TreeOn, TreeOf, Parents
  <2> DEFINE e == Ents(store, p)[k]
  <2>3. Ents(store, p) \in [Slot -> Record] /\ E[p] = Ents(store, p) /\ c \in Ino /\ k \in Slot
    BY <2>1, SoundFacts, DirFacts, SlotFacts
  <2>4. e \in Range(Ents(store, p)) /\ e.ino = c /\ e.ino # 0
    BY <2>2, <2>3, SlotFacts DEF Range
  <2>5. e.name \in Name
    BY <1>1, <2>3, <2>4 DEF TreeOn, TreeOf, Shape
  <2>6. e \in Children(store, p)
    <3>1. e.name # "." /\ e.name # ".."
      BY <2>5, PlainNames
    <3> HIDE DEF e
    <3> QED BY <2>4, <3>1 DEF Children
  <2>7. IsDir(store, e.ino)
    BY <2>1, <2>4, SoundFacts, DirFacts
  <2> HIDE DEF e
  <2> QED BY <2>4, <2>6, <2>7 DEF Subdirs
<1> QED BY <1>2, <1>3

(* An inode that a directory leads to has that one name.                   *)
LEMMA OneName ==
  ASSUME Sound(store), NEW i \in Named
  PROVE  /\ i \in Ino /\ i \in Dirs(store) \cup Files(store)
         /\ \E l \in Links(i) : Links(i) = {l} /\ (i \in Dirs(store) => DotDot(store, i) = l[1])
<1> DEFINE D == Dirs(store)
           E == Held(store)
           L == [name : Name, ino : {i}]
<1>1. TreeOn(D, E, Files(store), LinksOf(store))
  BY SoundFacts
<1>2. PICK p \in D : i \in Below(p)
  BY DEF Named
<1>3. i \in Ino /\ i \in D \cup Files(store) /\ i # 0
  BY <1>2, BelowFacts, SlotFacts
<1>4. PICK e \in Children(store, p) : e.ino = i
  BY <1>2 DEF Below
<1>5. \A q \in D : \A d \in Children(store, q) : \E k \in Places : E[q][k] = d
  BY ChildSlot DEF Held
<1>6. e \in L
  <2>1. PICK k \in Places : E[p][k] = e
    BY <1>5
  <2>2. e.name \in Name
    BY <1>1, <1>3, <1>4, <2>1 DEF TreeOn, TreeOf, Shape
  <2>3. e \in Record
    BY <2>1, SoundFacts, DirFacts, SlotFacts
  <2>4. PICK N, I : Record = [name : N, ino : I]
    BY Zenon DEF Record
  <2>5. e = [name |-> e.name, ino |-> i]
    BY <1>4, <2>3, <2>4
  <2> QED BY <2>2, <2>5
<1>7. ASSUME NEW q \in D, NEW d \in Children(store, q), d.ino = i PROVE q = p /\ d = e
  <2>1. PICK k \in Places : E[p][k] = e
    BY <1>5
  <2>2. PICK l \in Places : E[q][l] = d
    BY <1>5
  <2> QED BY <1>1, <1>3, <1>4, <1>7, <2>1, <2>2 DEF TreeOn, TreeOf, Unique
<1> DEFINE l == <<p, e>>
<1>8. l \in Links(i)
  BY <1>6 DEF Links
<1>9. \A x \in Links(i) : x = l
  <2> SUFFICES ASSUME NEW x \in Links(i) PROVE x = l
    OBVIOUS
  <2>1. x \in D \X L /\ x[2] \in Children(store, x[1])
    BY DEF Links
  <2>2. x = <<x[1], x[2]>> /\ x[1] \in D /\ x[2] \in L
    BY <2>1
  <2>3. x[2].ino = i
    BY <2>2
  <2>4. x[1] = p /\ x[2] = e
    BY <1>7, <2>1, <2>2, <2>3
  <2> QED BY <2>2, <2>4
<1>10. i \in D => DotDot(store, i) = p
  <2> SUFFICES ASSUME i \in D PROVE DotDot(store, i) = p
    OBVIOUS
  <2>1. PICK k \in Places : At(store, p, k) = i
    BY <1>2, BelowFacts
  <2>2. Occupied(D, E, p, k, i)
    BY <1>3, <2>1, SlotFound
  <2>3. E[i][2].ino = p
    BY <1>1, <2>2, NamedByParent
  <2> QED BY <2>3 DEF Held, DotDot
<1> QED BY <1>3, <1>8, <1>9, <1>10

(* The names form a tree.                                                  *)
LEMMA VolumeTree ==
  ASSUME FileInv
  PROVE  TreeSound
<1> SUFFICES ASSUME ~Exposed
             PROVE  /\ Named \subseteq InUse(store)
                    /\ \A i \in Named : IsDir(store, i) \/ IsFile(i)
                    /\ \A i \in Named : IsFile(i) => Inode(store, i).links = Cardinality(Links(i))
                    /\ \A p \in Dirs(store) :
                         /\ Inode(store, p).links = 2 + Cardinality(Subdirs(p))
                         /\ Ents(store, p)[1] = Entry(p, ".")
                         /\ p # Root => \E l \in Links(p) : Links(p) = {l} /\ DotDot(store, p) = l[1]
                         /\ \A e, d \in Children(store, p) : e.name = d.name => e = d
                    /\ \A S \in SUBSET Dirs(store) :
                         S # {} /\ (\A p \in S \ {Root} : DotDot(store, p) \in S) => Root \in S
  BY DEF TreeSound
<1> DEFINE D == Dirs(store)
           E == Held(store)
           F == Files(store)
<1>1. Sound(store)
  BY DEF FileInv, VolumeInv, Going
<1>2. TreeOf(D, E, F, LinksOf(store)) /\ D \subseteq InUse(store) /\ F \subseteq InUse(store)
      /\ InUse(store) \subseteq Ino /\ F \cap D = {}
  BY <1>1, SoundFacts DEF Rooted
<1>3. \A p \in D : E[p] = Ents(store, p) /\ IsDir(store, p)
  BY <1>1, SoundFacts, DirFacts
<1>4. ASSUME NEW i \in Named
      PROVE  /\ i \in InUse(store)
             /\ IsDir(store, i) \/ IsFile(i)
             /\ IsFile(i) => Inode(store, i).links = Cardinality(Links(i))
  <2>1. i \in Ino /\ i \in D \cup F /\ \E l \in Links(i) : Links(i) = {l}
    BY <1>1, OneName
  <2>2. Cardinality(Links(i)) = 1
    BY <2>1, FS_Singleton
  <2>3. IsFile(i) <=> i \in F
    BY <1>1, <1>2, <2>1, SoundFacts, DirFacts DEF IsFile, Files
  <2>4. i \in F => Inode(store, i).links = 1
    BY <1>2, <2>1 DEF TreeOf, Linked, LinksOf
  <2> QED BY <1>2, <1>3, <2>1, <2>2, <2>3, <2>4
<1>5. ASSUME NEW p \in D
      PROVE  /\ Inode(store, p).links = 2 + Cardinality(Subdirs(p))
             /\ Ents(store, p)[1] = Entry(p, ".")
  <2>1. LinksOf(store)[p] = 2 + Cardinality(Under(D, E, p)) /\ E[p][1] = Entry(p, ".")
    BY <1>2 DEF TreeOf, Linked, Shape
  <2>2. Subdirs(p) = Under(D, E, p)
    BY <1>1, SubdirsAreUnder
  <2> QED BY <1>2, <1>3, <2>1, <2>2 DEF LinksOf
<1>6. ASSUME NEW p \in D, p # Root
      PROVE  \E l \in Links(p) : Links(p) = {l} /\ DotDot(store, p) = l[1]
  <2>1. E[p][2].ino \in D /\ p \in Under(D, E, E[p][2].ino)
    BY <1>2, <1>6 DEF TreeOf, Shape, Under
  <2>2. p \in Subdirs(E[p][2].ino)
    BY <1>1, <2>1, SubdirsAreUnder
  <2>3. p \in Named
    BY <2>1, <2>2 DEF Subdirs, Named, Below
  <2> QED BY <1>1, <2>3, OneName
<1>7. ASSUME NEW p \in D, NEW e \in Children(store, p), NEW d \in Children(store, p), e.name = d.name
      PROVE  e = d
  <2>1. PICK k \in Places : E[p][k] = e
    BY <1>1, <1>3, ChildSlot
  <2>2. PICK l \in Places : E[p][l] = d
    BY <1>1, <1>3, ChildSlot
  <2>3. e.ino # 0 /\ d.ino # 0
    BY DEF Children
  <2> QED BY <1>2, <1>7, <2>1, <2>2, <2>3 DEF TreeOf, Unique
<1>8. \A S \in SUBSET D :
        S # {} /\ (\A p \in S \ {Root} : DotDot(store, p) \in S) => Root \in S
  BY <1>2, <1>3 DEF TreeOf, LeadUp, DotDot
<1> QED BY <1>4, <1>5, <1>6, <1>7, <1>8

(* Every block and every counter keeps its type.                           *)
LEMMA VolumeTypes ==
  ASSUME FileInv, ~Exposed
  PROVE  TypeOK
<1>1. Sound(store) /\ Doing(store, op) /\ dirty \in BOOLEAN /\ faults \in 0 .. MaxFaults
  BY DEF FileInv, VolumeInv, Going
<1>2. Maps(store) /\ Tables(store) /\ DOMAIN store = BlockName
  BY <1>1, SoundFacts DEF Whole
<1>3. ASSUME NEW i \in Ino
      PROVE  /\ DOMAIN Inode(store, i) = DOMAIN Blank
             /\ Inode(store, i).kind \in {"free", "file", "dir"}
             /\ Range(Inode(store, i).ext) \subseteq [lb : Nat, len : Nat, pb : Blk]
             /\ Len(Inode(store, i).ext) <= MaxExt
  <2> DEFINE n == Inode(store, i)
             x == n.ext
  <2>1. n \in Node
    BY <1>2, TableFacts
  <2>2. DOMAIN n = DOMAIN Blank
    <3>1. Blank \in Node
      BY NewNodes
    <3>2. \A u \in Node : DOMAIN u = {"kind", "links", "size", "nblk", "ext"}
      BY DEF Node
    <3> QED BY <2>1, <3>1, <3>2
  <2>3. n.kind \in {"free", "file", "dir"} /\ x \in Extents
    BY <2>1 DEF Node
  <2> HIDE DEF x
  <2>4. Range(x) \subseteq [lb : Nat, len : Nat, pb : Blk] /\ Len(x) <= MaxExt
    BY <2>3, CountedIs DEF Range, Extent
  <2> QED BY <2>2, <2>3, <2>4 DEF x
<1>4. op.do \in {"idle", "mkdir", "rmdir", "unlink", "truncate"}
  BY <1>1 DEF Doing, Idle, MkdirGoing, RmdirGoing, UnlinkGoing, TruncateGoing
<1>5. store[Sb] \in [fb : Nat, fi : Nat]
      /\ store[Bgd] \in [Group -> [fb : Nat, fi : Nat, dirs : Nat, unused : 0 .. InosPerGroup,
                                    uninit : SUBSET {"blocks", "inodes"}]]
  BY <1>2 DEF Maps, Descriptor
<1> QED BY <1>1, <1>2, <1>3, <1>4, <1>5 DEF TypeOK, Maps

(* Until a disorder happens every variable keeps its type.                 *)
THEOREM VolumeKeepsTypes == Spec => [](~Exposed => TypeOK)
  BY VolumeInvariant, VolumeTypes, PTL

(* No data block is given to two places, or given while it is in use       *)
(* (extent.c:883).                                                         *)
THEOREM BlocksStayOwnedOnce == Spec => []BlocksOwnedOnce
  BY VolumeInvariant, VolumeOwns, PTL

(* Group and superblock counters say what the bitmaps hold after every     *)
(* single transaction (extent.c:559, 1066, 1765, 1950).                    *)
THEOREM CountersStayRight == Spec => []CountersAgree
<1>1. FileInv => CountersAgree
  BY SoundFacts DEF FileInv, VolumeInv, Going, CountersAgree, Counting
<1> QED BY <1>1, VolumeInvariant, PTL

(* Names form a tree that leads up to the root, with the link counts it    *)
(* calls for, through crashes and half-done operations (extent.c:2511).    *)
THEOREM NamesStayATree == Spec => []TreeSound
  BY VolumeInvariant, VolumeTree, PTL

-----------------------------------------------------------------------------
(* The names a program sees change one whole operation at a time.          *)

(* What a program is told of a sound volume is what is behind its slots.   *)
LEMMA TreeShown ==
  ASSUME NEW s, Sound(s)
  PROVE  /\ UNION {{[dir |-> p, name |-> e.name, ino |-> e.ino] : e \in Children(s, p)}
                   : p \in Dirs(s)} = TreeIn(s)
         /\ UNION {{e.ino : e \in Children(s, p)} : p \in Dirs(s)} = Numbers(s)
<1>1. \A p \in Dirs(s) : \A e : e \in Children(s, p) <=>
        \E k \in Places : Held(s)[p][k].ino # 0 /\ Held(s)[p][k] = e
  <2> SUFFICES ASSUME NEW p \in Dirs(s), NEW e
               PROVE  e \in Children(s, p) <=>
                        \E k \in Places : Held(s)[p][k].ino # 0 /\ Held(s)[p][k] = e
    OBVIOUS
  <2>1. Ents(s, p) \in [Slot -> Record] /\ Held(s)[p] = Ents(s, p)
    BY SoundFacts, DirFacts
  <2>2. e \in Children(s, p) => \E k \in Places : Held(s)[p][k].ino # 0 /\ Held(s)[p][k] = e
    BY <2>1, ChildSlot, SlotFacts
  <2>3. ASSUME NEW k \in Places, Held(s)[p][k].ino # 0, Held(s)[p][k] = e
        PROVE  e \in Children(s, p)
    <3>1. e.name # "." /\ e.name # ".."
      BY <2>3, SoundFacts, PlainNames DEF Rooted, TreeOf, Shape
    <3>2. e \in Range(Ents(s, p)) /\ e.ino # 0
      BY <2>1, <2>3, SlotFacts DEF Range
    <3> QED BY <3>1, <3>2 DEF Children
  <2> QED BY <2>2, <2>3
<1>2. \A x : x \in TreeIn(s) <=> \E p \in Dirs(s) : \E e \in Children(s, p) : x = Line(p, e)
  BY <1>1, ToldIs DEF TreeIn
<1>3. UNION {{[dir |-> p, name |-> e.name, ino |-> e.ino] : e \in Children(s, p)}
             : p \in Dirs(s)} = TreeIn(s)
  BY <1>2 DEF Line
<1>4. UNION {{e.ino : e \in Children(s, p)} : p \in Dirs(s)} = Numbers(s)
  BY <1>2, LineFields DEF Numbers
<1> QED BY <1>3, <1>4

(* Every directory but the root is named, and files are what is named and  *)
(* not a directory.                                                        *)
LEMMA NumbersShown ==
  ASSUME NEW s, Sound(s)
  PROVE  /\ {p \in Dirs(s) : p = Root \/ p \in Numbers(s)} = Dirs(s)
         /\ {k \in Numbers(s) : Inode(s, k).kind = "file"} = Numbers(s) \cap Files(s)
<1>1. /\ TreeOn(Dirs(s), Held(s), Files(s), LinksOf(s))
      /\ \A p \in Dirs(s) : Inode(s, p).kind = "dir"
  BY SoundFacts, DirFacts
<1>2. ASSUME NEW p \in Dirs(s), p # Root PROVE p \in Numbers(s)
  <2>1. Held(s)[p][2].ino \in Dirs(s)
    BY <1>1 DEF TreeOn, TreeOf, Shape
  <2>2. PICK k \in Places : Held(s)[Held(s)[p][2].ino][k].ino = p
    BY <1>1, <1>2 DEF TreeOn, TreeOf, Parents
  <2> DEFINE q == Held(s)[p][2].ino
             x == Line(q, Held(s)[q][k])
  <2>3. p # 0
    BY <1>1, SlotFacts DEF TreeOn
  <2>4. x \in TreeIn(s) /\ x.ino = p
    BY <2>1, <2>2, <2>3, ToldIs, LineFields DEF TreeIn
  <2> HIDE DEF x
  <2> QED BY <2>4 DEF Numbers
<1>3. Numbers(s) \subseteq Dirs(s) \cup Files(s)
  BY <1>1, ToldOn DEF Numbers, TreeIn
<1>4. \A i \in Files(s) : Inode(s, i).kind = "file"
  BY DEF Files
<1> QED BY <1>1, <1>2, <1>3, <1>4

(* What a step does to what a program is told is one action of the view.   *)
LEMMA ViewSteps ==
  ASSUME Sound(store), Sound(store'), NamesGo(store, store')
  PROVE  View!Next \/ UNCHANGED << Tree, Sizes >>
<1> DEFINE D == {p \in Dirs(store) : p = Root \/ p \in Named}
<1>1. Tree = TreeIn(store) /\ Named = Numbers(store)
  BY TreeShown DEF Tree, Named, Below
<1>2. Tree' = TreeIn(store') /\ Named' = Numbers(store')
  BY TreeShown DEF Tree, Named, Below
<1>3. Sizes = SizesIn(store) /\ Sizes' = SizesIn(store')
  BY <1>1, <1>2, NumbersShown DEF Sizes, SizesIn, IsFile
<1>4. D = Dirs(store) /\ D' = Dirs(store')
  BY <1>1, <1>2, NumbersShown
<1>5. CASE Alike(store, store')
  BY <1>1, <1>2, <1>3, <1>5 DEF Alike
<1>6. View!Named = Numbers(store)
  BY <1>1 DEF View!Named, Numbers
<1> HIDE DEF D
<1>7. ASSUME NEW i, NEW n, Resized(store, store', i, n)
      PROVE  View!Next \/ UNCHANGED << Tree, Sizes >>
  <2>1. i \in DOMAIN Sizes \cap DOMAIN Sizes' /\ Sizes' = [Sizes EXCEPT ![i] = Sizes'[i]]
    BY <1>3, <1>7 DEF Resized
  <2>2. View!Resize(i, Sizes'[i])
    BY <1>1, <1>2, <1>4, <1>7, <2>1 DEF View!Resize, Resized, D
  <2> QED BY <2>1, <2>2 DEF View!Next
<1>8. ASSUME NEW p, NEW n, NEW i, Created(store, store', p, n, i)
      PROVE  View!Next
  <2> DEFINE e == [dir |-> p, name |-> n, ino |-> i]
  <2>1. e.dir = p /\ e.name = n /\ e.ino = i /\ e = View!Entry(p, n, i)
    BY DEF View!Entry
  <2>2. e \in Tree' \ Tree
    BY <1>1, <1>2, <1>8, <2>1 DEF Created, Untold
  <2>3. View!Create(p, n, i)
    BY <1>1, <1>2, <1>3, <1>4, <1>6, <1>8, <2>1 DEF View!Create, View!FreeName, Created, Untold, D
  <2> HIDE DEF e
  <2> QED BY <2>1, <2>2, <2>3 DEF View!Next
<1>9. ASSUME NEW p, NEW n, NEW i, Made(store, store', p, n, i)
      PROVE  View!Next
  <2> DEFINE e == [dir |-> p, name |-> n, ino |-> i]
  <2>1. e.dir = p /\ e.name = n /\ e.ino = i /\ e = View!Entry(p, n, i)
    BY DEF View!Entry
  <2>2. e \in Tree' \ Tree
    BY <1>1, <1>2, <1>9, <2>1 DEF Made, Untold
  <2>3. View!Mkdir(p, n, i)
    BY <1>1, <1>2, <1>3, <1>4, <1>6, <1>9, <2>1 DEF View!Mkdir, View!FreeName, Made, Untold, D
  <2> HIDE DEF e
  <2> QED BY <2>1, <2>2, <2>3 DEF View!Next
<1>10. ASSUME NEW x, Unlinked(store, store', x)
       PROVE  View!Next
  <2>1. x \in Tree \ Tree'
    BY <1>1, <1>2, <1>10 DEF Unlinked
  <2>2. View!Delete(x)
    BY <1>1, <1>2, <1>3, <1>4, <1>10 DEF View!Delete, Unlinked, D
  <2> QED BY <2>1, <2>2 DEF View!Next
<1>11. ASSUME NEW x, Removed(store, store', x)
       PROVE  View!Next
  <2>1. x \in Tree \ Tree'
    BY <1>1, <1>2, <1>11 DEF Removed
  <2>2. View!Rmdir(x)
    BY <1>1, <1>2, <1>3, <1>4, <1>11 DEF View!Rmdir, Removed, D
  <2> QED BY <2>1, <2>2 DEF View!Next
<1>12. ASSUME NEW x, NEW q, NEW n, Renamed(store, store', x, q, n)
       PROVE  View!Next
  <2> DEFINE f == [dir |-> q, name |-> n, ino |-> x.ino]
  <2>1. f.dir = q /\ f.name = n /\ f = View!Entry(q, n, x.ino)
    BY DEF View!Entry
  <2>2. f \in Tree' \ Tree
    BY <1>1, <1>2, <1>12, <2>1 DEF Renamed, Untold
  <2>3. x \in Tree \ Tree'
    <3>1. x # f
      BY <1>1, <1>12, <2>2 DEF Renamed
    <3> QED BY <1>1, <1>2, <1>12, <3>1 DEF Renamed
  <2>4. View!Rename(x, q, n)
    BY <1>1, <1>2, <1>3, <1>4, <1>12, <2>1 DEF View!Rename, View!FreeName, Renamed, Untold, D
  <2> HIDE DEF f
  <2> QED BY <2>1, <2>2, <2>3, <2>4 DEF View!Next
<1> QED BY <1>5, <1>7, <1>8, <1>9, <1>10, <1>11, <1>12 DEF NamesGo

(* No step shows a program half an operation: a crash between two          *)
(* transactions leaves the names and sizes of before or after              *)
(* (extent.c:2510).                                                        *)
THEOREM NamesStayWhole == Spec => NamesChangeWhole
<1>1. FileInv /\ [Next]_vars => [Exposed' \/ View!Next]_<< Tree, Sizes >>
  <2> SUFFICES ASSUME FileInv, [Next]_vars, ~Exposed'
               PROVE  View!Next \/ UNCHANGED << Tree, Sizes >>
    OBVIOUS
  <2>1. ~Exposed
    BY StillCalm
  <2>2. VolumeInv
    BY <2>1 DEF FileInv
  <2>3. Advances
    BY <2>2, VolumeStep
  <2>4. Sound(store) /\ Sound(store') /\ NamesGo(store, store')
    BY <2>2, <2>3 DEF VolumeInv, Going, Advances
  <2> QED BY <2>4, ViewSteps
<1> QED BY <1>1, VolumeInvariant, PTL DEF Spec, NamesChangeWhole

-----------------------------------------------------------------------------
(* Nothing is lost, and files are the bytes written to them.               *)

(* As long as nothing was cut short, what is in use has a name.            *)
LEMMA TidyInvariant == Spec => []TidyInv
<1>1. Init => TidyInv
  BY TidyAssumption DEF Init, TidyInv
<1>2. FileInv /\ TidyInv /\ [Next]_vars => TidyInv'
  <2> SUFFICES ASSUME FileInv, TidyInv, [Next]_vars, interrupted' = {}, overlapped' = {}
               PROVE  Tidy(store', op')
    BY DEF TidyInv
  <2>1. interrupted = {} /\ overlapped = {}
    BY StillCalm
  <2>2. Tidy(store, op) /\ VolumeInv
    BY <2>1 DEF TidyInv, FileInv, Exposed
  <2>3. Advances
    BY <2>2, VolumeStep DEF Exposed
  <2> QED BY <2>2, <2>3 DEF Advances, StaysTidy
<1> QED BY <1>1, <1>2, VolumeInvariant, PTL DEF Spec

(* Files are complete until a disorder, if none can outgrow an extent.     *)
LEMMA FilledInvariant ==
  ASSUME Fitting
  PROVE  Spec => []FilledInv
<1>1. Init => FilledInv
  BY TidyAssumption DEF Init, FilledInv
<1>2. FileInv /\ FilledInv /\ [Next]_vars => FilledInv'
  <2> SUFFICES ASSUME FileInv, FilledInv, [Next]_vars, ~Exposed' PROVE Filled(store', op')
    BY DEF FilledInv
  <2>1. Filled(store, op) /\ VolumeInv
    BY StillCalm DEF FilledInv, FileInv
  <2>2. Advances
    BY <2>1, VolumeStep
  <2> QED BY <2>1, <2>2 DEF Advances, StaysFilled
<1> QED BY <1>1, <1>2, VolumeInvariant, PTL DEF Spec

(* What is tidy between operations has lost nothing.                       *)
LEMMA NothingLost ==
  ASSUME FileInv, TidyInv
  PROVE  NothingLeaks
<1> SUFFICES ASSUME Settled
             PROVE  /\ Taken(store) = Meta \cup UNION {Claims(Inode(store, i).ext) : i \in Named \cup {Root}}
                    /\ InUse(store) = Named \cup Reserved \cup {Root}
                    /\ \A i \in Ino \ InUse(store) : Inode(store, i) = Blank
                    /\ \A g \in Group : store[Bgd][g].dirs = Cardinality(Dirs(store) \cap InosOf(g))
  BY DEF NothingLeaks
<1>1. Going(store, Idle) /\ Tidy(store, Idle)
  BY DEF FileInv, VolumeInv, TidyInv, Settled, Exposed
<1>2. Sound(store) /\ AllTaken(store, {})
  BY <1>1, GoingSound, IdleIs
<1>3. Named = NamedIn(store)
  BY <1>2, TreeShown, NumbersAre DEF Named, Below
<1>4. Meta \subseteq Taken(store) /\ Root \in InUse(store)
  BY <1>2, SoundFacts, InodesAre DEF Owning, Rooted, TreeOf, Shape
<1>5. NamedIn(store) \subseteq InUse(store)
  BY <1>2, <1>3, OneName, InodesAre DEF Files
<1>6. /\ Reserved \subseteq InUse(store) /\ InUse(store) \subseteq NamedIn(store) \cup Reserved \cup {Root}
      /\ Taken(store) \subseteq Meta \cup UNION {StillHeld(store, Idle, i) : i \in InUse(store)}
      /\ \A i \in Reserved : Holds(store, i) = {}
      /\ \A i \in Ino \ InUse(store) : Inode(store, i) = Blank
      /\ \A g \in Group : store[Bgd][g].dirs = Cardinality(Dirs(store) \cap InosOf(g))
  <2>1. Dirs(store) \cup Making(Idle) = Dirs(store)
    BY IdleIs
  <2> QED BY <1>1, <2>1, IdleIs DEF Tidy
<1>7. \A i : StillHeld(store, Idle, i) \subseteq Holds(store, i)
  BY HeldStill
<1>8. \A i \in InUse(store) : Holds(store, i) \subseteq Taken(store)
  BY <1>2 DEF AllTaken
<1>9. Taken(store) = Meta \cup UNION {Holds(store, i) : i \in Named \cup {Root}}
  <2>1. ASSUME NEW b \in Taken(store), b \notin Meta
        PROVE  \E i \in Named \cup {Root} : b \in Holds(store, i)
    <3>1. PICK i \in InUse(store) : b \in Holds(store, i)
      BY <1>6, <1>7, <2>1
    <3>2. i \notin Reserved
      BY <1>6, <3>1
    <3> QED BY <1>3, <1>6, <3>1, <3>2
  <2>2. \A i \in Named \cup {Root} : Holds(store, i) \subseteq Taken(store)
    BY <1>3, <1>4, <1>5, <1>8
  <2> QED BY <1>4, <2>1, <2>2
<1> QED BY <1>3, <1>4, <1>5, <1>6, <1>9 DEF Holds

(* An allocated block or inode is never lost: as long as no operation was  *)
(* cut short, between operations what is taken is what can be reached from *)
(* the root (extent.c:883, 1937).                                          *)
THEOREM NothingStaysLost == Spec => []NothingLeaks
  BY VolumeInvariant, TidyInvariant, NothingLost, PTL

(* A complete file is found whole.                                         *)
LEMMA FoundWhole ==
  ASSUME NEW s, Sound(s), NEW i \in Files(s), Complete(s, i)
  PROVE  LET found == Mapped(Inode(s, i).ext) IN
         /\ {m.lb : m \in found} = {l \in 0 .. Cardinality(Blk) : l * Unit < Inode(s, i).size}
         /\ Cardinality(found) = Inode(s, i).nblk
         /\ \A m \in found : s[Data(m.pb)] = FileData(i)
<1> DEFINE c == Inode(s, i)
           x == c.ext
           B == BlocksFor(c.size)
<1>1. i \in Ino /\ i \in InUse(s) /\ c \in Node
  BY SoundFacts, InodesAre, TableFacts DEF Files
<1>2. x \in Extents /\ c.size \in Nat
  BY <1>1 DEF Node
<1>3. /\ B < LenBit /\ {m.lb : m \in Counted(x)} = 0 .. B - 1
      /\ c.nblk = Cardinality(Counted(x))
      /\ \A m \in Counted(x) : s[Data(m.pb)] = FileData(i)
  BY DEF Complete
<1>4. Once(x) /\ Claims(x) \subseteq Blk
  BY <1>1, CompleteHolds
<1>5. B \in Nat /\ \A l \in Nat : l < B <=> l * Unit < c.size
  BY <1>2, BlocksForIs
<1> HIDE DEF x, B, c
<1>6. ASSUME NEW e \in Range(x)
      PROVE  RealLen(e) = e.len
  <2>1. PICK k \in DOMAIN x : e = x[k]
    BY DEF Range
  <2>2. e \in Extent
    BY <1>2, <2>1, CountedIs
  <2>3. e.lb \in Nat /\ e.len \in Nat /\ e.len > 0
    BY <2>2 DEF Extent
  <2> DEFINE m == [lb |-> e.lb + (e.len - 1), pb |-> e.pb + (e.len - 1)]
  <2>4. m \in Counted(x)
    <3>1. e.len - 1 \in Nat /\ e.len - 1 < e.len
      BY <2>3
    <3> QED BY <1>2, <2>1, <3>1, CountedIs
  <2>5. m.lb = e.lb + (e.len - 1)
    OBVIOUS
  <2> HIDE DEF m
  <2>6. m.lb \in 0 .. B - 1
    BY <1>3, <2>4
  <2>7. e.len < LenBit
    BY <1>3, <1>5, <2>3, <2>5, <2>6, Geometry
  <2> QED BY <2>3, <2>7, Geometry DEF RealLen
<1>7. Mapped(x) = Counted(x)
  <2>1. {Run(e, RealLen(e)) : e \in Range(x)} = {Run(e, e.len) : e \in Range(x)}
    BY <1>6
  <2> QED BY <2>1 DEF Mapped, Counted
<1>8. B <= Cardinality(Blk)
  <2> DEFINE place(l) == CHOOSE m \in Counted(x) : m.lb = l
             f == [l \in 0 .. B - 1 |-> place(l).pb]
  <2>1. \A l \in 0 .. B - 1 : place(l) \in Counted(x) /\ place(l).lb = l
    BY <1>3
  <2>2. \A m \in Counted(x) : m.pb \in Blk
    BY <1>4 DEF Claims
  <2> HIDE DEF place
  <2>3. f \in Injection(0 .. B - 1, Blk)
    <3>1. f \in [0 .. B - 1 -> Blk]
      BY <2>1, <2>2
    <3>2. \A l, k \in 0 .. B - 1 : f[l] = f[k] => l = k
      BY <1>4, <2>1 DEF Once
    <3> QED BY <3>1, <3>2 DEF Injection, IsInjective
  <2> HIDE DEF f
  <2>4. Cardinality(0 .. B - 1) = B
    <3>1. 0 \in Int /\ B - 1 \in Int /\ (0 > B - 1 <=> B = 0) /\ B - 1 - 0 + 1 = B
      BY <1>5
    <3> QED BY <3>1, FS_Interval
  <2>5. Cardinality(0 .. B - 1) <= Cardinality(Blk)
    BY <2>3, Finite, FS_Injection
  <2> QED BY <2>4, <2>5
<1>9. {l \in 0 .. Cardinality(Blk) : l * Unit < c.size} = 0 .. B - 1
  <2>1. Cardinality(Blk) \in Nat
    BY Finite, FS_CardinalityType
  <2>2. \A l : l \in 0 .. Cardinality(Blk) /\ l * Unit < c.size <=> l \in 0 .. B - 1
    BY <1>5, <1>8, <2>1
  <2> QED BY <2>2
<1> QED BY <1>3, <1>7, <1>9 DEF x, c

(* What is complete is read whole.                                         *)
LEMMA FilesRead ==
  ASSUME FileInv, FilledInv
  PROVE  ReadsOwnData
<1> SUFFICES ASSUME ~Exposed, NEW i \in {k \in Named : IsFile(k)}
             PROVE  LET found == Mapped(Inode(store, i).ext) IN
                    /\ {m.lb : m \in found} = {l \in 0 .. Cardinality(Blk) : l * Unit < Inode(store, i).size}
                    /\ Cardinality(found) = Inode(store, i).nblk
                    /\ \A m \in found : store[Data(m.pb)] = FileData(i)
  BY DEF ReadsOwnData
<1>1. Sound(store)
  BY DEF FileInv, VolumeInv, Going
<1>2. i \in Files(store)
  <2>1. i \in Dirs(store) \cup Files(store)
    BY <1>1, OneName
  <2>2. i \notin Dirs(store)
    BY DEF IsFile, Dirs, IsDir
  <2> QED BY <2>1, <2>2
<1>3. Complete(store, i)
  BY <1>2 DEF FilledInv, Filled
<1> QED BY <1>1, <1>2, <1>3, FoundWhole

(* Every byte of a file lies in a block the lookup finds, and that block   *)
(* holds what was written to this file and to no other (extent.c:54), as   *)
(* long as no program lets a file grow until the length of an extent is    *)
(* taken for that of one without data.                                     *)
THEOREM FilesReadWhole ==
  ASSUME BlocksFor(MaxSize) < LenBit
  PROVE  Spec => []ReadsOwnData
<1>1. Spec => []FilledInv
  BY FilledInvariant DEF Fitting
<1> QED BY <1>1, VolumeInvariant, FilesRead, PTL
==============================================================================
