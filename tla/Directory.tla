------------------------------ MODULE Directory ------------------------------
(***************************************************************************)
(* Directories as blocks of records, and what the redirector's calls by    *)
(* path do to them (tsr.c, extent.c, htree.c).  A call is one step here:   *)
(* that its transactions may be cut apart is FileOps's matter, which inode *)
(* or block is free FsImage's.                                             *)
(*                                                                         *)
(* A hashed directory's first block holds ".", ".." and, hidden behind     *)
(* them, an index that says which leaf holds the names of a hash range.    *)
(* Directories never gain or lose blocks: the code refuses what does not   *)
(* fit.                                                                    *)
(***************************************************************************)
EXTENDS DirBlock

CONSTANTS
  Ino,       \* inodes, Root among them
  Spelled,   \* the names a DOS path can spell
  Hash,      \* the hash of a name
  Alias,     \* its 8.3 form
  Images     \* the volumes a history may begin with

Root == 2

ASSUME DirectoryAssumption ==
  /\ Ino \subseteq Nat \ {0} /\ IsFiniteSet(Ino) /\ Root \in Ino
  /\ Spelled \subseteq Name
  /\ Hash \in [Name -> Nat]
  /\ DOMAIN Alias = Name

VARIABLES
  dirs,      \* by inode: [hashed, levels, index, runs, blks]
  listing,   \* what dirs lists, by inode: kept beside it to be worked out once
  path,      \* the last component of the path DOS gave last (SDA + 9Eh)
  misplaced  \* history: what was renamed in place in a hashed directory

dirvars == <<dirs, listing, path, misplaced>>

-----------------------------------------------------------------------------
(* Reading.                                                                *)

\* entries of every directory, in the order of its blocks
Listings(ds) ==
  [p \in DOMAIN ds |->
     LET d == ds[p] IN FlattenSeq([k \in DOMAIN d.blks |-> Listed(d.blks[k])])]
Entries(p) == {c \in Range(listing[p]) : c.name \notin Dots}

\* the first entry of s with one of these names, 0 if there is none
FirstIno(s, names) ==
  LET at == {k \in DOMAIN s : s[k].name \in names} IN IF at = {} THEN 0 ELSE s[Min(at)].ino

\* ext4_dir_lookup, and the redirector's second try by 8.3 form
Exact(p, n) == FirstIno(listing[p], {n})
ByAlias(p, n) == FirstIno(listing[p], {m \in Name : Alias[m] = Alias[n]})
ResolveEither(p, n) == ByAlias(p, n)                          \* a seeded fault
Resolve(p, n) == IF Exact(p, n) # 0 THEN Exact(p, n) ELSE ByAlias(p, n)
AbsentExactly(p, n) == Exact(p, n) = 0                        \* a seeded fault
Absent(p, n) == Resolve(p, n) = 0

Tree ==
  UNION {{[dir |-> p, name |-> c.name, ino |-> c.ino] : c \in Entries(p)} :
         p \in DOMAIN dirs}
Named == {e.ino : e \in Tree}
UnusedInos == Ino \ (Named \cup {Root})

-----------------------------------------------------------------------------
(* The blocks an entry may go to.                                          *)

\* the last leaf whose hash is not above the name's; none if the index is deep
LeafBefore(d, n) ==                                           \* a seeded fault
  IF d.levels > 0 THEN {}
  ELSE LET past == {k \in 2 .. Len(d.index) : d.index[k].hash >= Hash[n]}
           k == IF past = {} THEN Len(d.index) ELSE Min(past) - 1
       IN {d.index[k].leaf + 1}

Leaf(d, n) ==
  IF d.levels > 0 THEN {}
  ELSE LET past == {k \in 2 .. Len(d.index) : d.index[k].hash > Hash[n]}
           k == IF past = {} THEN Len(d.index) ELSE Min(past) - 1
       IN {d.index[k].leaf + 1}

NewPlaces(d, n) ==
  {k \in IF d.hashed THEN Leaf(d, n) ELSE DOMAIN d.blks : Slots(d.blks[k], n) # {}}

\* a rename across directories looks at the first block of a linear one only
MovePlaces(d, n) ==
  {k \in IF d.hashed THEN Leaf(d, n) ELSE {1} : Slots(d.blks[k], n) # {}}

Put(d, k, n, i) == [d EXCEPT !.blks[k] = Inserted(@, n, i)]

(* The blocks an entry may be in: it is found by its inode.                *)
Holding(d, i) == {k \in DOMAIN d.blks : EntriesOf(d.blks[k], i) # {}}
MoveHolding(d, i) == Holding(d, i) \cap (IF d.hashed THEN DOMAIN d.blks \ {1} ELSE {1})

TakeOut(d, k, i) == [d EXCEPT !.blks[k] = Removed(@, i)]

-----------------------------------------------------------------------------
(* Calls.  n names the entry in the directory p, which the rest of the     *)
(* path leads to.                                                          *)

Create(p, n) ==
  /\ Absent(p, n)
  /\ NewPlaces(dirs[p], n) # {}
  /\ UnusedInos # {}
  /\ dirs' = [dirs EXCEPT ![p] = Put(@, Min(NewPlaces(@, n)), n, Min(UnusedInos))]
  /\ UNCHANGED misplaced

Mkdir(p, n) ==
  /\ Absent(p, n)
  /\ NewPlaces(dirs[p], n) # {}
  /\ UnusedInos # {}
  /\ LET i == Min(UnusedInos)
         new == [hashed |-> FALSE, levels |-> 0, index |-> << >>, runs |-> 1,
                 blks |-> << FreshBlock(i, p) >>]
         put == [dirs EXCEPT ![p] = Put(@, Min(NewPlaces(@, n)), n, i)]
     IN dirs' = [k \in DOMAIN dirs \cup {i} |-> IF k = i THEN new ELSE put[k]]
  /\ UNCHANGED misplaced

Delete(p, n) ==
  LET i == Resolve(p, n) IN
  /\ i \notin DOMAIN dirs \cup {0}
  /\ dirs' = [dirs EXCEPT ![p] = TakeOut(@, Min(Holding(@, i)), i)]
  /\ misplaced' = misplaced \ {i}

\* only the first block is looked at, and only that block is freed
LooksEmpty(d) ==
  \A o \in Records(d.blks[1]) : d.blks[1][o].ino = 0 \/ d.blks[1][o].name \in Dots

Rmdir(p, n) ==
  LET i == Resolve(p, n) IN
  /\ i \in DOMAIN dirs \ {Root}
  /\ dirs[i].runs = 1
  /\ LooksEmpty(dirs[i])
  /\ dirs' = [k \in DOMAIN dirs \ {i} |->
                IF k = p THEN TakeOut(dirs[p], Min(Holding(dirs[p], i)), i) ELSE dirs[k]]
  /\ misplaced' = misplaced \ {i}

RenameHere(p, n, m) ==
  LET i == Resolve(p, n)
      k == Min(Holding(dirs[p], i))
  IN
  /\ i # 0
  /\ Absent(p, m)
  /\ Renamable(dirs[p].blks[k], i, m)
  /\ dirs' = [dirs EXCEPT ![p].blks[k] = Renamed(@, i, m)]
  /\ misplaced' = IF dirs[p].hashed THEN misplaced \cup {i} ELSE misplaced

(* The inode of ".." is read and written at a fixed place of the block.    *)
DotDot(d) == d.blks[1][3].ino

\* the walk up from q: it ends at i, at the root, or at what is no directory
WalkUp(i, q) ==
  LET at[k \in 0 .. Cardinality(Ino)] ==
        IF k = 0 THEN q
        ELSE IF at[k - 1] \in DOMAIN dirs \ {i, Root} THEN DotDot(dirs[at[k - 1]])
             ELSE at[k - 1]
  IN at[Cardinality(Ino)]

Repointed(d, q) == [d EXCEPT !.blks[1] = Stamped([@ EXCEPT ![3].ino = q])]

RenameAcross(p, n, q, m) ==
  LET i == Resolve(p, n)
      moved == [dirs EXCEPT ![p] = TakeOut(@, Min(MoveHolding(@, i)), i),
                            ![q] = Put(@, Min(MovePlaces(@, m)), m, i)]
  IN
  /\ i \notin {0, q}
  /\ p # q
  /\ Absent(q, m)
  /\ i \in DOMAIN dirs => WalkUp(i, q) \in {Root, 0}
  /\ MoveHolding(dirs[p], i) # {}
  /\ MovePlaces(dirs[q], m) # {}
  /\ dirs' = IF i \in DOMAIN dirs THEN [moved EXCEPT ![i] = Repointed(@, q)] ELSE moved
  /\ misplaced' = misplaced \ {i}

(* Any other call with a path, on this drive or another one, and every     *)
(* refused one.                                                            *)
OtherCall == UNCHANGED <<dirs, misplaced>>

DirInit ==
  /\ dirs \in Images
  /\ listing = Listings(dirs)
  /\ path \in Spelled
  /\ misplaced = {}

DirNext ==
  \E n \in Spelled :
    /\ path' = n
    /\ \/ OtherCall
       \/ \E p \in DOMAIN dirs :
            \/ Create(p, n) \/ Mkdir(p, n) \/ Delete(p, n) \/ Rmdir(p, n)
            \/ \E m \in Spelled : RenameHere(p, n, m)
            \/ \E q \in DOMAIN dirs, m \in Spelled : RenameAcross(p, n, q, m)
    /\ listing' = IF dirs' = dirs THEN listing ELSE Listings(dirs')

DirSpec == DirInit /\ [][DirNext]_dirvars
==============================================================================
