------------------------------ MODULE DirCorrect ------------------------------
(***************************************************************************)
(* What makes directories correct.                                         *)
(***************************************************************************)
EXTENDS DirSearch

\* The records of every block tile it, hold their names and end in the checksum
\* record (blocks of an index have theirs elsewhere), whatever was inserted, merged
\* and renamed in place: no walk of the code stops early or reads a record out of
\* the middle of another (extent.c:319, 334, 706, 1788, 2418).
Tiled(blk, tail) ==
  LET at == Offsets(blk) IN
  /\ at # << >>
  /\ Last(at) + blk[Last(at)].len = BlockSize
  /\ tail => blk[Last(at)] = Sentinel
  /\ \A o \in Records(blk) : blk[o].ino # 0 => EntrySize(blk[o].name) <= blk[o].len

IndexBlock(d, k) == d.hashed /\ k <= 1 + d.levels
Tiles(d) == \A k \in DOMAIN d.blks : Tiled(d.blks[k], Tails /\ ~IndexBlock(d, k))
RecordsTile == \A p \in DOMAIN dirs : Tiles(dirs[p])

-----------------------------------------------------------------------------
(* The tree of names that Namespace describes; sizes are FileOps's matter. *)

View == INSTANCE Namespace
          WITH tree <- Tree, dirs <- DOMAIN dirs,
               size <- [i \in Named \ DOMAIN dirs |-> 0]

\* Whatever slack an entry was put in, whatever record it was merged into and
\* whichever block it was in, a call adds, removes or moves the one entry it
\* should and every other stays what it was; no directory moves under itself
\* (extent.c:1777, 2478, 2520).
TreeChangesWhole == [][View!Next]_(View!nsvars)

\* A call removes or renames the entry of that very name, or, if there is none,
\* one that shows under it as its 8.3 form (tsr.c:676, extent.c:2060).
TakesWhatWasNamed ==
  [][\A e \in Tree \ Tree' :
       LET asked == {x \in Tree : x.dir = e.dir /\ x.name = path'} IN
       IF asked = {} THEN Alias[e.name] = Alias[path'] ELSE e \in asked]_vars

\* A directory in which 8.3 forms tell the entries apart stays one: no call makes
\* a file that hides another from DOS (tsr.c:510, 1437, 1556).
Distinct(p) ==
  \A x, y \in Tree : x.dir = p /\ y.dir = p /\ Alias[x.name] = Alias[y.name] => x = y
AliasesStayDistinct ==
  [][\A p \in DOMAIN dirs \cap DOMAIN dirs' : Distinct(p) => Distinct(p)']_vars

-----------------------------------------------------------------------------
(* A reader that consults the index of a hashed directory.                 *)

Covers(d, k, h) ==
  \E j \in DOMAIN d.index :
    /\ d.index[j].leaf = k - 1
    /\ j > 1 => d.index[j].hash <= h
    /\ j < Len(d.index) => h < d.index[j + 1].hash

FoundByHash(d, except) ==
  \A k \in DOMAIN d.blks : \A c \in Range(Listed(d.blks[k])) :
    c.name \in Dots \/ c.ino \in except \/ Covers(d, k, Hash[c.name])

Indexed == {p \in DOMAIN dirs : dirs[p].hashed /\ dirs[p].levels = 0}

\* What was not renamed in place since it came to a hashed directory is in the
\* leaf whose hash range holds its name (extent.c:660).
IndexFinds == \A p \in Indexed : FoundByHash(dirs[p], misplaced)

-----------------------------------------------------------------------------
(* Searches.                                                               *)

\* A search that ends, during which no entry it was to show went away and no
\* other path was given, has shown every one (tsr.c:757).
SearchComplete ==
  search.over /\ ~search.went /\ ~search.strayed => search.due \subseteq search.shown

\* It shows none twice unless one came meanwhile or another path was given.
SearchShowsOnce == search.twice => search.came \/ search.strayed

-----------------------------------------------------------------------------
(* What comments of the code claim and the code does not keep.             *)

\* "Verify dir_ino is an empty directory" (extent.c:1674).
OnlyEmptyRemoved ==
  [][\A i \in DOMAIN dirs \ DOMAIN dirs' : Entries(i) = {}]_vars
==============================================================================
