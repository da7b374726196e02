------------------------------- MODULE DirInv -------------------------------
(***************************************************************************)
(* The inductive invariant behind the properties of DirCorrect: what the   *)
(* blocks of a volume's directories hold, and that the names in them are a *)
(* tree.                                                                   *)
(***************************************************************************)
EXTENDS DirCorrect

(* A block: the checksum record is nowhere but at its end, and what has an *)
(* inode has a name.                                                       *)
Label == Name \cup Dots \cup {"tail", ""}
Record == [ino : Nat, len : Nat, name : Label]
RawBlock ==
  {blk \in [Offset -> Record] :
     \A o \in Offset : /\ blk[o].ino # 0 => blk[o].name \in Name \cup Dots
                       /\ blk[o].name = "tail" => o = BlockSize - 3}

\* where a walk finds records, and those in use
At(blk) == Range(Offsets(blk))
LiveAt(blk) == {o \in At(blk) : blk[o].ino # 0}

(* A directory: blocks of records, a leaf for every entry of an index.     *)
DirRecord ==
  [hashed : BOOLEAN, levels : Nat, index : Seq([hash : Nat, leaf : Nat]),
   runs : Nat, blks : Seq(RawBlock) \ {<< >>}]
LeavesThere(d) ==
  d.hashed /\ d.levels = 0 =>
    d.index # << >> /\ \A j \in DOMAIN d.index : d.index[j].leaf + 1 \in DOMAIN d.blks \ {1}

(* "." and ".." begin the first block and are nowhere else; the blocks of  *)
(* an index hold no other name.                                            *)
Dotted(p, d) ==
  /\ {0, 3} \subseteq LiveAt(d.blks[1])
  /\ d.blks[1][0].ino = p /\ d.blks[1][0].name = "."
  /\ d.blks[1][3].name = ".."
  /\ \A k \in DOMAIN d.blks : \A o \in LiveAt(d.blks[k]) :
       IF d.blks[k][o].name \in Dots THEN k = 1 /\ o \in {0, 3} ELSE ~IndexBlock(d, k)

DirShaped(p, d) == d \in DirRecord /\ Tiles(d) /\ LeavesThere(d) /\ Dotted(p, d)

(* The names in the blocks, each with its place.                           *)
Line(p, k, o, r) == [dir |-> p, blk |-> k, at |-> o, name |-> r.name, ino |-> r.ino]
BlockLines(p, k, blk) ==
  {Line(p, k, o, blk[o]) : o \in {x \in LiveAt(blk) : blk[x].name \notin Dots}}
DirLines(p, d) == UNION {BlockLines(p, k, d.blks[k]) : k \in DOMAIN d.blks}
Lines(ds) == UNION {DirLines(p, ds[p]) : p \in DOMAIN ds}

(* They are a tree: no inode and no name of a directory is there twice,    *)
(* the directory that ".." leads to names the one it leads from, and from  *)
(* every directory the way up leads to the root.                           *)
Ups(ds) == [p \in DOMAIN ds |-> DotDot(ds[p])]
Unique(L) ==
  \A x, y \in L : x.ino = y.ino \/ (x.dir = y.dir /\ x.name = y.name) => x = y
LeadUp(D, up) ==
  \A X \in SUBSET (D \ {Root}) : X # {} => \E x \in X : up[x] \notin X
TreeOf(D, L, up) ==
  /\ D \subseteq Ino /\ Root \in D /\ up[Root] = Root
  /\ \A p \in D : up[p] \in D
  /\ \A x \in L : x.dir \in D /\ x.ino \in Ino \ {Root} /\ x.name \in Name
  /\ Unique(L)
  /\ \A i \in D \ {Root} : \E x \in L : x.ino = i /\ x.dir = up[i]
  /\ LeadUp(D, up)

SoundDirs(ds) ==
  /\ ds = [p \in DOMAIN ds |-> ds[p]]
  /\ \A p \in DOMAIN ds : DirShaped(p, ds[p])
  /\ TreeOf(DOMAIN ds, Lines(ds), Ups(ds))

\* what is in the leaf of its hash
ByHash(ds, except) ==
  \A p \in DOMAIN ds :
    ds[p].hashed /\ ds[p].levels = 0 =>
      \A x \in DirLines(p, ds[p]) : x.ino \in except \/ Covers(ds[p], x.blk, Hash[x.name])

ASSUME ImagesAssumption == \A ds \in Images : SoundDirs(ds) /\ ByHash(ds, {})

(* A directory of one extent is one block: what the emptiness check of     *)
(* ext4_dir_remove relies on, and what only a volume written by another    *)
(* system can break.                                                       *)
OneBlockEach(ds) ==
  \A p \in DOMAIN ds \ {Root} : ds[p].runs = 1 => Len(ds[p].blks) = 1

DirInv ==
  /\ SoundDirs(dirs) /\ OneBlockEach(dirs)
  /\ ByHash(dirs, misplaced)
  /\ listing = Listings(dirs)

(* A search to which no other path was given: unless an entry came, what   *)
(* it has shown is not ahead of it; unless one went, what it has still to  *)
(* show is.                                                                *)
Search ==
  [on : BOOLEAN, next : Nat, changes : Nat, pattern : Spelled \cup {Everything},
   due : SUBSET Nat, shown : SUBSET Nat, twice : BOOLEAN,
   came : BOOLEAN, went : BOOLEAN, strayed : BOOLEAN, over : BOOLEAN]

\* entries of s, after the first k if they are ahead, with these inodes
ShownBehind(s, k, inos) == \A j \in DOMAIN s : s[j].ino \in inos => j <= k
DueAhead(s, k, inos) == \A i \in inos : \E j \in DOMAIN s : s[j].ino = i /\ j > k

Goes(s) ==
  search.on /\ ~search.strayed =>
    /\ ~search.came => ShownBehind(s, search.next, search.shown)
    /\ ~search.went => DueAhead(s, search.next, search.due \ search.shown)

SearchInv ==
  /\ search \in Search /\ path \in Spelled \cup {Everything}
  /\ Goes(Matching(listing[Root], search.pattern))
  /\ SearchComplete /\ SearchShowsOnce
==============================================================================
