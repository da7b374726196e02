---------------------------- MODULE FileOpsCorrect ----------------------------
(***************************************************************************)
(* What must be true of the volume between and in the middle of the file   *)
(* operations.                                                             *)
(***************************************************************************)
EXTENDS FileOps, FiniteSets

\* Two disorders void the guarantees below and have runs of their own:
\* an operation that frees blocks first was cut short, or a mkdir lost one of
\* its two copies of an inode-table block.
Freeing == {"rmdir", "unlink", "truncate"}
Exposed == interrupted \cap Freeing # {} \/ "mkdir" \in overlapped
Settled == op = Idle /\ interrupted = {} /\ overlapped = {}

Claims(x) == {m.pb : m \in Counted(x)}
Owner(b) == {i \in InUse(store) : b \in Claims(Inode(store, i).ext)}
Target == IF op.do \in Freeing THEN {op.ino} ELSE {}
NoBlockShared == \A b \in Blk : Cardinality(Owner(b)) <= 1
Links(i) == {l \in Dirs(store) \X [name : Name, ino : {i}] : l[2] \in Children(store, l[1])}
Subdirs(p) == {e.ino : e \in {x \in Children(store, p) : IsDir(store, x.ino)}}

-----------------------------------------------------------------------------

\* Every variable keeps its type.
TypeOK ==
  /\ DOMAIN store = BlockName
  /\ store[Sb] \in [fb : Nat, fi : Nat]
  /\ store[Bgd] \in [Group -> [fb : Nat, fi : Nat, dirs : Nat, unused : 0 .. InosPerGroup,
                             uninit : SUBSET {"blocks", "inodes"}]]
  /\ \A g \in Group : store[BlkMap(g)] \subseteq BlksOf(g) /\ store[InoMap(g)] \subseteq InosOf(g)
  /\ \A i \in Ino :
       /\ DOMAIN Inode(store, i) = DOMAIN Blank
       /\ Inode(store, i).kind \in {"free", "file", "dir"}
       /\ Range(Inode(store, i).ext) \subseteq [lb : Nat, len : Nat, pb : Blk]
       /\ Len(Inode(store, i).ext) <= MaxExt
  /\ op.do \in {"idle", "mkdir", "rmdir", "unlink", "truncate"}
  /\ dirty \in BOOLEAN
  /\ faults \in 0 .. MaxFaults

\* A data block belongs to one place of one inode, is none of a group's own, and
\* the bitmap has it taken unless the operation in progress is freeing its owner's
\* blocks: what find_free_block hands out is never in use, whether it read the
\* group's bitmap or made it up (extent.c:883).
BlocksOwnedOnce ==
  ~Exposed =>
    /\ NoBlockShared
    /\ \A i \in InUse(store) : \A m, k \in Counted(Inode(store, i).ext) : m.pb = k.pb => m = k
    /\ \A i \in InUse(store) : Claims(Inode(store, i).ext) \cap Meta = {}
    /\ \A i \in InUse(store) \ Target : Claims(Inode(store, i).ext) \subseteq Taken(store)

\* The group counters say what the bitmaps hold and the superblock their sum, and
\* no inode in use lies in the part of the table that a checker may skip, after
\* every single transaction (extent.c:559, 1066, 1765, 1950).
CountersAgree ==
  ~Exposed =>
    /\ \A g \in Group :
         /\ store[Bgd][g].fb = Cardinality(FreeBlks(store, g))
         /\ store[Bgd][g].fi = Cardinality(FreeInos(store, g))
         /\ \A i \in InoBits(store, g) : i <= g * InosPerGroup - store[Bgd][g].unused
    /\ store[Sb].fb = Cardinality(Blk \ Taken(store))
    /\ store[Sb].fi = Cardinality(Ino \ InUse(store))

\* Names form a tree: every name leads to an allocated inode, a directory has
\* one name and its ".." leads back there, link counts count names and
\* subdirectories, and every directory leads up to the root (no set of them
\* holds all its members' ".." without it), through crashes and half-done
\* operations (extent.c:2511).
TreeSound ==
  ~Exposed =>
    /\ Named \subseteq InUse(store)
    /\ \A i \in Named : IsDir(store, i) \/ IsFile(i)
    /\ \A i \in Named : IsFile(i) => Inode(store, i).links = Cardinality(Links(i))
    /\ \A p \in Dirs(store) :
         /\ Inode(store, p).links = 2 + Cardinality(Subdirs(p))
         /\ Ents(store, p)[1] = Entry(p, ".")
         /\ p # Root => \E l \in Links(p) : Links(p) = {l} /\ DotDot(store, p) = l[1]
         /\ \A e, d \in Children(store, p) : e.name = d.name => e = d
    /\ \A S \in SUBSET Dirs(store) :
         S # {} /\ (\A p \in S \ {Root} : DotDot(store, p) \in S) => Root \in S

\* Every byte of a file lies in a block the lookup finds, and that block holds
\* what was written to this file and to no other (extent.c:54).
ReadsOwnData ==
  ~Exposed =>
    \A i \in {k \in Named : IsFile(k)} \ Target :
      LET found == Mapped(Inode(store, i).ext) IN
      /\ {m.lb : m \in found} = {l \in 0 .. Cardinality(Blk) : l * Unit < Inode(store, i).size}
      /\ Cardinality(found) = Inode(store, i).nblk
      /\ \A m \in found : store[Data(m.pb)] = FileData(i)

\* Between operations, when none was cut short, nothing is lost: every taken
\* block and inode can be reached from the root, freed inodes are blank and
\* the directory counts are right.
NothingLeaks ==
  Settled =>
    /\ Taken(store) = Meta \cup UNION {Claims(Inode(store, i).ext) : i \in Named \cup {Root}}
    /\ InUse(store) = Named \cup Reserved \cup {Root}
    /\ \A i \in Ino \ InUse(store) : Inode(store, i) = Blank
    /\ \A g \in Group : store[Bgd][g].dirs = Cardinality(Dirs(store) \cap InosOf(g))

-----------------------------------------------------------------------------
(* The names a program sees change one whole operation at a time.          *)

Tree == UNION {{[dir |-> p, name |-> e.name, ino |-> e.ino] : e \in Children(store, p)}
               : p \in Dirs(store)}
Sizes == [i \in {k \in Named : IsFile(k)} |-> Inode(store, i).size]
View == INSTANCE Namespace
          WITH tree <- Tree, dirs <- {p \in Dirs(store) : p = Root \/ p \in Named}, size <- Sizes

\* No step shows a program half an operation: a crash between the transactions
\* of mkdir, rmdir, unlink or truncate leaves the names and sizes of before or
\* after, and a moved entry is in exactly one directory (extent.c:2510).
NamesChangeWhole == [][Exposed' \/ View!Next]_<<Tree, Sizes>>

-----------------------------------------------------------------------------
(* What comments of the code claim and the code does not keep.             *)

\* A truncate cut short never makes two files share a block
\* (extent.c:2190-2193).
CutTruncateNeverAliases ==
  interrupted \subseteq {"truncate"} /\ overlapped = {} => NoBlockShared

\* A new directory is wired to its data block (extent.c:1632, extent.h:71-74).
NewDirectoryHasBlock ==
  interrupted = {} => \A i \in Named : Inode(store, i).kind = "dir" => IsDir(store, i)
==============================================================================
