------------------------------- MODULE FsImage -------------------------------
(***************************************************************************)
(* The on-disk structures the file operations touch, and the transactions  *)
(* each operation stages (extent.c).  A volume is a function from block    *)
(* names to contents; a transaction is a list of whole-block writes.       *)
(* Every operation computes its blocks from the volume as it reads it, one *)
(* private copy per scratch buffer, so two buffers of one block do not see *)
(* each other's edits.                                                     *)
(*                                                                         *)
(* Checksums, times, modes and generations are left out.  A directory is   *)
(* one block of equal slots; sizes count Units, a data block holds Unit of *)
(* them.  Block 0 stands for "no block".                                   *)
(***************************************************************************)
EXTENDS Naturals, Sequences, FiniteSetsExt, Functions, StoreOverlay

CONSTANTS
  NumGroups, InosPerGroup, BlksPerGroup,
  Reserved,       \* the inodes mkfs took, the root aside
  Meta,           \* the blocks that hold the groups' own bitmaps and tables
  InosPerBlock,   \* inodes that share one block of the inode table
  Unit,           \* bytes of a data block
  Name,           \* the names programs use
  DirSlots,       \* entries a directory block holds, "." and ".." included
  MaxExt,         \* extents an inode holds (4)
  LenBit          \* the "uninitialized" bit of an extent length (0x8000)

ASSUME ImageAssumption ==
  /\ {NumGroups, InosPerGroup, BlksPerGroup, InosPerBlock, Unit, MaxExt, LenBit}
       \subseteq Nat \ {0}
  /\ InosPerGroup % InosPerBlock = 0
  /\ LenBit > 1
  /\ Reserved \subseteq 1 .. NumGroups * InosPerGroup
  /\ 1 \in Reserved /\ 2 \notin Reserved
  /\ Meta \subseteq 1 .. NumGroups * BlksPerGroup
  /\ DirSlots \in Nat \ 0 .. 2
  /\ Name \cap {".", "..", ""} = {}

Group == 1 .. NumGroups
Ino == 1 .. NumGroups * InosPerGroup
Blk == 1 .. NumGroups * BlksPerGroup
Slot == 1 .. DirSlots
Root == 2

InosOf(g) == (g - 1) * InosPerGroup + 1 .. g * InosPerGroup
BlksOf(g) == (g - 1) * BlksPerGroup + 1 .. g * BlksPerGroup
InoGroup(i) == (i - 1) \div InosPerGroup + 1
BlkGroup(b) == (b - 1) \div BlksPerGroup + 1

-----------------------------------------------------------------------------
(* Block names and what the blocks hold.                                   *)

Sb == <<"sb", 0>>
Bgd == <<"bgd", 0>>
BlkMap(g) == <<"bmap", g>>
InoMap(g) == <<"imap", g>>
Table(i) == <<"itab", (i - 1) \div InosPerBlock>>
Data(b) == <<"data", b>>

BlockName ==
  {Sb, Bgd} \cup {BlkMap(g) : g \in Group} \cup {InoMap(g) : g \in Group}
    \cup {Table(i) : i \in Ino} \cup {Data(b) : b \in Blk}

Blank == [kind |-> "free", links |-> 0, size |-> 0, nblk |-> 0, ext |-> << >>]
NewFile == [Blank EXCEPT !.kind = "file", !.links = 1]
NewDir == [Blank EXCEPT !.kind = "dir", !.links = 2]

NoEntry == [name |-> "", ino |-> 0]
Entry(i, n) == [name |-> n, ino |-> i]
DirBlock(f) == [kind |-> "dir", ents |-> f]
EmptyDir(i, p) ==
  DirBlock([k \in Slot |-> CASE k = 1 -> Entry(i, ".") [] k = 2 -> Entry(p, "..")
                             [] OTHER -> NoEntry])
FileData(i) == [kind |-> "file", by |-> i]

Wr(b, v) == [blk |-> b, val |-> v]

-----------------------------------------------------------------------------
(* Reading a volume.                                                       *)

Inode(s, i) == s[Table(i)][i]

\* A group nothing was allocated in yet may have no bitmap on disk: its
\* descriptor says so (BLOCK_UNINIT, INODE_UNINIT), and the map is made up.
BlkBits(s, g) ==
  IF "blocks" \in s[Bgd][g].uninit THEN Meta \cap BlksOf(g) ELSE s[BlkMap(g)]
InoBits(s, g) == IF "inodes" \in s[Bgd][g].uninit THEN {} ELSE s[InoMap(g)]
InUse(s) == UNION {InoBits(s, g) : g \in Group}
Taken(s) == UNION {BlkBits(s, g) : g \in Group}

RealLen(e) == e.len % LenBit
Run(e, n) == {[lb |-> e.lb + j, pb |-> e.pb + j] : j \in {k \in 0 .. n : k < n}}

\* the blocks ext4_extent_lookup finds, and the ones the freeing loops count
Mapped(x) == UNION {Run(e, RealLen(e)) : e \in Range(x)}
Counted(x) == UNION {Run(e, e.len) : e \in Range(x)}

\* the block at offset 0, where the entries are
First(s, p) ==
  {Inode(s, p).ext[k].pb : k \in {j \in DOMAIN Inode(s, p).ext :
                                     Inode(s, p).ext[j].lb = 0 /\ RealLen(Inode(s, p).ext[j]) > 0}}
DirBlk(s, p) == CHOOSE b \in First(s, p) : TRUE
IsDir(s, p) ==
  /\ Inode(s, p).kind = "dir"
  /\ p \in InoBits(s, InoGroup(p))
  /\ \E b \in First(s, p) : s[Data(b)].kind = "dir"
Dirs(s) == {p \in Ino : IsDir(s, p)}
Ents(s, p) == s[Data(DirBlk(s, p))].ents

Lookup(s, p, n) == {e.ino : e \in {d \in Range(Ents(s, p)) : d.ino # 0 /\ d.name = n}}
Children(s, p) ==
  {e \in Range(Ents(s, p)) : e.ino # 0 /\ e.name \notin {".", ".."}}
HasRoom(s, p) == \E k \in Slot : Ents(s, p)[k].ino = 0

Insert(f, i, n) == [f EXCEPT ![Min({k \in Slot : f[k].ino = 0})] = Entry(i, n)]
SlotOf(f, i) == Min({k \in Slot : f[k].ino = i})
Remove(f, i) == [f EXCEPT ![SlotOf(f, i)] = NoEntry]

\* xdir_is_ancestor: up the ".." entries from cur, at most 64 levels
Levels == 64
DotDot(s, p) == Ents(s, p)[2].ino
Walk(s, moved, cur) ==
  LET way[d \in 0 .. Levels] ==
        IF d = 0 THEN cur
        ELSE LET at == way[d - 1] IN
             IF at \in {moved, Root, 0} \/ ~IsDir(s, at) THEN at ELSE DotDot(s, at)
  IN way[Levels]

-----------------------------------------------------------------------------
(* Allocation: the lowest free bit of the first group that has one.        *)

FreeBlks(s, g) == BlksOf(g) \ BlkBits(s, g)
BlkGroups(s) == {g \in Group : s[Bgd][g].fb > 0 /\ FreeBlks(s, g) # {}}
CanAllocBlk(s) == BlkGroups(s) # {} /\ s[Sb].fb > 0
AllocBlk(s) == Min(FreeBlks(s, Min(BlkGroups(s))))

FreeInos(s, g) == InosOf(g) \ InoBits(s, g)
InoGroups(s) == {g \in Group : s[Bgd][g].fi > 0 /\ FreeInos(s, g) # {}}
CanAllocIno(s) == InoGroups(s) # {} /\ s[Sb].fi > 0
AllocIno(s) == Min(FreeInos(s, Min(InoGroups(s))))

\* seeded faults: the group stays without a bitmap, the counter of the first group
TakeBlkStillUninit(s, b) ==
  LET g == BlkGroup(b) IN
  << Wr(BlkMap(g), BlkBits(s, g) \cup {b}),
     Wr(Bgd, [s[Bgd] EXCEPT ![g].fb = @ - 1]), Wr(Sb, [s[Sb] EXCEPT !.fb = @ - 1]) >>
TakeBlkFirstGroup(s, b) ==
  << Wr(BlkMap(BlkGroup(b)), BlkBits(s, BlkGroup(b)) \cup {b}),
     Wr(Bgd, [s[Bgd] EXCEPT ![1].fb = @ - 1]), Wr(Sb, [s[Sb] EXCEPT !.fb = @ - 1]) >>

TakeBlk(s, b) ==
  LET g == BlkGroup(b) IN
  << Wr(BlkMap(g), BlkBits(s, g) \cup {b}),
     Wr(Bgd, [s[Bgd] EXCEPT ![g].fb = @ - 1, ![g].uninit = @ \ {"blocks"}]),
     Wr(Sb, [s[Sb] EXCEPT !.fb = @ - 1]) >>

\* freeing reads the bitmap of the disk, whatever the descriptor says
FreeBlk(s, b) ==
  LET g == BlkGroup(b) IN
  << Wr(BlkMap(g), s[BlkMap(g)] \ {b}),
     Wr(Bgd, [s[Bgd] EXCEPT ![g].fb = @ + 1]),
     Wr(Sb, [s[Sb] EXCEPT !.fb = @ + 1]) >>

\* inodes at the end of a group's table that were never in use
UnusedPast(i, n) == Min({n, InoGroup(i) * InosPerGroup - i})
TakeIno(s, i, d) ==
  LET g == InoGroup(i) IN
  << Wr(InoMap(g), InoBits(s, g) \cup {i}),
     Wr(Bgd, [s[Bgd] EXCEPT ![g].fi = @ - 1, ![g].dirs = @ + d,
                            ![g].uninit = @ \ {"inodes"},
                            ![g].unused = UnusedPast(i, @)]),
     Wr(Sb, [s[Sb] EXCEPT !.fi = @ - 1]) >>

\* seeded faults: the directory count kept, the superblock kept
FreeInoKeepsDirs(s, i, d) ==
  LET g == InoGroup(i) IN
  << Wr(InoMap(g), s[InoMap(g)] \ {i}), Wr(Bgd, [s[Bgd] EXCEPT ![g].fi = @ + 1]),
     Wr(Sb, [s[Sb] EXCEPT !.fi = @ + 1]) >>
FreeInoKeepsSb(s, i, d) ==
  LET g == InoGroup(i) IN
  << Wr(InoMap(g), s[InoMap(g)] \ {i}), Wr(Bgd, [s[Bgd] EXCEPT ![g].fi = @ + 1]) >>

FreeIno(s, i, d) ==
  LET g == InoGroup(i) IN
  << Wr(InoMap(g), s[InoMap(g)] \ {i}),
     Wr(Bgd, [s[Bgd] EXCEPT ![g].fi = @ + 1, ![g].dirs = IF @ > 0 THEN @ - d ELSE @]),
     Wr(Sb, [s[Sb] EXCEPT !.fi = @ + 1]) >>

\* one inode-table block, read from the volume, with inode i replaced
PutInode(s, i, rec) == Wr(Table(i), [s[Table(i)] EXCEPT ![i] = rec])
PutEnts(s, p, f) == Wr(Data(DirBlk(s, p)), DirBlock(f))
Relink(s, i, n) == [Inode(s, i) EXCEPT !.links = n]
Fewer(n) == IF n > 0 THEN n - 1 ELSE 0

-----------------------------------------------------------------------------
(* What each operation stages, in the order of its transaction.            *)

CreateTx(s, p, n, i) ==
  << PutEnts(s, p, Insert(Ents(s, p), i, n)) >> \o TakeIno(s, i, 0)
    \o << PutInode(s, i, NewFile) >>

MkdirTx1(s, i) == TakeIno(s, i, 1) \o << PutInode(s, i, NewDir) >>

MkdirTx2(s, p, n, i, b) ==
  << Wr(Data(b), EmptyDir(i, p)) >> \o TakeBlk(s, b)
    \o << PutInode(s, i, [Inode(s, i) EXCEPT !.ext = << [lb |-> 0, len |-> 1, pb |-> b] >>,
                                             !.size = Unit, !.nblk = 1]),
          PutEnts(s, p, Insert(Ents(s, p), i, n)),
          PutInode(s, p, Relink(s, p, Inode(s, p).links + 1)) >>

RmdirTx2(s, p, i) ==
  FreeIno(s, i, 1)
    \o << PutInode(s, i, Blank), PutEnts(s, p, Remove(Ents(s, p), i)),
          PutInode(s, p, Relink(s, p, Fewer(Inode(s, p).links))) >>

UnlinkTx(s, p, i) ==
  FreeIno(s, i, 0)
    \o << PutInode(s, i, Blank), PutEnts(s, p, Remove(Ents(s, p), i)),
          PutInode(s, p, Inode(s, p)) >>

RenameTx(s, p, i, n) ==
  LET f == Ents(s, p) IN
  << PutEnts(s, p, [f EXCEPT ![SlotOf(f, i)].name = n]), PutInode(s, p, Inode(s, p)) >>

\* a seeded fault: always two buffers
RenameXdirTxApart(s, p, i, q, n) ==
  LET dir == Inode(s, i).kind = "dir" IN
  << PutEnts(s, p, Remove(Ents(s, p), i)), PutEnts(s, q, Insert(Ents(s, q), i, n)),
     PutInode(s, p, IF dir THEN Relink(s, p, Fewer(Inode(s, p).links)) ELSE Inode(s, p)),
     PutInode(s, q, IF dir THEN Relink(s, q, Inode(s, q).links + 1) ELSE Inode(s, q)) >>
    \o (IF dir THEN << PutEnts(s, i, [Ents(s, i) EXCEPT ![2].ino = q]) >> ELSE << >>)

\* The two parents' inodes are edited in one buffer when they share a block.
RenameXdirTx(s, p, i, q, n) ==
  LET dir == Inode(s, i).kind = "dir"
      old == IF dir THEN Relink(s, p, Fewer(Inode(s, p).links)) ELSE Inode(s, p)
      new == IF dir THEN Relink(s, q, Inode(s, q).links + 1) ELSE Inode(s, q)
  IN << PutEnts(s, p, Remove(Ents(s, p), i)), PutEnts(s, q, Insert(Ents(s, q), i, n)) >>
       \o (IF Table(p) = Table(q)
           THEN << Wr(Table(p), [s[Table(p)] EXCEPT ![p] = old, ![q] = new]) >>
           ELSE << PutInode(s, p, old), PutInode(s, q, new) >>)
       \o (IF dir THEN << PutEnts(s, i, [Ents(s, i) EXCEPT ![2].ino = q]) >> ELSE << >>)

-----------------------------------------------------------------------------
(* Appending a block: c is the inode the caller remembers.                 *)

NoExt == [lb |-> 0, len |-> 0, pb |-> 0]
LastExt(c) == IF c.ext = << >> THEN NoExt ELSE c.ext[Len(c.ext)]
After(e) == e.lb + e.len
Contig(c) == LastExt(c).pb + LastExt(c).len

EndsInLastBlock(c) ==
  /\ Len(c.ext) <= MaxExt
  /\ LastExt(c).len < LenBit
  /\ c.size = After(LastExt(c)) * Unit

\* a seeded fault: the fullness of the leaf is not looked at
AnyCandidate(s, c) == {b \in Blk : CanAllocBlk(s) /\ b = AllocBlk(s)}
\* a full leaf takes only the next block; any other takes the first free one
Candidates(s, c) ==
  IF Len(c.ext) >= MaxExt
  THEN {b \in Blk : b = Contig(c) /\ b \notin Taken(s) /\ s[Sb].fb > 0}
  ELSE {b \in Blk : CanAllocBlk(s) /\ b = AllocBlk(s)}

SetExt(x, k, e) ==
  [j \in 1 .. k |-> IF j = k THEN e ELSE IF j <= Len(x) THEN x[j] ELSE NoExt]
Grown(x, c, b) ==
  IF b = Contig(c)
  THEN [k \in DOMAIN x |-> IF k = Len(c.ext) THEN [x[k] EXCEPT !.len = @ + 1] ELSE x[k]]
  ELSE SetExt(x, Len(c.ext) + 1, [lb |-> After(LastExt(c)), len |-> 1, pb |-> b])

Append1(rec, c, b, n) ==
  [rec EXCEPT !.ext = Grown(rec.ext, c, b), !.size = c.size + n, !.nblk = @ + 1]

ExtendTx(s, c, i, b, n) ==
  << Wr(Data(b), FileData(i)) >> \o TakeBlk(s, b)
    \o << PutInode(s, i, Append1(Inode(s, i), c, b, n)) >>

WriteTx(s, i, b) == << Wr(Data(b), FileData(i)), PutInode(s, i, Inode(s, i)) >>

-----------------------------------------------------------------------------
(* Shrinking a file to n bytes.                                            *)

BlocksFor(n) == (n + Unit - 1) \div Unit
DoomedButOne(x, n) == {m \in Counted(x) : m.lb > BlocksFor(n)} \* a seeded fault
Doomed(x, n) == {m \in Counted(x) : m.lb >= BlocksFor(n)}
\* a seeded fault: the last extent stays whole
KeptUncut(x, n) == [k \in {j \in DOMAIN x : x[j].lb < BlocksFor(n)} |-> x[k]]
Kept(x, n) ==
  LET keep == {k \in DOMAIN x : x[k].lb < BlocksFor(n)} IN
  [k \in keep |-> IF After(x[k]) > BlocksFor(n)
                  THEN [x[k] EXCEPT !.len = BlocksFor(n) - x[k].lb] ELSE x[k]]

TruncateTx(s, i, n, x, freed) ==
  << PutInode(s, i, [Inode(s, i) EXCEPT !.ext = x, !.size = n, !.nblk = @ - freed]) >>
==============================================================================
