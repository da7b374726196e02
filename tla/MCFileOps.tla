------------------------------ MODULE MCFileOps ------------------------------
(***************************************************************************)
(* Small volumes for the file operations.                                  *)
(***************************************************************************)
EXTENDS FileOpsInv, TLC

CONSTANTS a, b   \* two names

\* a volume with the given inodes and data blocks in place
Image(inodes, data) ==
  LET used == DOMAIN inodes \cup Reserved
      taken == Meta \cup UNION {Claims(inodes[i].ext) : i \in DOMAIN inodes}
      node(i) == IF i \in DOMAIN inodes THEN inodes[i] ELSE Blank
      group == [g \in Group |-> [fb |-> Cardinality(BlksOf(g) \ taken),
                                 fi |-> Cardinality(InosOf(g) \ used),
                                 dirs |-> Cardinality({i \in DOMAIN inodes \cap InosOf(g) :
                                                        inodes[i].kind = "dir"}),
                                 unused |-> Min({g * InosPerGroup - i :
                                                  i \in used \cap InosOf(g)}
                                                  \cup {InosPerGroup}),
                                 uninit |-> {}]]
  IN [x \in BlockName |->
        CASE x = Sb -> [fb |-> Cardinality(Blk \ taken), fi |-> Cardinality(Ino \ used)]
          [] x = Bgd -> group
          [] x[1] = "bmap" -> BlksOf(x[2]) \cap taken
          [] x[1] = "imap" -> InosOf(x[2]) \cap used
          [] x[1] = "itab" -> [i \in {k \in Ino : Table(k) = x} |-> node(i)]
          [] OTHER -> IF x[2] \in DOMAIN data THEN data[x[2]] ELSE FileData(0)]

Holding(ext, bytes, kind, links) ==
  [Blank EXCEPT !.kind = kind, !.links = links, !.size = bytes, !.ext = ext,
                !.nblk = Cardinality(Mapped(ext))]

\* the root directory is the first block mkfs did not take, in the first group
RootBlk == Min(Blk \ Meta)
RootInode == Holding(<< [lb |-> 0, len |-> 1, pb |-> RootBlk] >>, Unit, "dir", 2)

\* names are interchangeable
Renaming == Permutations(Name)

\* nothing is promised past a disorder, and none is ever undone
Calm == ~Exposed

\* A data block that is free and in nobody's inode is never read before it is
\* written whole, so states that differ in one only are explored once.
Dead ==
  LET live == Taken(store) \cup UNION {Claims(Inode(store, i).ext) : i \in InUse(store)}
  IN {Data(k) : k \in Blk \ live}
Live == <<[x \in BlockName \ Dead |-> store[x]], op, dirty, interrupted, overlapped, faults>>

\* a fresh volume
Fresh == {Image(2 :> RootInode, RootBlk :> EmptyDir(Root, Root))}

\* the same with the last group's bitmaps not written: what is there means nothing
Unwritten(s) ==
  [s EXCEPT ![Bgd][NumGroups].uninit = {"blocks", "inodes"},
            ![BlkMap(NumGroups)] = {}, ![InoMap(NumGroups)] = InosOf(NumGroups)]

\* one that a file of an odd size fills, in an extent per group
Rest(g) == BlksOf(g) \ (Meta \cup {RootBlk})
FullExt ==
  [g \in Group |-> [lb |-> IF g = 1 THEN 0 ELSE Cardinality(Rest(1)),
                    len |-> Cardinality(Rest(g)), pb |-> Min(Rest(g))]]
Full ==
  {Image(2 :> RootInode
           @@ 3 :> Holding(FullExt, Cardinality(UNION {Rest(g) : g \in Group}) * Unit - 1,
                           "file", 1),
         RootBlk :> DirBlock([EmptyDir(Root, Root).ents EXCEPT ![3] = Entry(3, n)])
           @@ [k \in Blk \ {RootBlk} |-> FileData(3)]) : n \in Name}
FreshAndFull == {Unwritten(s) : s \in Fresh} \cup Full
=============================================================================
