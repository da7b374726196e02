------------------------------ MODULE FileOpsInv ------------------------------
(***************************************************************************)
(* What holds the volume together between any two transactions, as one     *)
(* inductive invariant, as long as neither disorder has happened.  All but *)
(* the last part is said of any volume s.                                  *)
(***************************************************************************)
EXTENDS Integers, FileOpsCorrect

(* Every block holds what its kind of block holds.                         *)
Extent == [lb : Nat, len : Nat \ {0}, pb : Blk]
Ordered(x) == \A j, k \in DOMAIN x : j < k => x[j].lb + x[j].len <= x[k].lb
Extents == {x \in Seq(Extent) : Len(x) <= MaxExt /\ Ordered(x)}
Node == [kind : {"free", "file", "dir"}, links : Nat, size : Nat, nblk : Int, ext : Extents]
Descriptor == [fb : Nat, fi : Nat, dirs : Nat, unused : 0 .. InosPerGroup,
               uninit : SUBSET {"blocks", "inodes"}]
Record == [name : Name \cup {".", "..", ""}, ino : Ino \cup {0}]
Contents == [kind : {"file"}, by : Ino \cup {0}] \cup [kind : {"dir"}, ents : [Slot -> Record]]
Beside(i) == {k \in Ino : Table(k) = Table(i)}

Maps(s) ==
  /\ s[Sb] \in [fb : Nat, fi : Nat]
  /\ s[Bgd] \in [Group -> Descriptor]
  /\ \A g \in Group : s[BlkMap(g)] \subseteq BlksOf(g) /\ s[InoMap(g)] \subseteq InosOf(g)
Tables(s) == \A i \in Ino : s[Table(i)] \in [Beside(i) -> Node]
Datas(s) == \A b \in Blk : s[Data(b)] \in Contents
Blocks(s) == s = [x \in BlockName |-> s[x]] /\ Maps(s) /\ Tables(s) /\ Datas(s)

(* The counters say what the bitmaps hold.                                 *)
Counting(s) ==
  /\ \A g \in Group :
       /\ s[Bgd][g].fb = Cardinality(FreeBlks(s, g))
       /\ s[Bgd][g].fi = Cardinality(FreeInos(s, g))
       /\ \A i \in InoBits(s, g) : i <= g * InosPerGroup - s[Bgd][g].unused
  /\ s[Sb].fb = Cardinality(Blk \ Taken(s))
  /\ s[Sb].fi = Cardinality(Ino \ InUse(s))

(* No data block is in two places, or one of a group's own; these, and all *)
(* data blocks of inodes other than T, are taken.                          *)
Holds(s, i) == Claims(Inode(s, i).ext)
Once(x) == \A m, k \in Counted(x) : m.pb = k.pb => m = k
Owning(s) ==
  /\ Meta \subseteq Taken(s)
  /\ \A i \in InUse(s) : Once(Inode(s, i).ext) /\ Holds(s, i) \cap Meta = {}
  /\ \A i, j \in InUse(s) : i # j => Holds(s, i) \cap Holds(s, j) = {}
AllTaken(s, T) == \A i \in InUse(s) \ T : Holds(s, i) \subseteq Taken(s)

(* The tree of names: D the directories, E what each holds, F the files.   *)
(* Directories begin with "." and ".."; behind them every inode has one    *)
(* entry in one directory, and a directory's ".." leads back there.  Links *)
(* count names and subdirectories.                                         *)
Places == 3 .. DirSlots
Shape(D, E, F) ==
  /\ Root \in D
  /\ \A p \in D :
       /\ E[p][1] = Entry(p, ".")
       /\ E[p][2].name = ".." /\ E[p][2].ino \in D
       /\ \A k \in Places : E[p][k].ino # 0 =>
            E[p][k].name \in Name /\ E[p][k].ino \in (D \cup F) \ {Root}
Unique(D, E) ==
  \A p, q \in D : \A k, l \in Places :
    /\ E[p][k].ino # 0 /\ E[q][l].ino # 0
    /\ E[p][k].ino = E[q][l].ino \/ (p = q /\ E[p][k].name = E[q][l].name)
    => p = q /\ k = l
Parents(D, E) ==
  /\ E[Root][2].ino = Root
  /\ \A p \in D \ {Root} : \E k \in Places : E[E[p][2].ino][k].ino = p
LeadUp(D, E) ==
  \A S \in SUBSET D :
    S # {} /\ (\A p \in S \ {Root} : E[p][2].ino \in S) => Root \in S
Under(D, E, p) == {c \in D \ {Root} : E[c][2].ino = p}
Linked(D, E, F, L) ==
  /\ \A i \in F : L[i] = 1
  /\ \A p \in D : L[p] = 2 + Cardinality(Under(D, E, p))
TreeOf(D, E, F, L) ==
  Shape(D, E, F) /\ Unique(D, E) /\ Parents(D, E) /\ LeadUp(D, E) /\ Linked(D, E, F, L)

Files(s) == {i \in InUse(s) : Inode(s, i).kind = "file"}
Held(s) == [p \in Dirs(s) |-> Ents(s, p)]
LinksOf(s) == [i \in Ino |-> Inode(s, i).links]
Rooted(s) == TreeOf(Dirs(s), Held(s), Files(s), LinksOf(s))
At(s, p, k) == Ents(s, p)[k].ino
NamedIn(s) == {i \in Ino : \E p \in Dirs(s), k \in Places : At(s, p, k) = i}

Sound(s) == Blocks(s) /\ Counting(s) /\ Owning(s) /\ Rooted(s)

(* An operation between two of its transactions may rely on what it has    *)
(* read before the first.                                                  *)
Child(s, p, i) == p \in Dirs(s) /\ \E k \in Places : At(s, p, k) = i

MkdirGoing(s, o) ==
  /\ o.do = "mkdir" /\ o.begun
  /\ o.dir \in Dirs(s) /\ o.name \in Name
  /\ Lookup(s, o.dir, o.name) = {} /\ HasRoom(s, o.dir)
  /\ o.ino \in InUse(s) \ (NamedIn(s) \cup {Root})
  /\ Inode(s, o.ino) = NewDir
RmdirGoing(s, o) ==
  /\ o.do = "rmdir" /\ o.begun
  /\ Child(s, o.dir, o.ino) /\ o.ino \in Dirs(s)
  /\ \A k \in Places : At(s, o.ino, k) = 0
UnlinkGoing(s, o) ==
  /\ o \in [do : {"unlink"}, begun : BOOLEAN, dir : Ino, ino : Ino,
            todo : SUBSET Counted(Inode(s, o.ino).ext)]
  /\ Child(s, o.dir, o.ino) /\ Inode(s, o.ino).kind = "file"
  /\ \A m \in o.todo : m.pb \in Taken(s)
TruncateGoing(s, o) ==
  LET x == Inode(s, o.ino).ext IN
  /\ o \in [do : {"truncate"}, begun : BOOLEAN, ino : Ino, size : Nat,
            ext : {Kept(x, o.size)}, todo : SUBSET Doomed(x, o.size),
            freed : {Cardinality(Doomed(x, o.size))} \cap Nat]
  /\ o.ino \in NamedIn(s) /\ Inode(s, o.ino).kind = "file"
  /\ \A m \in Counted(x) : m \in o.todo \/ m.lb < BlocksFor(o.size) => m.pb \in Taken(s)
Doing(s, o) ==
  \/ o = Idle
  \/ MkdirGoing(s, o) \/ RmdirGoing(s, o) \/ UnlinkGoing(s, o) \/ TruncateGoing(s, o)

\* whose blocks are being freed
Losing(o) == IF o.begun /\ o.do \in Freeing THEN {o.ino} ELSE {}

Going(s, o) == Sound(s) /\ Doing(s, o) /\ AllTaken(s, Losing(o))
VolumeInv ==
  /\ Going(store, op)
  /\ dirty \in BOOLEAN /\ faults \in 0 .. MaxFaults
FileInv == ~Exposed => VolumeInv

(* As long as no operation was cut short and no write lost, nothing is     *)
(* lost either: inodes in use have a name or are about to get one, blocks  *)
(* that are taken are held, freed inodes are blank.  Of the inode whose    *)
(* blocks are being freed, these are still held:                           *)
Spared(o, m) ==
  \/ o.do \in {"unlink", "truncate"} /\ m \in o.todo
  \/ o.do = "truncate" /\ m.lb < BlocksFor(o.size)
Emptied(o) == IF o.do \in Freeing THEN {o.ino} ELSE {}
Making(o) == IF o.do = "mkdir" THEN {o.ino} ELSE {}
StillHeld(s, o, i) == {m.pb : m \in {k \in Counted(Inode(s, i).ext) : i \in Emptied(o) => Spared(o, k)}}
Tidy(s, o) ==
  /\ Reserved \subseteq InUse(s) \ (NamedIn(s) \cup {Root} \cup Making(o))
  /\ InUse(s) \subseteq NamedIn(s) \cup Reserved \cup {Root} \cup Making(o)
  /\ Taken(s) \subseteq Meta \cup UNION {StillHeld(s, o, i) : i \in InUse(s)}
  /\ \A i \in Reserved : Holds(s, i) = {}
  /\ \A p \in Dirs(s) : Holds(s, p) = {DirBlk(s, p)}
  /\ \A i \in Ino \ InUse(s) : Inode(s, i) = Blank
  /\ \A g \in Group : s[Bgd][g].dirs = Cardinality((Dirs(s) \cup Making(o)) \cap InosOf(g))
TidyInv == interrupted = {} /\ overlapped = {} => Tidy(store, op)

(* The blocks of a file are its bytes, in order, and a truncate shortens.  *)
Complete(s, i) ==
  LET c == Inode(s, i) IN
  /\ BlocksFor(c.size) < LenBit
  /\ {m.lb : m \in Counted(c.ext)} = 0 .. BlocksFor(c.size) - 1
  /\ c.nblk = Cardinality(Counted(c.ext))
  /\ \A m \in Counted(c.ext) : m.pb \in Blk /\ s[Data(m.pb)] = FileData(i)
Filled(s, o) ==
  /\ \A i \in Files(s) : Complete(s, i)
  /\ o.do = "truncate" => o.size <= Inode(s, o.ino).size
FilledInv == ~Exposed => Filled(store, op)

\* a volume a history begins with is sound, and nothing in it is lost
ASSUME ImagesAssumption == \A s \in Images : Going(s, Idle)
ASSUME TidyAssumption == \A s \in Images : Tidy(s, Idle) /\ Filled(s, Idle)
==============================================================================
