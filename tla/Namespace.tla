------------------------------ MODULE Namespace ------------------------------
(***************************************************************************)
(* What the file operations promise a program: a tree of names that        *)
(* changes one whole operation at a time.  An operation that failed or was *)
(* cut short has happened or has not.                                      *)
(***************************************************************************)
EXTENDS Naturals, FiniteSets

CONSTANTS Ino, Root, Name

VARIABLES
  tree,   \* entries [dir, name, ino]
  dirs,   \* the inodes that are directories, Root among them
  size    \* the bytes of every other inode that has a name

nsvars == <<tree, dirs, size>>

Named == {e.ino : e \in tree}
Entry(p, n, i) == [dir |-> p, name |-> n, ino |-> i]
FreeName(p, n) == p \in dirs /\ \A e \in tree : ~(e.dir = p /\ e.name = n)
Without(f, i) == [k \in DOMAIN f \ {i} |-> f[k]]
With(f, i, v) == [k \in DOMAIN f \cup {i} |-> IF k = i THEN v ELSE f[k]]

\* what is above a directory
Above(t, p) ==
  LET up[d \in 0 .. Cardinality(Ino)] ==
        IF d = 0 THEN {p}
        ELSE LET at == up[d - 1] IN at \cup {e.dir : e \in {x \in t : x.ino \in at}}
  IN up[Cardinality(Ino)]

Create(p, n, i) ==
  /\ FreeName(p, n)
  /\ i \notin Named
  /\ tree' = tree \cup {Entry(p, n, i)}
  /\ size' = With(size, i, 0)
  /\ UNCHANGED dirs

Mkdir(p, n, i) ==
  /\ FreeName(p, n)
  /\ i \notin Named \cup {Root}
  /\ tree' = tree \cup {Entry(p, n, i)}
  /\ dirs' = dirs \cup {i}
  /\ UNCHANGED size

Delete(e) ==
  /\ e.ino \notin dirs
  /\ tree' = tree \ {e}
  /\ size' = Without(size, e.ino)
  /\ UNCHANGED dirs

Rmdir(e) ==
  /\ e.ino \in dirs
  /\ \A x \in tree : x.dir # e.ino
  /\ tree' = tree \ {e}
  /\ dirs' = dirs \ {e.ino}
  /\ UNCHANGED size

Rename(e, q, n) ==
  /\ FreeName(q, n)
  /\ e.ino \notin Above(tree, q)
  /\ tree' = (tree \ {e}) \cup {Entry(q, n, e.ino)}
  /\ UNCHANGED <<dirs, size>>

Resize(i, n) ==
  /\ i \in DOMAIN size
  /\ size' = [size EXCEPT ![i] = n]
  /\ UNCHANGED <<tree, dirs>>

Next ==
  \/ \E e \in tree' \ tree : Create(e.dir, e.name, e.ino) \/ Mkdir(e.dir, e.name, e.ino)
  \/ \E e \in tree \ tree' :
       Delete(e) \/ Rmdir(e) \/ \E f \in tree' \ tree : Rename(e, f.dir, f.name)
  \/ \E i \in DOMAIN size \cap DOMAIN size' : Resize(i, size'[i])
==============================================================================
