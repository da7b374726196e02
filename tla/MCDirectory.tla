----------------------------- MODULE MCDirectory -----------------------------
(* Blocks of fifteen units with a checksum record; a short name, two long  *)
(* ones only the other system can spell, and the 8.3 form of one of them.  *)
EXTENDS DirInv

CONSTANTS a, v, w, z, star

MCSizeOf == [n \in Name |-> CASE n = v -> 4 [] n = w -> 5 [] n = z -> 6 [] OTHER -> 3]
MCHash == [n \in Name |-> CASE n = a -> 1 [] n = v -> 3 [] n = w -> 2 [] n = z -> 4]
MCAlias == [n \in Name |-> IF n = w THEN v ELSE n]
\* z has an extension, and before it what v is: a pattern without a dot matches both
MCMatches == [n \in Spelled \cup {star} |-> CASE n = star -> Name
                                             [] n = v -> {v, w, z}
                                             [] OTHER -> {n}]

\* a block from its records and their places
Block(recs) ==
  [o \in Offset |-> IF \E r \in recs : r[1] = o
                    THEN (CHOOSE r \in recs : r[1] = o)[2] ELSE Unwritten]
Tail3 == <<BlockSize - 3, Sentinel>>
Filled(recs) == Block(recs \cup {Tail3})

Linear(blks) == [hashed |-> FALSE, levels |-> 0, index |-> << >>, runs |-> 1, blks |-> blks]
Hashed(levels, index, leaves) ==
  [hashed |-> TRUE, levels |-> levels, index |-> index, runs |-> 1, blks |-> leaves]

DotsAnd(i, p, l) == {<<0, Rec(i, 3, ".")>>, <<3, Rec(p, l, "..")>>}
IndexRoot(i, p) == Block(DotsAnd(i, p, BlockSize - 3))

\* a root of two blocks, the second one with a gap and slack
Wide ==
  (Root :> Linear(<< Filled(DotsAnd(Root, Root, 3) \cup {<<6, Rec(3, 6, a)>>}),
                     Filled({<<0, Rec(0, 3, "")>>, <<3, Rec(6, 9, z)>>}) >>))
  @@ (3 :> Linear(<< Filled(DotsAnd(3, Root, 3) \cup {<<6, Rec(4, 6, w)>>}) >>))

\* a root with an index: names of hash below 3 in the second leaf
Indexes == << [hash |-> 0, leaf |-> 2], [hash |-> 3, leaf |-> 1] >>
HashedRoot ==
  (Root :> Hashed(0, Indexes,
             << IndexRoot(Root, Root), Filled({<<0, Rec(6, 12, z)>>}),
                Filled({<<0, Rec(4, 5, w)>>, <<5, Rec(3, 7, a)>>}) >>))
  @@ (3 :> Linear(<< FreshBlock(3, Root) >>))

\* a directory whose index has two levels, its blocks in so many extents; a long
\* name stands before a name that is its 8.3 form
Deep(runs) ==
  (Root :> Linear(<< Filled(DotsAnd(Root, Root, 3) \cup {<<6, Rec(3, 6, a)>>}) >>))
  @@ (3 :> [Hashed(1, << >>, << IndexRoot(3, Root), Block({<<0, Rec(0, BlockSize, "")>>}),
                                Filled({<<0, Rec(4, 5, w)>>, <<5, Rec(5, 7, v)>>}) >>)
            EXCEPT !.runs = runs])

MCImages == {Wide, HashedRoot, Deep(2)}
OneExtent == {Deep(1)}       \* for the run that shows a disagreement

\* Stale records tell nothing.  Of a search nothing does once no property speaks
\* of it: what calls make of directories they also make where none goes on.
Seen(blk) == [o \in Range(Offsets(blk)) |-> blk[o]]
Telling ==
  IF search.strayed \/ (search.came /\ search.went) THEN [NoSearch EXCEPT !.strayed = TRUE]
  ELSE [search EXCEPT !.due = IF search.went THEN {} ELSE @, !.twice = @ /\ ~search.came]
MCView ==
  <<[p \in DOMAIN dirs |-> [dirs[p] EXCEPT !.blks = [k \in DOMAIN @ |-> Seen(@[k])]]],
    misplaced, path = search.pattern /\ search.on, Telling>>
==============================================================================
