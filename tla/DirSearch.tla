------------------------------ MODULE DirSearch ------------------------------
(***************************************************************************)
(* A search through the root directory (FindFirst, FindNext) while other   *)
(* calls change it.  The search block remembers how many matching entries  *)
(* were passed; the pattern is compiled again at every call from the path  *)
(* DOS left in its data area, whatever call put it there.                  *)
(***************************************************************************)
EXTENDS Directory

CONSTANTS
  Everything,  \* the pattern *.*
  Patterns,    \* those searches begin with
  Matches,     \* the names a path's last component matches as a pattern
  MaxChanges   \* bound: changes during a search

ASSUME SearchAssumption ==
  /\ Everything \notin Name
  /\ Patterns \subseteq Spelled \cup {Everything}
  /\ MaxChanges \in Nat
  /\ Matches \in [Spelled \cup {Everything} -> SUBSET Name]

VARIABLE search

vars == <<dirvars, search>>

(* next is the search block's entry number; the rest is history: the       *)
(* pattern the search began with, the entries that matched it then, those  *)
(* shown, whether one shown was shown before, whether matching entries     *)
(* came or went meanwhile, whether FindNext ever saw another path, and     *)
(* whether the search came to its end.                                     *)
NoSearch ==
  [on |-> FALSE, next |-> 0, changes |-> 0, pattern |-> Everything, due |-> {}, shown |-> {},
   twice |-> FALSE, came |-> FALSE, went |-> FALSE, strayed |-> FALSE, over |-> FALSE]

Matching(entries, pat) ==
  FlattenSeq([k \in DOMAIN entries |->
                IF entries[k].name \in Matches[pat] THEN << entries[k] >> ELSE << >>])
Inos(s) == {s[k].ino : k \in DOMAIN s}

\* the entry number after one more was shown
PassedNone(k) == k                                            \* a seeded fault
PassedTwo(k) == k + 2                                         \* a seeded fault
Passed(k) == k + 1

FindFirst(pat) ==
  LET found == Matching(listing[Root], pat) IN
  /\ path' = pat
  /\ found # << >>
  /\ search' = [NoSearch EXCEPT !.on = TRUE, !.next = Passed(@), !.pattern = pat,
                                !.due = Inos(found), !.shown = {found[1].ino}]
  /\ UNCHANGED <<dirs, listing, misplaced>>

Strayed == search.strayed \/ path # search.pattern

FindNext ==
  /\ search.on
  /\ LET found == Matching(listing[Root], path) IN
     search' =
       IF Len(found) > search.next
       THEN LET i == found[search.next + 1].ino IN
            [search EXCEPT !.next = Passed(@), !.shown = @ \cup {i},
                           !.twice = @ \/ i \in search.shown, !.strayed = Strayed]
       ELSE [search EXCEPT !.on = FALSE, !.over = TRUE, !.strayed = Strayed]
  /\ UNCHANGED dirvars

(* Another search begins, here or on another drive.                        *)
OtherSearch(pat) == path' = pat /\ UNCHANGED <<dirs, listing, misplaced, search>>

(* What another call does to a search it knows nothing of.                 *)
Meanwhile ==
  LET before == Inos(Matching(listing[Root], search.pattern))
      after == Inos(Matching(listing'[Root], search.pattern))
  IN /\ search.on /\ dirs' # dirs => search.changes < MaxChanges
     /\ search' = IF ~search.on THEN NoSearch
                  ELSE [search EXCEPT !.changes = IF dirs' = dirs THEN @ ELSE @ + 1,
                                      !.went = @ \/ before \ after # {},
                                      !.came = @ \/ after \ before # {}]

Init == DirInit /\ search = NoSearch

Next ==
  \/ DirNext /\ Meanwhile
  \/ \E pat \in Patterns : FindFirst(pat) \/ OtherSearch(pat)
  \/ FindNext

Spec == Init /\ [][Next]_vars
==============================================================================
