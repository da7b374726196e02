----------------------------- MODULE MCResident -----------------------------
(* Two copies of the redirector, two other programs, two letters of DOS     *)
(* and one behind its table.                                                *)
EXTENDS Resident, TLC

CONSTANTS c1, c2, t1, t2

\* copies are alike, and so are the other programs
Alike == {x @@ y : x \in Permutations(Copy), y \in Permutations(Other)}
==============================================================================
