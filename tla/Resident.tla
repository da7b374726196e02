------------------------------ MODULE Resident ------------------------------
(***************************************************************************)
(* How the redirector comes into memory and leaves it (tsr.c: main,        *)
(* hook_cds, do_uninstall and the removal call of its INT 2Fh handler),    *)
(* among other resident programs that hook the same interrupts and own     *)
(* drive letters.  A program's run up to staying resident or ending is one *)
(* step: DOS runs one program at a time.  A run that finds no volume it    *)
(* can serve ends before it touches what is described here.                *)
(***************************************************************************)
EXTENDS Naturals, FiniteSetsExt, Functions

CONSTANTS
  Copy,        \* runs of this program that may be in memory at once
  Other,       \* other resident programs
  Letter,      \* drive indices, D: is 3
  LastDrive    \* DOS has an entry for the indices below

ASSUME ResidentAssumption ==
  /\ Copy \cap Other = {}
  /\ Letter \subseteq Nat \ 0 .. 2 /\ LastDrive \in Nat
  /\ {"dos", "free", "other"} \cap (Copy \cup Other) = {}

Vector == {"21", "2F"}

VARIABLES
  vec,      \* the interrupt vectors
  prev,     \* what a program in memory found in the vectors it hooked
  cds,      \* DOS's drive table: whom a letter belongs to
  entry,    \* g_cds_entry: the letter a copy in memory took
  seized    \* history: a letter was named that was not free

vars == <<vec, prev, cds, entry, seized>>

InMemory == DOMAIN prev
Hooks(h, v) == h \in InMemory /\ v \in DOMAIN prev[h]

\* the handlers that a call of interrupt v comes to from h on, if those of ends
\* do not pass it on: the least set that holds h and what its members replaced
Handler == {"dos"} \cup Copy \cup Other
Passing(S, v, ends) == \A x \in S : Hooks(x, v) /\ x \notin ends => prev[x][v] \in S
ComesTo(h, v, ends) ==
  {x \in Handler : \A S \in SUBSET Handler : h \in S /\ Passing(S, v, ends) => x \in S}
Reached(v) == ComesTo(vec[v], v, {})

\* f, with y at x as well
With(f, x, y) == [z \in DOMAIN f \cup {x} |-> IF z = x THEN y ELSE f[z]]

-----------------------------------------------------------------------------
(* Running the program; the user may name a letter.                        *)

PickAny == {l \in Letter : l < LastDrive}                     \* a seeded fault
PickDriveLetter == {l \in Letter : l < LastDrive /\ cds[l] = "free"}
LetterFor(told) ==
  IF told = {} THEN IF PickDriveLetter = {} THEN {} ELSE {Min(PickDriveLetter)}
  ELSE told

StayResident(c, told) ==
  /\ c \notin InMemory
  /\ \E l \in LetterFor(told) :
       /\ cds' = [cds EXCEPT ![l] = c]
       /\ entry' = With(entry, c, l)
       /\ seized' = (seized \/ (told # {} /\ cds[l] # "free"))
  /\ prev' = With(prev, c, vec)
  /\ vec' = [v \in Vector |-> c]

-----------------------------------------------------------------------------
(* EXT4 -u: the removal call goes down INT 2Fh and the first copy it comes *)
(* to answers it; the caller then frees that copy's memory, if DOS lets it.*)

Answering == Copy \cap ComesTo(vec["2F"], "2F", Copy)

OnTop2F(c) == vec["2F"] = c                                   \* a seeded fault
OnTop(c) == \A v \in Vector : vec[v] = c

LetterKept(c) == cds                                          \* a seeded fault
LetterFreed(c) == [cds EXCEPT ![entry[c]] = "free"]

Uninstall ==
  \E c \in Answering :
     /\ OnTop(c)
     /\ vec' = prev[c]
     /\ cds' = LetterFreed(c)
     /\ \/ /\ prev' = Restrict(prev, InMemory \ {c})
           /\ entry' = Restrict(entry, DOMAIN entry \ {c})
        \/ UNCHANGED <<prev, entry>>
     /\ UNCHANGED seized

-----------------------------------------------------------------------------
(* Other programs: they hook what they like and let go only of what they   *)
(* are on top of; drives come and go (SUBST, drivers of other disks).      *)

OtherHooks(t, V) ==
  /\ t \notin InMemory
  /\ prev' = With(prev, t, [v \in V |-> vec[v]])
  /\ vec' = [v \in Vector |-> IF v \in V THEN t ELSE vec[v]]
  /\ UNCHANGED <<cds, entry, seized>>

OtherUnhooks(t) ==
  /\ t \in InMemory
  /\ \A v \in DOMAIN prev[t] : vec[v] = t
  /\ vec' = [v \in Vector |-> IF v \in DOMAIN prev[t] THEN prev[t][v] ELSE vec[v]]
  /\ prev' = Restrict(prev, InMemory \ {t})
  /\ UNCHANGED <<cds, entry, seized>>

DriveTurns(l, from, to) ==
  /\ l < LastDrive /\ cds[l] = from
  /\ cds' = [cds EXCEPT ![l] = to]
  /\ UNCHANGED <<vec, prev, entry, seized>>

Init ==
  /\ vec = [v \in Vector |-> "dos"]
  /\ prev = << >> /\ entry = << >>
  /\ cds \in [Letter -> {"free", "other"}]
  /\ \A l \in Letter : l >= LastDrive => cds[l] = "other"
  /\ seized = FALSE

Next ==
  \/ \E c \in Copy : StayResident(c, {}) \/ \E l \in Letter : StayResident(c, {l})
  \/ Uninstall
  \/ \E t \in Other :
       \/ \E V \in SUBSET Vector \ {{}} : OtherHooks(t, V)
       \/ OtherUnhooks(t)
  \/ \E l \in Letter : DriveTurns(l, "free", "other") \/ DriveTurns(l, "other", "free")

Spec == Init /\ [][Next]_vars

-----------------------------------------------------------------------------

\* In whatever order this and other programs come, hook one vector or both, and
\* go: no interrupt leads into memory that was given back, and no other program's
\* hook is cut out of its chain (tsr.c:1204, 2785).
ChainsIntact ==
  \A v \in Vector :
    /\ \A h \in Reached(v) : h = "dos" \/ Hooks(h, v)
    /\ \A t \in Other : Hooks(t, v) => t \in Reached(v)

\* A letter that DOS sends to a copy of the redirector belongs to one that the
\* calls reach, and that took this letter (tsr.c:2601, 2893).
DrivesServed ==
  \A l \in Letter : cds[l] \in Copy =>
    cds[l] \in Reached("2F") /\ cds[l] \in DOMAIN entry /\ entry[cds[l]] = l

\* Unless the user named a letter that was taken, neither coming nor going takes a
\* drive from another owner (tsr.c:2679, 1226).
OthersDrivesKept ==
  [][~seized' /\ vec' # vec => \A l \in Letter : cds[l] = "other" => cds'[l] = "other"]_vars
==============================================================================
