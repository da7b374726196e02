----------------------------- MODULE JournalLive -----------------------------
(***************************************************************************)
(* Liveness of the mount: from some point on, which nobody can foresee,    *)
(* the device fails no more and the power stays on.                        *)
(***************************************************************************)
EXTENDS JournalCorrect

VARIABLE quiet   \* no failure happens from here on

QuietInit == Init /\ quiet = FALSE

QuietNext ==
  \/ Work /\ UNCHANGED quiet
  \/ ~quiet /\ Failure /\ UNCHANGED quiet
  \/ ~quiet /\ quiet' = TRUE /\ UNCHANGED vars

(* The loops of a mount or a commit run to completion inside one call: the *)
(* driver's own steps are weakly fair.  Nobody has to call it.             *)
QuietSpec ==
  QuietInit /\ [][QuietNext]_<<vars, quiet>> /\ WF_<<vars, quiet>>(Driver /\ UNCHANGED quiet)

(* A mount for writing of a log that still holds a transaction ends, with  *)
(* the log clean on disk and in memory, so that commits are accepted       *)
(* again: ext4_fs_open's walk and checkpoint after any earlier failure.    *)
MountCleansLog ==
  quiet /\ writable /\ pc = "walk" ~> pc = "idle" /\ jStart = 0 /\ start = 0
==============================================================================
