----------------------------- MODULE MCJobRunner -----------------------------
(* The instances of JobRunner that TLC checks. *)
EXTENDS JobRunner

\* Two runs start the same job.
OneJob == [c \in Calls |-> "build"]
JobNames == {"build"}
=============================================================================
