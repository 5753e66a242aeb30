------------------------------- MODULE RunView -------------------------------
(***************************************************************************)
(* What a run promises to the clients that poll GET /runs/{run_id}: the    *)
(* "status" and "jobs" fields of RunState.to_dict, and nothing of the      *)
(* threads, the scheduler or the log behind them.                          *)
(*                                                                         *)
(* A job's entry is written at most once.  A job that was executed had     *)
(* every job it needs recorded as succeeded before; of a job recorded as   *)
(* skipped one that it needs, directly or through others, was recorded as  *)
(* failed before, or the run has seen an integrity failure (entries of     *)
(* skipped jobs come one by one, in no order that follows the needs).      *)
(* The run's status moves from queued through running                      *)
(* to a terminal status, which is "succeeded" only when every job is.      *)
(***************************************************************************)
CONSTANT Jobs

VARIABLES
  needs,    \* the "needs" list of every job of the submitted pipeline
  status,   \* RunState.status
  jobs      \* RunState.jobs: the recorded status per job, "none" = no entry

vars == <<needs, status, jobs>>

Executed == {"succeeded", "failed", "integrity_failure"}

NeedsGraphs == {g \in [Jobs -> SUBSET Jobs] : \A j \in Jobs : j \notin g[j]}

\* No set of jobs each of which needs a member of the set.
Acyclic ==
  ~ \E S \in SUBSET Jobs : S # {} /\ \A j \in S : needs[j] \cap S # {}

Init ==
  /\ needs \in NeedsGraphs
  /\ status = "queued"
  /\ jobs = [j \in Jobs |-> "none"]

\* The run ends before any job: its dependencies or its needs do not resolve.
Refuse ==
  /\ status = "queued"
  /\ status' \in {"cycle_failure", "conflict_failure", "failed"}
  /\ UNCHANGED <<needs, jobs>>

Begin ==
  /\ status = "queued"
  /\ Acyclic
  /\ status' = "running"
  /\ UNCHANGED <<needs, jobs>>

MayBeExecuted(j) == \A n \in needs[j] : jobs[n] = "succeeded"

\* What job j needs, directly or through other jobs.
Upstream(j) ==
  {n \in Jobs : \A S \in SUBSET Jobs :
     needs[j] \subseteq S /\ (\A k \in S : needs[k] \subseteq S) => n \in S}

MayBeSkipped(j) ==
  \/ \E n \in Upstream(j) : jobs[n] \in {"failed", "integrity_failure"}
  \/ \E k \in Jobs : jobs[k] = "integrity_failure"

\* One entry appears; none is ever changed or removed.
Record(j) ==
  /\ status = "running"
  /\ jobs[j] = "none"
  /\ \/ MayBeExecuted(j) /\ \E e \in Executed : jobs' = [jobs EXCEPT ![j] = e]
     \/ MayBeSkipped(j) /\ jobs' = [jobs EXCEPT ![j] = "skipped"]
  /\ UNCHANGED <<needs, status>>

\* "failed" is also what an error of the engine itself turns a run into.
Conclude ==
  /\ status = "running"
  /\ \/ /\ status' = "succeeded"
        /\ \A j \in Jobs : jobs[j] = "succeeded"
     \/ /\ status' = "integrity_failure"
        /\ \E j \in Jobs : jobs[j] = "integrity_failure"
        /\ \A j \in Jobs : jobs[j] # "none"
     \/ status' = "failed"
  /\ UNCHANGED <<needs, jobs>>

Next == Refuse \/ Begin \/ (\E j \in Jobs : Record(j)) \/ Conclude

Spec == Init /\ [][Next]_vars
=============================================================================
