----------------------------- MODULE PipelineRun -----------------------------
(***************************************************************************)
(* One run of a pipeline in the engine: execute_pipeline of                *)
(* engine/main.py on its background thread, the DAGScheduler statuses it   *)
(* keeps (engine/scheduler.py), and the worker threads of the level's      *)
(* ThreadPoolExecutor, each inside execute_job.                            *)
(*                                                                         *)
(* The pipeline thread is sequential; pc names the statement it is at.     *)
(* What a worker does is abstracted to how its future ends: a normal       *)
(* result, an IntegrityError from pull_deps, or any other exception (a     *)
(* registry error, a refused publish, a Docker error).                     *)
(***************************************************************************)
EXTENDS Integers, FiniteSets

CONSTANTS
  Jobs,               \* the keys of the pipeline's "jobs" mapping
  CONCURRENCY_LIMIT   \* config.CONCURRENCY_LIMIT, the pool's max_workers

ASSUME JobsAssumption == IsFiniteSet(Jobs) /\ Jobs # {}
ASSUME LimitAssumption == CONCURRENCY_LIMIT \in Nat \ {0}

VARIABLES
  needs,            \* jobs_config[j]["needs"], fixed at submission
  pc,               \* the statement execute_pipeline is at
  status,           \* RunState.status
  jobs,             \* RunState.jobs, "none" where there is no entry
  job_statuses,     \* DAGScheduler.job_statuses
  processed,        \* the jobs of the levels the loop has taken
  level,            \* the jobs of jobs_in_level it has yet to come to
  futures,          \* the state or the outcome of each submitted future
  awaited,          \* the futures as_completed has not yielded yet
  integrity_failed, \* the local flag of execute_pipeline
  alerts,           \* the kinds of Slack alert posted for this run
  checker           \* is the run's status checker registered (engine/logs.py)

vars == <<needs, pc, status, jobs, job_statuses, processed, level, futures,
          awaited, integrity_failed, alerts, checker>>

\* What the statements outside the level loop leave alone.
work == <<needs, jobs, job_statuses, processed, level, futures, awaited,
          integrity_failed>>

-----------------------------------------------------------------------------
(* Values *)

RunStatuses == {"queued", "running", "succeeded", "failed",
                "integrity_failure", "conflict_failure", "cycle_failure"}
Terminal == RunStatuses \ {"queued", "running"}

Results == {"succeeded", "failed"}
Outcomes == Results \cup {"IntegrityError", "Exception"}
Unfinished == {"pending", "running"}

AlertKinds == {"pipeline_started", "pipeline_succeeded", "pipeline_failed",
               "integrity_failure", "resolution_failure"}

Steps == {"resolve", "schedule", "level", "submit", "cut_off", "collect",
          "record", "drain", "verdict", "report", "unregister", "done"}

\* The parser accepts any existing job but the job itself; cycles pass it.
NeedsGraphs == {g \in [Jobs -> SUBSET Jobs] : \A j \in Jobs : j \notin g[j]}

-----------------------------------------------------------------------------
(* The scheduler *)

\* _detect_cycles: no set of jobs each of which needs a member of the set.
Acyclic ==
  ~ \E S \in SUBSET Jobs : S # {} /\ \A j \in S : needs[j] \cap S # {}

\* Mutant: the plan forgets which jobs it has placed.
LevelForgetful == {j \in Jobs : needs[j] \subseteq processed}

\* get_execution_plan: the next level, every unprocessed job all of whose
\* needs are processed.
Level == {j \in Jobs \ processed : needs[j] \subseteq processed}

\* skip_dependents visits every dependent of a visited job that has not
\* succeeded; a set closed under that, from job on.
SkipClosed(st, job, S) ==
  \A d \in Jobs :
    st[d] # "succeeded" /\ needs[d] \cap (S \cup {job}) # {} => d \in S

\* Mutant: only the direct dependents are visited.
SkipSetDirect(st, job) == {d \in Jobs : st[d] # "succeeded" /\ job \in needs[d]}

\* The jobs the recursion visits: the least closed set.
SkipSet(st, job) ==
  {d \in Jobs : \A S \in SUBSET Jobs : SkipClosed(st, job, S) => d \in S}

\* Mutant: a failure skips every job that has not run, dependent or not.
mark_job_failed_all(st, job) ==
  [d \in Jobs |-> IF d = job THEN "failed"
                  ELSE IF st[d] = "queued" THEN "skipped"
                  ELSE st[d]]

mark_job_failed(st, job) ==
  [d \in Jobs |-> IF d = job THEN "failed"
                  ELSE IF d \in SkipSet(st, job) THEN "skipped"
                  ELSE st[d]]

\* Mutant: the scheduler never learns of a result.
update_job_status_lost(st, job, s) == st

update_job_status(st, job, s) == [st EXCEPT ![job] = s]

-----------------------------------------------------------------------------
(* submit_pipeline has created the run, posted the start alert, registered  *)
(* the status checker and queued the background task.                       *)

Init ==
  /\ needs \in NeedsGraphs
  /\ pc = "resolve"
  /\ status = "queued"
  /\ jobs = [j \in Jobs |-> "none"]
  /\ job_statuses = [j \in Jobs |-> "queued"]
  /\ processed = {} /\ level = {}
  /\ futures = [j \in Jobs |-> "none"]
  /\ awaited = {}
  /\ integrity_failed = FALSE
  /\ alerts = {"pipeline_started"}
  /\ checker = TRUE

-----------------------------------------------------------------------------
(* execute_pipeline, before the first level *)

Resolved ==
  /\ pc = "resolve"
  /\ pc' = "schedule"
  /\ UNCHANGED <<work, status, alerts, checker>>

\* CycleError, or ConflictError and ResolutionError.
ResolutionRejected ==
  /\ pc = "resolve"
  /\ status' \in {"cycle_failure", "conflict_failure"}
  /\ alerts' = alerts \cup {"resolution_failure"}
  /\ pc' = "unregister"
  /\ UNCHANGED <<work, checker>>

\* Any other exception of the resolver or of writing lockfile.json.
ResolutionCrashed ==
  /\ pc = "resolve"
  /\ status' = "failed"
  /\ pc' = "unregister"
  /\ UNCHANGED <<work, alerts, checker>>

\* DAGScheduler(...) and get_execution_plan() return.
Scheduled ==
  /\ pc = "schedule"
  /\ Acyclic
  /\ status' = "running"
  /\ pc' = "level"
  /\ UNCHANGED <<work, alerts, checker>>

\* DAGScheduler(...) raises ValueError.
CycleRejected ==
  /\ pc = "schedule"
  /\ ~ Acyclic
  /\ status' = "cycle_failure"
  /\ alerts' = alerts \cup {"resolution_failure"}
  /\ pc' = "unregister"
  /\ UNCHANGED <<work, checker>>

-----------------------------------------------------------------------------
(* The level loop *)

TakeLevel ==
  /\ pc = "level" /\ Level # {}
  /\ level' = Level
  /\ processed' = processed \cup Level
  /\ pc' = IF integrity_failed THEN "cut_off" ELSE "submit"
  /\ UNCHANGED <<needs, status, jobs, job_statuses, futures, awaited,
                 integrity_failed, alerts, checker>>

\* executor.submit: the workers begin while the loop goes on.
Submit(j) ==
  /\ pc = "submit" /\ j \in level
  /\ job_statuses[j] # "skipped"
  /\ level' = level \ {j}
  /\ awaited' = awaited \cup {j}
  /\ futures' = [futures EXCEPT ![j] = "pending"]
  /\ UNCHANGED <<needs, pc, status, jobs, job_statuses, processed,
                 integrity_failed, alerts, checker>>

SkipInLevel(j) ==
  /\ pc = "submit" /\ j \in level
  /\ job_statuses[j] = "skipped"
  /\ level' = level \ {j}
  /\ jobs' = [jobs EXCEPT ![j] = "skipped"]
  /\ UNCHANGED <<needs, pc, status, job_statuses, processed, futures, awaited,
                 integrity_failed, alerts, checker>>

\* Mutant: after an integrity failure the remaining levels are passed over.
CutOffSilently(j) ==
  /\ pc = "cut_off" /\ j \in level
  /\ level' = level \ {j}
  /\ UNCHANGED <<needs, pc, status, jobs, job_statuses, processed, futures,
                 awaited, integrity_failed, alerts, checker>>

\* After an integrity failure every job without an entry is skipped.
CutOff(j) ==
  /\ pc = "cut_off" /\ j \in level
  /\ level' = level \ {j}
  /\ jobs' = [jobs EXCEPT ![j] = IF @ = "none" THEN "skipped" ELSE @]
  /\ UNCHANGED <<needs, pc, status, job_statuses, processed, futures, awaited,
                 integrity_failed, alerts, checker>>

LevelTaken ==
  /\ pc \in {"submit", "cut_off"} /\ level = {}
  /\ pc' = IF pc = "submit" THEN "collect" ELSE "level"
  /\ UNCHANGED <<work, status, alerts, checker>>

PlanExhausted ==
  /\ pc = "level"
  /\ Level = {}
  /\ pc' = "verdict"
  /\ UNCHANGED <<work, status, alerts, checker>>

\* future.result() returns (exit_code, status, artifacts): the job's own entry.
CollectResult(j) ==
  /\ pc = "collect"
  /\ j \in awaited
  /\ futures[j] \in Results
  /\ awaited' = awaited \ {j}
  /\ jobs' = [jobs EXCEPT ![j] = futures[j]]
  /\ LET st == update_job_status(job_statuses, j, futures[j]) IN
       job_statuses' = IF futures[j] = "failed" THEN mark_job_failed(st, j)
                       ELSE st
  /\ pc' = "record"
  /\ UNCHANGED <<needs, status, processed, level, futures, integrity_failed,
                 alerts, checker>>

\* The jobs that the scheduler holds as skipped and that have no entry.
Unrecorded == {d \in Jobs : job_statuses[d] = "skipped" /\ jobs[d] = "none"}

\* The loop over get_all_statuses() inserts their entries one by one.
RecordSkip(d) ==
  /\ pc = "record"
  /\ d \in Unrecorded
  /\ jobs' = [jobs EXCEPT ![d] = "skipped"]
  /\ UNCHANGED <<needs, pc, status, job_statuses, processed, level, futures,
                 awaited, integrity_failed, alerts, checker>>

SkipsDone ==
  /\ pc = "record" /\ Unrecorded = {}
  /\ pc' = "collect"
  /\ UNCHANGED <<work, status, alerts, checker>>

\* future.result() raises IntegrityError; the skipped dependents get their
\* entries later, the handler ends with "continue".
CollectIntegrityError(j) ==
  /\ pc = "collect"
  /\ j \in awaited
  /\ futures[j] = "IntegrityError"
  /\ awaited' = awaited \ {j}
  /\ integrity_failed' = TRUE
  /\ alerts' = alerts \cup {"integrity_failure"}
  /\ jobs' = [jobs EXCEPT ![j] = "integrity_failure"]
  /\ job_statuses' = mark_job_failed(job_statuses, j)
  /\ UNCHANGED <<needs, pc, status, processed, level, futures, checker>>

\* future.result() raises anything else: the exception leaves the loop and
\* the "with" block, which waits for every future of the pool.
CollectException(j) ==
  /\ pc = "collect"
  /\ j \in awaited
  /\ futures[j] = "Exception"
  /\ awaited' = awaited \ {j}
  /\ pc' = "drain"
  /\ UNCHANGED <<needs, status, jobs, job_statuses, processed, level, futures,
                 integrity_failed, alerts, checker>>

\* log_streamer.write raises in the IntegrityError handler (a full disk): the
\* flag is set, the entry, the alert and the skips are not.
IntegrityLogFails(j) ==
  /\ pc = "collect"
  /\ j \in awaited
  /\ futures[j] = "IntegrityError"
  /\ awaited' = awaited \ {j}
  /\ integrity_failed' = TRUE
  /\ pc' = "drain"
  /\ UNCHANGED <<needs, status, jobs, job_statuses, processed, level, futures,
                 alerts, checker>>

LevelCollected ==
  /\ pc = "collect"
  /\ awaited = {}
  /\ pc' = "level"
  /\ UNCHANGED <<work, status, alerts, checker>>

\* Mutant: the pool is shut down without waiting.
DrainedWithoutWaiting ==
  /\ pc = "drain"
  /\ status' = "failed"
  /\ pc' = "unregister"
  /\ UNCHANGED <<work, alerts, checker>>

\* The pool is shut down, then the outer handler records the failure.
Drained ==
  /\ pc = "drain"
  /\ \A j \in Jobs : futures[j] \notin Unfinished
  /\ status' = "failed"
  /\ pc' = "unregister"
  /\ UNCHANGED <<work, alerts, checker>>

-----------------------------------------------------------------------------
(* The end of the run *)

\* Mutant: failed jobs are looked for first.
VerdictFailuresFirst ==
  IF \E j \in Jobs : jobs[j] = "failed" THEN "failed"
  ELSE IF integrity_failed THEN "integrity_failure"
  ELSE "succeeded"

\* The status computed from the flag and from the entries.
RunVerdict ==
  IF integrity_failed \/ \E j \in Jobs : jobs[j] = "integrity_failure"
    THEN "integrity_failure"
  ELSE IF \E j \in Jobs : jobs[j] = "failed" THEN "failed"
  ELSE "succeeded"

Conclude ==
  /\ pc = "verdict"
  /\ status' = RunVerdict
  /\ pc' = "report"
  /\ UNCHANGED <<work, alerts, checker>>

Report ==
  /\ pc = "report"
  /\ alerts' = alerts \cup {IF status = "succeeded" THEN "pipeline_succeeded"
                            ELSE "pipeline_failed"}
  /\ pc' = "unregister"
  /\ UNCHANGED <<work, status, checker>>

\* Mutant: the checker is removed on the way out of a run with a verdict only.
UnregisterAfterVerdict ==
  /\ pc = "unregister"
  /\ checker' = (alerts \cap {"pipeline_succeeded", "pipeline_failed"} = {})
  /\ pc' = "done"
  /\ UNCHANGED <<work, status, alerts>>

\* The finally block.
Unregister ==
  /\ pc = "unregister"
  /\ checker' = FALSE
  /\ pc' = "done"
  /\ UNCHANGED <<work, status, alerts>>

\* The background task is over; the run stays in run_storage.
Done == pc = "done" /\ UNCHANGED vars

-----------------------------------------------------------------------------
(* The worker threads of the pool *)

WorkerStart(j) ==
  /\ futures[j] = "pending"
  /\ Cardinality({k \in Jobs : futures[k] = "running"}) < CONCURRENCY_LIMIT
  /\ futures' = [futures EXCEPT ![j] = "running"]
  /\ UNCHANGED <<needs, pc, status, jobs, job_statuses, processed, level,
                 awaited, integrity_failed, alerts, checker>>

\* execute_job returns or raises.
WorkerEnd(j) ==
  /\ futures[j] = "running"
  /\ \E o \in Outcomes : futures' = [futures EXCEPT ![j] = o]
  /\ UNCHANGED <<needs, pc, status, jobs, job_statuses, processed, level,
                 awaited, integrity_failed, alerts, checker>>

-----------------------------------------------------------------------------

Pipeline ==
  \/ Resolved \/ ResolutionRejected \/ ResolutionCrashed
  \/ Scheduled \/ CycleRejected
  \/ TakeLevel \/ LevelTaken \/ PlanExhausted
  \/ \E j \in Jobs : \/ Submit(j) \/ SkipInLevel(j) \/ CutOff(j)
                     \/ CollectResult(j) \/ RecordSkip(j)
                     \/ CollectIntegrityError(j) \/ CollectException(j)
                     \/ IntegrityLogFails(j)
  \/ SkipsDone \/ LevelCollected \/ Drained
  \/ Conclude \/ Report \/ Unregister

Next ==
  \/ Pipeline
  \/ \E j \in Jobs : WorkerStart(j) \/ WorkerEnd(j)
  \/ Done

\* The background thread runs and an idle pool thread takes the next job.
\* Nothing says that a job ever returns: WorkerEnd has no fairness.
Fairness ==
  /\ WF_vars(Pipeline)
  /\ \A j \in Jobs : WF_vars(WorkerStart(j))

Spec == Init /\ [][Next]_vars

FairSpec == Spec /\ Fairness

-----------------------------------------------------------------------------
(* Properties *)

\* Every variable keeps its type: in particular no entry of RunState.jobs and
\* no run status is ever a value outside the documented ones.
TypeOK ==
  /\ needs \in NeedsGraphs
  /\ pc \in Steps
  /\ status \in RunStatuses
  /\ jobs \in [Jobs -> {"none", "succeeded", "failed", "skipped",
                        "integrity_failure"}]
  /\ job_statuses \in [Jobs -> {"queued", "succeeded", "failed", "skipped"}]
  /\ processed \in SUBSET Jobs /\ level \in SUBSET Jobs
  /\ futures \in [Jobs -> {"none"} \cup Unfinished \cup Outcomes]
  /\ awaited \in SUBSET Jobs
  /\ integrity_failed \in BOOLEAN
  /\ alerts \in SUBSET AlertKinds
  /\ checker \in BOOLEAN

\* No job is handed to a worker unless every job it needs, directly or through
\* others, has been recorded as succeeded: the level barrier, mark_job_failed
\* and the integrity flag together keep a job off a broken input.
StartsAfterNeeds ==
  \A j \in Jobs : futures[j] # "none" =>
    \A n \in needs[j] : jobs[n] = "succeeded"

\* What job j needs, directly or through other jobs.
Upstream(j) ==
  {n \in Jobs : \A S \in SUBSET Jobs :
     needs[j] \subseteq S /\ (\A k \in S : needs[k] \subseteq S) => n \in S}

\* Skips and failures belong together (mark_job_failed, README.md:51), at every
\* moment a client may look: a job is recorded as skipped only when one that it
\* needs, directly or through others, is recorded as failed, or the run has met
\* an integrity failure.  The entries are made one by one in any order, but once
\* the run is over a failure has reached every job that depends on it.
SkipJustified ==
  \A j \in Jobs :
    /\ jobs[j] = "skipped" =>
         \/ \E n \in Upstream(j) : jobs[n] \in {"failed", "integrity_failure"}
         \/ \E k \in Jobs : jobs[k] = "integrity_failure"
    /\ status \in Terminal =>
         \A n \in Upstream(j) : jobs[n] = "failed" => jobs[j] = "skipped"

\* The verdict agrees with the entries: a run succeeds only if every job of the
\* pipeline was executed and succeeded; and of a run that is reported as failed
\* an integrity failure is told before any other, whatever else has failed
\* beside it, while "failed" is said only of a run without one.
VerdictSound ==
  /\ status = "succeeded" => \A j \in Jobs : jobs[j] = "succeeded"
  /\ "pipeline_failed" \in alerts =>
       IF \E j \in Jobs : jobs[j] = "integrity_failure"
         THEN status = "integrity_failure"
         ELSE status = "failed" /\ \E j \in Jobs : jobs[j] = "failed"

\* A run that came to a verdict accounts for every job of the pipeline, the
\* ones of the levels an integrity failure has cut off included.
AllAccounted ==
  pc = "report" => \A j \in Jobs : jobs[j] # "none"

\* Once clients see a terminal status no job of the run is waiting or running:
\* the pool is drained even when an exception ends the run.
QuietWhenOver ==
  status \in Terminal => \A j \in Jobs : futures[j] \notin Unfinished

\* The run ends and its status checker is removed, unless a job never returns.
RunSettles ==
  \/ <>(pc = "done" /\ ~ checker /\ status \in Terminal)
  \/ <>[](\E j \in Jobs : futures[j] = "running")

\* A run, seen through GET /runs/{run_id}, behaves as RunView promises.
View == INSTANCE RunView
          WITH Jobs <- Jobs, needs <- needs, status <- status, jobs <- jobs
ViewSpec == View!Spec

-----------------------------------------------------------------------------
(* The inductive invariant behind StartsAfterNeeds, SkipJustified,          *)
(* VerdictSound, AllAccounted and QuietWhenOver.                            *)

InLevels == {"level", "submit", "cut_off", "collect", "record", "drain",
             "verdict", "report"}
Collecting == {"submit", "collect", "record"}
Broken == {"failed", "skipped"}

\* The levels taken so far are closed under needs, nothing outside them has
\* been submitted, and only an acyclic pipeline gets to them or has an entry.
LevelsClosed ==
  /\ \A j \in processed : needs[j] \subseteq processed
  /\ \A j \in Jobs : futures[j] # "none" => j \in processed
  /\ pc \in {"resolve", "schedule"} => processed = {}
  /\ pc \in InLevels \/ (\E j \in Jobs : jobs[j] # "none") => Acyclic

\* Jobs are submitted only while no integrity failure is known; a job the loop
\* has yet to come to has not been submitted, and all it needs has an entry.
LevelReady ==
  /\ pc \notin {"submit", "cut_off"} => level = {}
  /\ pc = "submit" => ~ integrity_failed
  /\ pc = "cut_off" => integrity_failed
  /\ \A j \in level : /\ j \in processed /\ futures[j] = "none"
                      /\ \A n \in needs[j] : jobs[n] # "none"

\* A future still to be yielded belongs to a job nothing is recorded of, and
\* every unfinished future is one of them while results are collected.
AwaitedFresh ==
  /\ \A j \in awaited : /\ futures[j] # "none"
                        /\ jobs[j] = "none"
                        /\ job_statuses[j] = "queued"
  /\ pc \notin Collecting \cup {"drain"} =>
       \A j \in Jobs : futures[j] \notin Unfinished
  /\ pc \in Collecting =>
       \A j \in Jobs : futures[j] \in Unfinished => j \in awaited
  /\ pc \in InLevels \ {"drain"} =>
       \A j \in processed :
         \/ jobs[j] # "none" \/ j \in level
         \/ (pc \in Collecting /\ j \in awaited)

\* RunState.jobs and DAGScheduler.job_statuses tell the same story.
StatusesAgree ==
  /\ \A j \in Jobs :
       /\ jobs[j] = "succeeded" <=> job_statuses[j] = "succeeded"
       /\ jobs[j] \in {"failed", "integrity_failure"}
            <=> job_statuses[j] = "failed"
       /\ jobs[j] = "skipped" =>
            \/ job_statuses[j] = "skipped"
            \/ /\ job_statuses[j] = "queued"
               /\ \E k \in Jobs : jobs[k] = "integrity_failure"
       /\ job_statuses[j] \in {"succeeded", "failed"} => futures[j] # "none"
  /\ pc \notin {"drain", "unregister", "done"} =>
       (integrity_failed <=> \E j \in Jobs : jobs[j] = "integrity_failure")

\* Failure reaches every dependent, and a skipped job has a broken need.
SkipsExact ==
  \A d \in Jobs :
    /\ \A n \in needs[d] : job_statuses[n] \in Broken => job_statuses[d] = "skipped"
    /\ job_statuses[d] = "skipped" => \E n \in needs[d] : job_statuses[n] \in Broken

\* Where each run status can be seen, and what a verdict was taken from.
StatusByStep ==
  /\ status \in Terminal => pc \in {"report", "unregister", "done"}
  /\ status = "succeeded" => \A j \in Jobs : jobs[j] = "succeeded"
  /\ pc = "report" => processed = Jobs /\ status = RunVerdict
  /\ pc = "verdict" => processed = Jobs
  /\ "pipeline_failed" \in alerts =>
       /\ pc \in {"unregister", "done"}
       /\ status = RunVerdict /\ status # "succeeded"
       /\ integrity_failed => \E j \in Jobs : jobs[j] = "integrity_failure"

\* Between two results whatever depends on a failed job has its entry.
SkipsRecorded ==
  pc # "record" =>
    \A d \in Jobs : \A n \in Upstream(d) :
      jobs[n] = "failed" => jobs[d] # "none"

IInv ==
  /\ TypeOK
  /\ LevelsClosed
  /\ LevelReady
  /\ AwaitedFresh
  /\ StartsAfterNeeds
  /\ StatusesAgree
  /\ SkipsExact
  /\ SkipsRecorded
  /\ StatusByStep
=============================================================================
