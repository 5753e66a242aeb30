----------------------------- MODULE JobExecution -----------------------------
(***************************************************************************)
(* execute_job (engine/main.py) on the pool threads of one or more runs of *)
(* a pipeline: the locked dependencies are pulled into a directory that    *)
(* the jobs of a run share, the steps run in a workspace that they share,  *)
(* and after a job that exits with 0 every artifact that lies in the       *)
(* workspace is published to the registry that all runs share.             *)
(*                                                                         *)
(* The registry is a table of coordinates here, each stored once           *)
(* (Registry).  What a job does in its container is JobRunner's matter;    *)
(* here it writes the artifacts it makes and exits, and may leave a        *)
(* process behind that was still writing.                                  *)
(***************************************************************************)
EXTENDS Integers, FiniteSets

CONSTANTS
  Runs,         \* submissions of the pipeline
  Jobs,         \* its jobs
  DEPENDENCIES, \* packages in the lockfile
  ARTIFACTS,    \* length of the pipeline's "artifacts"
  NoRow,        \* a coordinate that is not published
  MAX_FAULTS    \* bound: requests and writes that fail

ASSUME CountsAssumption ==
  DEPENDENCIES \in Nat /\ ARTIFACTS \in Nat /\ MAX_FAULTS \in Nat
ASSUME NoRowAssumption ==
  NoRow \notin [by : Runs \X Jobs, entry : 1..ARTIFACTS]

VARIABLES
  plan,       \* needs and level of each job, the artifacts it makes, and
              \*   the coordinate of each entry of "artifacts"
  at,         \* where each call of execute_job is
  dep,        \* the loop variables of each call: the dependency to pull
  art,        \*   and the artifact to publish
  data,       \* what the call has read of that artifact
  published,  \* the list it returns
  outcome,    \* how its future ends
  deps_dir,   \* workspace/deps of each run
  workspace,  \* the artifact files of each run
  writing,    \* the artifact a job is in the middle of writing, 0 for none
  background, \* the artifacts that jobs left a process behind to write
  rows,       \* the registry: coordinate -> what was stored
  faults

loops == <<dep, art, data, published>>
files == <<workspace, writing, background>>
disk == <<deps_dir, files>>
vars == <<plan, at, loops, outcome, disk, rows, faults>>

Calls == Runs \X Jobs
RunOf(c) == c[1]
JobOf(c) == c[2]
Siblings(c) == {k \in Calls : RunOf(k) = RunOf(c)} \ {c}

Dependencies == 1..DEPENDENCIES
Artifacts == 1..ARTIFACTS

\* SchedulerPlan: the level of a job is one more than the highest of its needs.
\* Each artifact is made by one job.
JobPlans ==
  {p \in [Jobs -> [needs : SUBSET Jobs, level : 1..Cardinality(Jobs),
                   makes : SUBSET Artifacts]] :
     /\ \A j \in Jobs :
          /\ \A n \in p[j].needs : p[n].level < p[j].level
          /\ p[j].level = 1 \/ \E n \in p[j].needs : p[n].level = p[j].level - 1
     /\ \A a \in Artifacts : Cardinality({j \in Jobs : a \in p[j].makes}) = 1}

\* Nothing keeps a document from naming a coordinate twice.  A coordinate has
\* the number of the first entry that names it.
Coordinates == Artifacts

CoordinatePlans ==
  {k \in [Artifacts -> Coordinates] : \A a \in Artifacts : k[a] <= a /\ k[k[a]] = k[a]}

Plans == [jobs : JobPlans, coordinate : CoordinatePlans]

Init ==
  /\ plan \in Plans
  /\ at = [c \in Calls |-> "waiting"]
  /\ dep = [c \in Calls |-> 1]
  /\ art = [c \in Calls |-> 1]
  /\ data = [c \in Calls |-> "absent"]
  /\ published = [c \in Calls |-> {}]
  /\ outcome = [c \in Calls |-> "none"]
  /\ deps_dir = [r \in Runs |-> [d \in Dependencies |-> "absent"]]
  /\ workspace = [r \in Runs |-> [a \in Artifacts |-> "absent"]]
  /\ writing = [c \in Calls |-> 0] /\ background = {}
  /\ rows = [k \in Coordinates |-> NoRow]
  /\ faults = 0

-----------------------------------------------------------------------------

Goto(c, label) == at' = [at EXCEPT ![c] = label]

End(c, result) ==
  /\ outcome' = [outcome EXCEPT ![c] = result]
  /\ Goto(c, "done")

Fault == faults < MAX_FAULTS /\ faults' = faults + 1

(* The pipeline thread (PipelineRun): levels in turn, a job only when its    *)
(* needs have succeeded, none after an exception.                            *)

Need(c, result) == \E n \in plan.jobs[JobOf(c)].needs : outcome[<<RunOf(c), n>>] = result

Start(c) ==
  /\ at[c] = "waiting"
  /\ \A k \in Siblings(c) :
       plan.jobs[JobOf(k)].level < plan.jobs[JobOf(c)].level =>
         outcome[k] \in {"succeeded", "failed", "skipped"}
  /\ ~ Need(c, "failed") /\ ~ Need(c, "skipped")
  /\ Goto(c, "pull")
  /\ UNCHANGED <<plan, loops, outcome, disk, rows, faults>>

Skip(c) ==
  /\ at[c] = "waiting"
  /\ Need(c, "failed") \/ Need(c, "skipped")
  /\ End(c, "skipped")
  /\ UNCHANGED <<plan, loops, disk, rows, faults>>

-----------------------------------------------------------------------------
(* pull_deps *)

SetDep(c, state) == deps_dir' = [deps_dir EXCEPT ![RunOf(c)][dep[c]] = state]

\* The download has the locked checksum; opening the files to extract it
\* empties those that another job has extracted.
PullVerified(c) ==
  /\ at[c] = "pull" /\ dep[c] \in Dependencies
  /\ SetDep(c, "partial")
  /\ Goto(c, "extract")
  /\ UNCHANGED <<plan, loops, outcome, files, rows, faults>>

\* Other bytes arrive, of a truncated blob for one: IntegrityError.
PullMismatch(c) ==
  /\ Fault
  /\ at[c] = "pull" /\ dep[c] \in Dependencies
  /\ End(c, "integrity")
  /\ UNCHANGED <<plan, loops, disk, rows>>

\* _extract_artifact comes to its end.  What it wrote is whole unless another
\* job is at the same files, or has left them after a failure.
Extracted(c) ==
  /\ at[c] = "extract"
  /\ LET others == {k \in Siblings(c) : at[k] = "extract" /\ dep[k] = dep[c]} IN
       \/ others # {} /\ UNCHANGED deps_dir
       \/ others = {} /\ SetDep(c, "whole")
       \/ (\E k \in Siblings(c) : outcome[k] = "raised") /\ UNCHANGED deps_dir
  /\ dep' = [dep EXCEPT ![c] = @ + 1]
  /\ Goto(c, "pull")
  /\ UNCHANGED <<plan, art, data, published, outcome, files, rows, faults>>

\* Mutant: the last dependency is not pulled.
RunJobEarly(c) ==
  /\ at[c] = "pull" /\ dep[c] >= DEPENDENCIES
  /\ Goto(c, "steps")
  /\ UNCHANGED <<plan, loops, outcome, disk, rows, faults>>

\* All pulled: run_job.
RunJob(c) ==
  /\ at[c] = "pull" /\ dep[c] > DEPENDENCIES
  /\ Goto(c, "steps")
  /\ UNCHANGED <<plan, loops, outcome, disk, rows, faults>>

-----------------------------------------------------------------------------
(* The steps of the job, in its container *)

SetFile(c, a, state) == workspace' = [workspace EXCEPT ![RunOf(c)][a] = state]

StepOpens(c, a) ==
  /\ at[c] = "steps" /\ writing[c] = 0
  /\ a \in plan.jobs[JobOf(c)].makes
  /\ workspace[RunOf(c)][a] = "absent"
  /\ SetFile(c, a, "partial")
  /\ writing' = [writing EXCEPT ![c] = a]
  /\ UNCHANGED <<plan, at, loops, outcome, deps_dir, background, rows, faults>>

StepWrites(c) ==
  /\ at[c] = "steps" /\ writing[c] # 0
  /\ SetFile(c, writing[c], "whole")
  /\ writing' = [writing EXCEPT ![c] = 0]
  /\ UNCHANGED <<plan, at, loops, outcome, deps_dir, background, rows, faults>>

\* Mutant: the exit code is not looked at.
JobFailsUnseen(c) ==
  /\ at[c] = "steps"
  /\ writing' = [writing EXCEPT ![c] = 0]
  /\ Goto(c, "publish")
  /\ UNCHANGED <<plan, loops, outcome, deps_dir, workspace, background, rows, faults>>

\* A step exits with another code than 0, or is killed: wherever it was.
JobFails(c) ==
  /\ at[c] = "steps"
  /\ writing' = [writing EXCEPT ![c] = 0]
  /\ End(c, "failed")
  /\ UNCHANGED <<plan, loops, deps_dir, workspace, background, rows, faults>>

\* The steps exit with 0, or one of them has no exit code yet (runner.py:262).
\* What still writes then ends with the container, before run_job returns.
JobExitsZero(c) ==
  /\ at[c] = "steps"
  /\ background' = background \cup {<<c, a>> : a \in {writing[c]} \ {0}}
  /\ writing' = [writing EXCEPT ![c] = 0]
  /\ Goto(c, "publish")
  /\ UNCHANGED <<plan, loops, outcome, deps_dir, workspace, rows, faults>>

-----------------------------------------------------------------------------
(* The loop over the pipeline's artifacts, and publish_artifact *)

NoSuchFile(c) ==
  /\ at[c] = "publish" /\ art[c] \in Artifacts
  /\ workspace[RunOf(c)][art[c]] = "absent"
  /\ art' = [art EXCEPT ![c] = @ + 1]
  /\ UNCHANGED <<plan, at, dep, data, published, outcome, disk, rows, faults>>

ReadFile(c) ==
  /\ at[c] = "publish" /\ art[c] \in Artifacts
  /\ workspace[RunOf(c)][art[c]] # "absent"
  /\ data' = [data EXCEPT ![c] = workspace[RunOf(c)][art[c]]]
  /\ Goto(c, "post")
  /\ UNCHANGED <<plan, dep, art, published, outcome, disk, rows, faults>>

\* The row at the coordinate of the entry that a call is at.
Coordinate(c) == plan.coordinate[art[c]]
Free(c) == rows[Coordinate(c)] = NoRow

Store(c) ==
  rows' = [rows EXCEPT ![Coordinate(c)] = [by |-> c, entry |-> art[c]]]

\* publish_artifact returns or raises; the bytes it has read are gone.
Return(c) == data' = [data EXCEPT ![c] = "absent"]

\* 201
PublishCreated(c) ==
  /\ at[c] = "post" /\ Free(c)
  /\ Store(c)
  /\ published' = [published EXCEPT ![c] = @ \cup {art[c]}]
  /\ art' = [art EXCEPT ![c] = @ + 1]
  /\ Return(c)
  /\ Goto(c, "publish")
  /\ UNCHANGED <<plan, dep, outcome, disk, faults>>

\* Mutant: "already there" is as good as published.
PublishConflictAccepted(c) ==
  /\ at[c] = "post" /\ ~ Free(c)
  /\ published' = [published EXCEPT ![c] = @ \cup {art[c]}]
  /\ art' = [art EXCEPT ![c] = @ + 1]
  /\ Return(c)
  /\ Goto(c, "publish")
  /\ UNCHANGED <<plan, dep, outcome, disk, rows, faults>>

\* Mutant: the publish is tried again.
PublishConflictRetried(c) ==
  /\ at[c] = "post" /\ ~ Free(c)
  /\ Return(c)
  /\ Goto(c, "publish")
  /\ UNCHANGED <<plan, dep, art, published, outcome, disk, rows, faults>>

\* 409: RuntimeError, which execute_job does not catch.
PublishConflict(c) ==
  /\ at[c] = "post" /\ ~ Free(c)
  /\ Return(c)
  /\ End(c, "refused")
  /\ UNCHANGED <<plan, dep, art, published, disk, rows, faults>>

\* Mutant: an artifact goes through the loop twice.
ReturnResultTwice(c) ==
  /\ at[c] = "publish" /\ art[c] > ARTIFACTS
  /\ \/ /\ published[c] # {}
        /\ art' = [art EXCEPT ![c] = 1]
        /\ UNCHANGED <<at, outcome>>
     \/ /\ published[c] = {}
        /\ End(c, "succeeded")
        /\ UNCHANGED art
  /\ UNCHANGED <<plan, dep, data, published, disk, rows, faults>>

ReturnResult(c) ==
  /\ at[c] = "publish" /\ art[c] > ARTIFACTS
  /\ End(c, "succeeded")
  /\ UNCHANGED <<plan, loops, disk, rows, faults>>

-----------------------------------------------------------------------------
(* What fails: nothing of it is caught in execute_job *)

\* The log or the directory cannot be written, the download is not a 200 or
\* takes longer than its timeout, the archive cannot be extracted, Docker
\* refuses, the artifact cannot be read.
Raises(c) ==
  /\ Fault
  /\ at[c] \in {"pull", "extract", "steps", "publish"}
  /\ writing' = [writing EXCEPT ![c] = 0]
  /\ End(c, "raised")
  /\ UNCHANGED <<plan, loops, deps_dir, workspace, background, rows>>

\* The publish is answered with an error or not within its timeout; the
\* registry may have stored it.
PublishFails(c) ==
  /\ Fault
  /\ at[c] = "post"
  /\ Return(c)
  /\ End(c, "raised")
  /\ UNCHANGED rows \/ (Free(c) /\ Store(c))
  /\ UNCHANGED <<plan, dep, art, published, disk>>

-----------------------------------------------------------------------------

pull_deps(c) == PullVerified(c) \/ Extracted(c) \/ RunJob(c)

publish_artifact(c) == PublishCreated(c) \/ PublishConflict(c)

execute_job(c) ==
  \/ pull_deps(c)
  \/ NoSuchFile(c) \/ ReadFile(c) \/ publish_artifact(c) \/ ReturnResult(c)

Container(c) ==
  \/ \E a \in Artifacts : StepOpens(c, a)
  \/ StepWrites(c) \/ JobFails(c) \/ JobExitsZero(c)

Next ==
  \E c \in Calls :
    \/ Start(c) \/ Skip(c)
    \/ execute_job(c) \/ Container(c)
    \/ PullMismatch(c) \/ Raises(c) \/ PublishFails(c)

Spec == Init /\ [][Next]_vars

\* Every thread runs and every request has a timeout (main.py:360, 412); the
\* steps of a job may take for ever.
Fairness == \A c \in Calls : WF_vars(execute_job(c))

FairSpec == Spec /\ Fairness

-----------------------------------------------------------------------------
(* Properties *)

\* What a job reports as published (the list execute_job returns) is what the
\* registry holds, and it is the job's own upload of that very artifact: of all
\* jobs of all runs that race for a coordinate one reports it, and once.
ReportsAreTrue ==
  \A c \in Calls : \A a \in published[c] :
    LET row == rows[plan.coordinate[a]] IN
    row # NoRow /\ row.by = c /\ row.entry = a

\* A job is refused (the 409 of publish_artifact, which fails its run) because
\* another job had the coordinate or because the pipeline lists it twice: the
\* row is another job's, or what this one published for an earlier entry.
RefusedForAReason ==
  \A c \in Calls : outcome[c] = "refused" =>
    LET row == rows[Coordinate(c)] IN
    \/ row.by # c
    \/ row.entry < art[c] /\ row.entry \in published[c]

\* While a job's steps run and no other job of its run is extracting, every
\* locked dependency lies there in full, however often and in whatever order
\* the jobs of the run have pulled it (pull_deps); unless an extraction broke.
DependenciesInPlace ==
  \A c \in Calls :
    /\ at[c] = "steps"
    /\ \A k \in Siblings(c) : at[k] # "extract" /\ outcome[k] # "raised"
    => \A d \in Dependencies : deps_dir[RunOf(c)][d] = "whole"

\* A torn artifact is read (publish_artifact) only if its maker is another job
\* of the run that is at it beside the reader or was stopped in the middle, or a
\* job, maybe the reader itself, that left the writing to a process behind.
TornHasCause ==
  [][\A c \in Calls : data'[c] = "partial" /\ data[c] # "partial" =>
       \/ \E k \in Siblings(c) :
            /\ art[c] \in plan.jobs[JobOf(k)].makes
            /\ writing[k] = art[c] \/ outcome[k] \in {"failed", "raised"}
       \/ \E k \in Siblings(c) \cup {c} : <<k, art[c]>> \in background]_vars

\* A job that has started ends (execute_job), unless a step of it takes for
\* ever.
JobsEnd ==
  \A c \in Calls :
    [](at[c] # "waiting" => <>(at[c] = "done" \/ [](at[c] = "steps")))
=============================================================================
