# Forge in TLA+

Forge runs CI pipelines: a client submits a YAML document to the **engine**, which resolves the
pipeline's dependencies against the **registry**, runs the jobs level by level in containers, and
publishes the artifacts of each job back to the registry. This directory holds the TLA+ model of that
program, the TLC runs that check it on small instances, and proofs for TLAPS. Line numbers are those of
`src/`.

- [Inventory](#inventory): the parts of the program
- [Modules](#modules): which module models what, and how
- [Runs](#runs): what TLC checks, the bounds, the fairness
- [Where code and documentation disagree](#where-code-and-documentation-disagree)
- [Proofs](#proofs)
- [What is only model-checked, and what is not modelled](#what-is-only-model-checked-and-what-is-not-modelled)
- [Plan](#plan)

## Inventory

| Component | State it keeps | Operations | What makes it correct |
|---|---|---|---|
| Pipeline execution, `engine/main.py` `execute_pipeline` | `RunState` (status, jobs, completed_at) in the in-memory `run_storage` | one background thread per run: resolve, plan, run the levels, collect, conclude | a job starts only after everything it needs has succeeded; skips have a reason; the verdict agrees with the entries; nothing runs once the status is terminal; the run ends |
| DAG scheduler, `engine/scheduler.py` | the graph, dependents, `job_statuses` | cycle detection, topological sort, levels, `mark_job_failed`, `update_job_status` | rejects exactly cyclic graphs, levels are a correct and earliest plan, failure reaches exactly the dependents |
| Job execution, `engine/main.py` `execute_job` | shared dependency directory, artifact files | pull dependencies with checksum verification, run the job, publish its artifacts | what a job reads is what the lockfile says; what it publishes is stored once |
| Job runner, `engine/runner.py` | Docker containers, step deadline | create, start, execute steps, clean up | ends within the timeout, no container is left behind |
| Log streaming, `engine/logs.py` | one JSON-lines file per run and per job, the status checkers | write, follow (SSE) | a follower sees every line once, in order, and ends |
| Engine HTTP API, `engine/main.py` | `run_storage` | submit, status, lockfile, logs | status answers are consistent with the run |
| Pipeline parser, `engine/parser.py` | none | parse and validate one document | what it lets through, the engine can run |
| Artifact registry API, `registry/main.py` | none of its own | publish, metadata, download, list | published at most once, verified, immutable, downloadable |
| Metadata and blobs, `registry/metadata.py`, `storage.py` | SQLite table `artifacts`, blob files by SHA-256 | insert, look up; store, read | a row never points to a blob that is not there in full |
| Dependency resolver, `registry/resolver.py` | requirements, resolved packages, path of the walk | `resolve` | the lockfile is sound, closed, minimal, highest; a cycle it reports is one; it ends |
| Semver and constraints, `registry/resolver.py`, `engine/parser.py` | none | parse, compare, match, expand | a total order consistent with semver; parser and resolver agree on what a constraint is |
| Bearer tokens, `registry/auth.py` | SQLite table `tokens` | create, require | only a known token may publish |
| Slack alerts, `engine/slack.py` | none | post | an alert never breaks a run |
| Command line, `cli/forge.py` | none | run, follow, publish, resolve | `run --follow` exits with the run's outcome |
| Configuration and deployment, `config.py`, `compose.yaml`, `deploy/` | environment | - | one server process per service, `restart: unless-stopped` |

**How they interact.** `POST /runs` parses the document, enters a `RunState` into `run_storage`, registers
the run's status checker with the log streamer and queues `execute_pipeline` as a background task, which
starlette runs on a pool thread. That thread calls the resolver, which asks the registry over HTTP; then
the scheduler; then, per level, a `ThreadPoolExecutor` whose workers run `execute_job`. Workers talk to
the registry (download, publish) and to Docker and append to the run's log files. Client requests read
`RunState` and follow the log files from other threads at the same time. The only shared memory between
threads is `RunState`, the status-checker table and the files; there are no locks around `RunState`.

**What is hard here.** Results of one level arrive in any order while each rewrites statuses that decide
what starts next; one worker's exception abandons the results of the others; integrity failures take a
different path from other failures; publish handlers interleave at their one `await`; the process may be
killed, or the disk fill up, between two writes; the registry changes while the resolver walks it; a
reader of the log decides to stop from a status set by another thread. `PROJECT.json` lists these hazards
at their lines, each with the properties that cover it or a note why none does.

## Modules

### `RunView`: what a run promises to those who poll it

The abstract specification of a run: `status` and `jobs` of `GET /runs/{run_id}` and nothing else. Entries
appear one at a time and are never changed. An executed job had all its needs recorded as succeeded before.
A skipped one had a failed job among those it needs, directly or through others (`Upstream`), or an integrity
failure beside it; not more, because a client may see a skipped job before the entry of the skipped job in
between. The status goes from queued through running to a terminal value that agrees with the entries.

### `PipelineRun`: `execute_pipeline`, the scheduler's statuses, the pool

`pc` names the statement of `execute_pipeline` the background thread is at. Correspondence:

| Action | Code (`engine/main.py`) |
|---|---|
| `Init` | `submit_pipeline`, 94-126: run created, start alert, checker registered, task queued |
| `Resolved`, `ResolutionRejected`, `ResolutionCrashed` | the resolver returns, raises a `ResolutionError`, raises anything else, 165-189 |
| `Scheduled`, `CycleRejected` | `DAGScheduler(...)` and `get_execution_plan()` return or raise `ValueError`, 191-205 |
| `TakeLevel`, `LevelTaken` | the head of the level loop, by the integrity flag, and the end of the inner loops, 205-232 |
| `Submit`, `SkipInLevel` | one turn of the loop that submits a level, 214-230 |
| `CutOff` | one turn of the loop that runs instead after an integrity failure, 206-210 |
| `CollectResult`, `CollectIntegrityError`, `CollectException`, `IntegrityLogFails` | one turn of the `as_completed` loop, by how `future.result()` ends and whether the handler's log write does, 232-261 |
| `RecordSkip`, `SkipsDone` | the loop that copies the scheduler's skips into the entries, 263-265 |
| `LevelCollected`, `Drained` | the `with` block of the pool is left normally or by an exception; either way it waits for every future |
| `Conclude`, `Report`, `Unregister` | verdict, final alert, `finally`, 267-292 |
| `WorkerStart`, `WorkerEnd` | a pool thread takes a future, `execute_job` ends |

`jobs` is `RunState.jobs` ("none" for no entry) and `job_statuses` the scheduler's dictionary; both are
modelled because the code keeps the two records and uses each in different places. A worker is abstracted
to how its future ends: a result, `IntegrityError`, or another exception (registry error, refused publish,
Docker error). Every write to `RunState.jobs` is a step of its own, because clients read the dictionary at
any moment. The loops over jobs take them in any order, of which the order of the document is one. The least fixed point `SkipSet` is the set the
recursion `skip_dependents` visits; `Level` is what one turn of `get_execution_plan` yields (the exact
algorithm, and that both agree on the plan, is `SchedulerPlan`'s matter).

### `SchedulerPlan`: the scheduler's algorithms

`DAGScheduler.__init__` and `get_execution_plan`, statement by statement where order matters: the depth
first search with its explicit call stack and path, Kahn's queue with in-degrees that count repeated
needs, and the grouping into levels. The two internal errors ("should be caught earlier", "shouldn't
happen") are states of the model that must not be reached. The list comprehensions are `Filter`, which is
`SelectSeq` in a form that the prover can expand. Its specification is named `PlanSpec` (`PlanInit`,
`PlanNext`), so that it can be proved about beside `Submission`.

### `ArtifactStore`, `Registry`: publishing and downloading

`ArtifactStore` is the promise: a coordinate (name, version) is published at most once and keeps its
content. `Registry` is the service: publish handlers are coroutines that share one event loop, so each
has it to itself from its start to `await file.read()` (`Check`) and again to its end (`Verify`,
`StoreBlob`, `WriteBlob`, `Insert`, `Created`; `loop` holds the handler). `InsertFails` is any other error of
SQLite than the violated constraint (a locked database, a full disk): 500, and the blob stays. The second stretch is split
where the disk changes, because downloads (`GetArtifact`, `BlobExists`, `ReadBlob`) run beside it on the
thread pool and because the process may be killed inside it (`Crash`) or a write may fail (`WriteFails`).
`rows` and `blobs` are durable, everything else is lost in a crash. SHA-256 is taken to be injective, so
a blob's name is its content.

### `Resolver`: `DependencyResolver.resolve`

The recursion of `resolve_name` is a stack of frames (`path_stack` with the locals of each call). The
registry's answers are inputs taken when the resolver asks (`SelectVersion` for `list_versions`,
`GetMetadata`), so the model covers every registry and every publication in the middle of a walk; since
a package is asked for once, no two answers can contradict each other. A package is its place in
alphabetical order, a version its place in the order of `version_key`, and a constraint the set of
versions that satisfy it. `RequestFails` and `ConstraintUnreadable` are the exceptions nobody catches
inside `resolve`; `PipelineRun` has them as `ResolutionCrashed`. `MetadataNotFound` is the 404 that becomes a
`PackageNotFoundError`.

### `JobRunner`: `DockerJobRunner.run_job`

Several calls of `run_job` on the threads of the runs' pools, so that two runs may start the same job in
the same second. The Docker daemon is external: it holds the containers by name and refuses a name that
is taken; any request may fail (`CreateFails`, `RequestFails`, `CleanupFails`), a container may have been
created although the answer was lost, and the engine may be killed (`EngineKilled`), which leaves the
containers where they are. Time is whole seconds because the container's name is made from `int(time.time())`;
the model compares the deadline on the same clock. `StepPrints`, `StepEnds` and `OomKill` are what a step
does by itself. The local variables of a call are per call; a result is named by its status and exit code.

| Action | Code (`engine/runner.py`) |
|---|---|
| `Enter`, `CreateContainer`, `StartContainer` | the start of `run_job`, `_create_container`, `container.start()` |
| `StartStep`, `StepTooLate`, `StepsDone` | a turn of the loop over the steps: time left, none left, no step left |
| `LogChunk`, `ChunkTooLate`, `InspectStep` | `_exec_step`: a chunk in time, a chunk after the deadline, the end of the output |
| `StopContainer`, `RemoveContainer` | the `finally` block |

### `LogStream`: `engine/logs.py`

The files of one run, the threads that append to them, the run that sets the status and then removes its
checker, and followers with their offsets. A line is two pieces, the newline ending the second, so that a
reader may meet half a line and a failed write may leave half a line behind; appends themselves are
serialised by the kernel. `CheckStatus` is separate from `Drain`, as in the code: the status is read, and
the file after it, and everything the other threads do may come in between. `WriteFails` may meet a writer
before its line (its job's file cannot be opened) as well as half way. What a follower has sent is kept for the
properties (`sent`), as bytes; which event they are sent as, an event of the line's job or, for half a line, one
of the job "system", is left out.

### `JobExecution`: `execute_job`, `pull_deps`, `publish_artifact`

Several runs of one pipeline, each with its jobs on pool threads. What the jobs of a run share is in the
model as it is on the disk: one directory of extracted dependencies (`deps_dir`), one `workspace`. What all
runs share is the registry, external here as a map `rows` that answers as `Registry` does: a coordinate has at
most one row, with the call that uploaded it and the entry of the pipeline's `artifacts` it was uploaded for.
An entry is not its coordinate: nothing keeps a document from naming a coordinate twice (`CoordinatePlans`). A
file is absent, partial or whole. `PullVerified` opens the files to extract into and so empties what another
job has extracted; `Extracted` leaves them whole only if nobody else is at them. The loop over the
artifacts is the pipeline's, not the job's: every job publishes every artifact that exists in the workspace
(`NoSuchFile`, `ReadFile`, then the answer to the POST), also one that another job is still writing. A job
that exits with 0 may itself have left a file open: a step's missing `ExitCode` counts as 0 (`runner.py:262`),
and what still runs then is stopped only with the container; `background` remembers such writers. `Raises`, `PullMismatch` and `PublishFails` are what may fail; after `PublishFails` the registry may or may
not have stored the artifact. The pipeline thread (`Start`, `Skip`) is reduced to what `PipelineRun` says of
it; the levels, the artifacts that each job makes and their coordinates vary over all possibilities (`plan`).

| Action | Code (`engine/main.py`) |
|---|---|
| `PullVerified`, `Extracted`, `PullMismatch` | one turn of the loop in `pull_deps`, 351-380, and `_extract_artifact` |
| `RunJob`, `JobExitsZero`, `JobFails`, `StepOpens`, `StepWrites` | `runner.run_job` and what the container does, 318-331 |
| `NoSuchFile`, `ReadFile`, `ReturnResult` | the loop over the artifacts, 333-349 |
| `PublishCreated`, `PublishConflict`, `PublishFails` | `publish_artifact`, 395-416, by its answer |

### `FollowRun`: runs and those who watch them

`forge run --follow` (submit, follow the log, ask for the status, exit), other clients that follow a log or
ask for a status, the background tasks, and the one pool whose threads all of it needs. The pool is
external: starlette runs background tasks, every `next()` of the log generator and the synchronous dependency
`_auth` on a thread pool that serves its waiters in order; so a submission claims a thread first (`PostRun`),
and gives it back when `submit_pipeline` goes on with the token checked (`Submit`, `SubmitRefused`). A follower keeps its thread while it sleeps (`CheckStatus` goes back to
"read" without releasing it) and gives it back between two events (`SendEvent`). A status answer is put
together in three steps (`AskStatus`, `ListJobs`, `AnswerStatus`) because `to_dict` hands out the live
dictionary of jobs and the encoder iterates over it while the pipeline thread may insert: then the answer
is a 500. `Restart` empties `run_storage`; after `SubmitUnanswered` the request goes on, and may create a run
whose client has left;
`Disconnect` ends a follower's connection. Of a run there is its status, its entries and the number of its
log lines; `PipelineRun` and `LogStream` have the details.

### `SemVer`, `Submission`: one document through all its readers

`SemVer` holds the operators: `compare_versions` and `KeyBelow` (the order of `version_key`), comparators,
bounds of `^` and `~`, the parser's `is_valid_semver_constraint` and what `ConstraintSet.from_string` can
read. A constraint is a sequence of words (`Words`) rather than of characters; an identifier of a prerelease
(`Identifiers`) has its value as a number and its place in the order of strings, since the two orders differ
("10" before "2").

`Submission` sends a document through the parser (`Accept`, `Refuse`), the resolver (`Unreadable`,
`Resolve`), the scheduler's graph, the limits of the container (`LimitsRaise`, `CreateContainer`) and the
search for the files of its artifacts (`FindArtifacts`), with the version that is chosen, the limits that
result and the files found as state; what is found is published or refused in `JobExecution`. The checks that only ask for a field's presence or type, and the duplicate step name, are one
malformed part each. The properties compare each stage with what the document says, written down a second
time in the module: precedence of semver.org as sequences of pairs (`Weights`), of which the first that
differs decides (`Precedes`), `^` and `~` by their meaning.

### `MC...` modules

`MCResolver`, `MCJobRunner` and `MCFollowRun` add the constants of the runs (small ranges, the run that all
other clients watch) to the module they are named for, `MCFollowRun` and `MCJobExecution` also a bound on who
takes part (`MCSpec`); `MCSubmission` builds the documents.

In every module, an operator whose comment starts with "Mutant:" is a plausible bug of the definition
that follows it; no specification uses it. Put in the place of that definition, it shows that a property can
fail.

## Runs

| Run | Configuration | Checks | Instance |
|---|---|---|---|
| `pipeline_run` | `PipelineRun.cfg` | `StartsAfterNeeds`, `SkipJustified`, `VerdictSound`, `AllAccounted`, `QuietWhenOver`, `IInv`, refinement of `RunView` (`ViewSpec`), `RunSettles` | every needs graph of 4 jobs (cyclic ones too), pool of 2 |
| `scheduler_plan` | `SchedulerPlan.cfg` | `RaisesExactlyOnCycles`, `PlanIsGreedy`, `Terminates` | every pipeline of 4 jobs, needs lists of up to 2 entries, repeats included |
| `job_execution` | `JobExecution.cfg` | `ReportsAreTrue`, `RefusedForAReason`, `DependenciesInPlace`, `TornHasCause`, `JobsEnd` | any 2 jobs of 2 runs of 2 jobs, in one level or two, 2 dependencies, 2 artifacts of one coordinate or two, 1 failure |
| `registry_faults` | `RegistryFaults.cfg` | `AnswersAreTrue`, `RowsSound`, `DownloadsIntact`, `AllAnswered`, refinement of `ArtifactStore` (`StoreSpec`) | 2 publishes, 1 download, 2 coordinates, 2 bodies (one empty), 2 kills, failed writes or failed inserts |
| `resolver_walk` | `ResolverWalk.cfg` | `LockfileSound`, `LockedIsHighest`, `CyclesAreReal`, `ConflictsAreGreedy`, `Terminates` | 3 packages of 2 versions, 2 constraints, up to 2 dependencies per version and for the pipeline |
| `job_runner` | `JobRunner.cfg` | `OwnContainer`, `SuccessSound`, `NoLeak`, `ChattyJobsEnd` | 2 calls for one job name, 2 steps, time limit of 1 second, 1 failing request or kill |
| `log_stream` | `LogStream.cfg` | `SentOnceInOrder`, `NothingMissed` | 2 jobs of 2 lines, 1 follower, 2 failed writes |
| `follow_run` | `FollowRun.cfg` | `ExitHonest`, `AnswersConsistent`, `RunGoesFirst`, `EveryoneServed` | 1 run with its command and 1 other client, or 2 runs with theirs, 2 jobs each, 2 threads, 1 fault |
| `submission` | `Submission.cfg` | `CandidatesMeant`, `ChosenHighest`, `StagesAgree`, `LimitsAsWritten` | every field of a document varied; all constraints of 1 word and of 2 words (after a complete comparator, the second complete one has one of 2 bounds), `>= v < w` in 3 and 4 words for all 25 pairs of bounds; every subset of 9 versions |
| `registry_accepted_stored`, `runner_time_limit`, `semver_highest` | one configuration each | one property each, violated | see below |

**What the runs show.** `pipeline_run`: no job starts before its needs have succeeded; at every moment a skip
has a failed job upstream or an integrity failure for it; an integrity failure is told before any other; and
clients see only what `RunView` allows. `scheduler_plan`: `ValueError` exactly for cycles, and otherwise the
plan that starts every job as early as its needs allow. `job_execution`: the locked dependencies lie there in
full when the steps run, unless a sibling is extracting at that moment or has broken off; of the jobs that race
for a coordinate exactly the one that reports it has published it; who is refused meets another job's row, or
its own of an earlier entry; a torn artifact is read only when its maker is at it, was stopped in it or left a
process behind; a job ends unless a step of it does not. `registry_faults`:
201 and 409 tell the truth through kills and failed writes, the table is a write-once store, and a request
under way is answered unless something fails meanwhile (who was killed hears nothing, be its row there or not).
`resolver_walk`: lockfiles are complete, consistent, minimal and highest, a cycle that is reported is one,
and a conflict that is reported comes of choosing the highest version and never going back. `job_runner`: containers of different calls stay apart,
success means that every step was executed and none reported a failure, and no container is left when Docker
answers. `log_stream`: a follower sends every byte once, in order, to the last. `follow_run`: exit code 0 only for a run that has succeeded and whose log was
shown in full, whatever restarts or breaks; a terminal status is answered together with all entries; a follower
never gets a thread that its own run still waits for; nothing but a hanging job keeps a thread for ever, and
then only the threads of its run and of those that follow it. `submission`: what the
parser accepts the later stages read in the same sense, but for the gaps that the properties name.

**Bounds.** Four jobs hold every shape the scheduling logic tells apart: chains of four (a skip that must
travel two levels below the failure), diamonds, a level of two beside a later one, and jobs that share no
path; two pool threads make both a running and a waiting future possible in one level. No symmetry is used. In `SchedulerPlan` `MAX_NEEDS` = 2 admits the repeated need `[a, a]` and
the two needs of a diamond. In `JobExecution` two jobs of one run are a reader beside a writer in one level, a
second job that meets the artifacts of the first in two, and calls that extract beside, after and in the middle
of each other; two jobs of two runs race for a coordinate or repeat each other; two artifacts are a coordinate
named twice, or one that is published before the other is refused. Only two calls of the four are executed
(`EXECUTED`): each property names one or two, and a start has no fairness, so that leaving one out leaves the
others a behaviour. In `Registry` two publishes race for one coordinate and one follows the other
after a fault, also with one body under two coordinates; two faults allow a failed write followed by a kill.
In the resolver two versions and the constraints "only the lower" and "any" make later requirements narrow
earlier ones; three packages hold diamonds, cycles of length one to three, and packages met again after they
were resolved. In `JobRunner` the last start (`LAST_START` = 1) and a limit of one second give calls that
start in the same second and in different ones, and `MAX_TIME`, one second after the last deadline, stops the
clock where every comparison has come out one way for good; two steps are needed for a failed step followed by
another. In `LogStream` two lines per job leave a torn line in the middle and at the end of a file; followers
share nothing with each other, so one shows what any of them sees. In `FollowRun` a run and two
followers are more than the two threads, so claims do wait; one line is enough for an event before, at and after
the end of the run; two jobs make an answer with one of their entries possible. With two runs, one that hangs
and its follower fill the pool, and the other with its command shows that nothing else ever does. Either the
other client or the second run takes part (`Either` in `MCFollowRun`), again by leaving out steps that have no
fairness. In `Submission` the fields are read by different code, so each is varied on its own.

The bounds of the models are `MAX_FAULTS`, `MAX_NEEDS`, `MAX_DEPS`, `EXECUTED`, `LAST_START` (and with it `MAX_TIME`);
`STEPS`, `MAX_DURATION`, `LINES`, `DEPENDENCIES`, `ARTIFACTS` are parameters of the code's input. Nothing
else grows.

**Fairness.**
- `PipelineRun`: weak fairness of the pipeline thread and of the pool taking waiting jobs. There is *no*
  fairness for `WorkerEnd`: `runner.py` looks at its deadline only when a step prints something (247), so
  nothing forces a silent step to end. `RunSettles` therefore says that the run ends *or* some job runs for
  ever.
- `JobExecution`: every thread runs and both requests have timeouts (360, 412); the steps of a job have no
  fairness, so `JobsEnd` excepts a job whose steps run for ever.
- `SchedulerPlan`, `Resolver`: one sequential program that is not stopped; every request of the resolver
  has a timeout (305).
- `JobRunner`: the clock ticks and every thread runs; a step need never print or end, which is why
  `ChattyJobsEnd` excepts a step that has fallen silent for ever.
- `Registry`: the event loop resumes every ready handler, the pool runs every download.
- `FollowRun`: threads run, the pool hands a free one to its first waiter, commands go on by themselves; the
  other clients and the submissions need never come. Jobs
  have no fairness, so a run need not end. `EveryoneServed` excepts, of a thread, only the case that a job of
  the run it works for hangs (`Hangs`); then the run and its followers keep their threads even when the clients
  are gone, since a follower notices that only when it sends. A command is excepted if any run hangs, since the
  followers of that one may fill the pool.
- `LogStream` and `Submission` check safety only and state no fairness; that followers end is part of
  `EveryoneServed`.

`RunGoesFirst` rests on the order in which the pool serves: a run asks for its thread as soon as the answer to
its submission is written, and nobody can name the run before. A pool that serves in another order (the
mutant `GrantAny`) lets followers take every thread and wait for a run that never starts.

**Deadlock** is checked in the runs of `PipelineRun`, `SchedulerPlan` and `Registry`, which have an explicit
step for "everything is over". In the others the behaviour ends when the last call returns, which TLC would
report; there the liveness properties say that nothing stops before.

## Where code and documentation disagree

Each is a run whose only property TLC finds violated.

- `registry_accepted_stored` (`AcceptedIsStored`): `store_blob` writes in place and takes an existing file
  for a complete one, so after a failed write the next publish of the same body gets 201 and a truncated
  blob behind it.
- `runner_time_limit` (`TimeLimit`): the deadline is looked at before a step and when a chunk of output
  arrives (`runner.py:247`), so a last step that prints nothing may end long after it and the job succeeds;
  README line 57 lists a wall-clock timeout per job.
- `semver_highest` (`SelectedHighest`): the resolver sorts by `version_key`, which puts a release below its
  prereleases and `alpha.10` below `alpha.2`; README line 67 says that it selects the highest version.

Seen while modelling. These are in the models as the code does them, and where a property is named it says so:

- choices are never taken back, so a conflict may be raised, as "no single version satisfies all constraints"
  (`resolver.py:479`), of a package of which a lower listed version does; README line 67 says that the highest
  version that satisfies all is selected (`ConflictsAreGreedy` says that there is no other way to a conflict);
- artifacts are published after each job (`main.py:332`), and stay when another job of the run fails; README
  line 31 says after all jobs have succeeded. The second job of a pipeline that meets an artifact gets 409 and the
  run fails (`RefusedForAReason`);
- `lstrip("./")` (`main.py:334`) also takes the dot of `.cache.tgz`, so that the file is not found and silently
  not published, or another one is; README line 34 says that a path is relative to the workspace (`StagesAgree`
  excepts such names);
- `if not data` (`registry/main.py:87`) answers 404 for a published artifact of zero bytes (`DownloadsIntact`);
- a follower reads to the end of the file (`logs.py:64`), be a line complete there or not, and sends half a line
  as an event of the job "system"; README line 73 says that each line is a JSON event;
- dependencies are pulled before each job, into one directory of the run, so a job may read one that another
  job is extracting anew (the exception in `DependenciesInPlace`);
- a job may publish an artifact that another job is still writing or was stopped in, or that a process it left
  behind itself is writing (`TornHasCause`);
- an artifact that a step names and does not write is silently not published; a coordinate that a document
  names twice, or that the registry has, ends in 409 with the earlier entries published (`RefusedForAReason`);
- while entries are made one by one a client may see a skipped job whose need has no entry yet (`RunView`);
- the parser accepts `=1.0.0`, on which the resolver raises `ValueError`; `memory: "1.5"` and `cpu: nan` or
  `inf`, on which the runner raises (`StagesAgree`); `memory: "0"` and a tiny `cpu`, which mean no limit
  (`LimitsAsWritten`);
- `^1.0.0` admits 2.0.0-alpha, which precedes 2.0.0 (`CandidatesMeant` takes it as meant);
- a status answer under construction while a job's entry is made is a 500 (`AnswersConsistent`);
- if another job of the level raised first, a failed job is never recorded and its dependents are not marked
  (README line 45 says they are); such a run, ended by the handler of unexpected exceptions (`main.py:287`),
  posts no failure alert (README line 134 lists "started/succeeded/failed");
- `stop` and `remove` share one `try` block (`CleanupFails`), so a container whose stop fails is never
  removed; `NoLeak` therefore assumes that no request fails;
- a follower's first read takes the whole backlog into memory (`logs.py:64`); README line 73 says
  "without loading the full file into memory";
- outside of any model: the alert in `submit_pipeline` (`main.py:114`) is a blocking request of up to ten
  seconds on the event loop; names in `needs` are stripped while job names are not, and step names are
  compared before they are stripped.

## Proofs

TLAPS proves every safety property that a passing run checks, for every value of the constants: any number of
jobs, runs, clients, packages, followers, steps, kills and failures. One module of proofs for each module of
the model; `Planning_proofs` holds those of `Submission`, `SemVer` and `SchedulerPlan`. Each gives the
invariant of its module as `IInv`, a lemma for each action, and the theorems.

| Module | Theorem | States |
|---|---|---|
| `PipelineRun_proofs` | `TypeCorrect`, `Invariance` | `[]TypeOK`, `[]IInv` |
| | `NeedsRespected` | `[]StartsAfterNeeds` |
| | `SkipsAreJustified` | `[]SkipJustified` |
| | `VerdictIsSound` | `[]VerdictSound` |
| | `EveryJobAccounted` | `[]AllAccounted` |
| | `Quiescence` | `[]QuietWhenOver` |
| | `ClientsSeeRunView` | `ViewSpec`: the run implements `RunView` |
| `Registry_proofs` | `AnswersTrue`, `RowsAreSound`, `DownloadsAreIntact` | `[]AnswersAreTrue`, `[]RowsSound`, `[]DownloadsIntact` |
| | `WriteOnce` | `StoreSpec`: the registry implements `ArtifactStore` |
| `JobExecution_proofs` | `ReportsHold`, `RefusalsHaveReasons`, `DependenciesLieThere` | `[]ReportsAreTrue`, `[]RefusedForAReason`, `[]DependenciesInPlace` |
| | `TornHasACause` | `TornHasCause`, an action property |
| `JobRunner_proofs` | `ContainersAreOwn`, `SuccessIsSound`, `NothingLeaks` | `[]OwnContainer`, `[]SuccessSound`, `[]NoLeak` |
| | `ContainersAreApart` | two calls never use one container |
| `LogStream_proofs` | `SendsOnceInOrder`, `MissesNothing` | `[]SentOnceInOrder`, `[]NothingMissed` |
| `FollowRun_proofs` | `RunsGoFirst`, `ExitIsHonest`, `AnswersAreConsistent` | `[]RunGoesFirst`, `[]ExitHonest`, `[]AnswersConsistent` |
| `Resolver_proofs` | `LocksSoundly`, `LocksHighest` | `[]LockfileSound`, `[]LockedIsHighest` |
| | `CyclesReal` | `CyclesAreReal`, an action property |
| | `ConflictsOfGreed` | `ConflictsAreGreedy`, an action property |
| `Planning_proofs` | `CompareIsOrder` | `compare_versions` is precedence, prereleases of any length |
| | `ConstraintsMeanIt`, `ChoosesHighest`, `StagesReadAlike` | `[]CandidatesMeant`, `[]ChosenHighest`, `[]StagesAgree` |
| | `LimitsAreWritten` | `[]LimitsAsWritten` |
| | `KeysAreOrdered`, `OneIsChosen` | `version_key` is a total order; the sort has one result |
| | `CyclesFoundExactly`, `PlansGreedily` | `[]RaisesExactlyOnCycles`, `[]PlanIsGreedy` of `SchedulerPlan` |

Every module also has its `Invariance` (`Spec => []IInv`; `PlanInvariance` and `LevelsInvariance` for the
scheduler).

### `PipelineRun`

None of the properties is inductive. That a job starts only after its needs have
succeeded rests on the level barrier (its needs are in earlier levels, and those have been collected), on
skipping (a need that failed has marked the job) and on the flag (after an integrity failure nothing is
submitted). `IInv` states each part:

- `LevelsClosed`: the levels taken are closed under needs, only their jobs have futures, and the graph is
  acyclic once levels are taken;
- `LevelReady`: a job of the level that the loop has yet to come to is processed and not submitted, everything
  it needs has an entry, and jobs are submitted only while the integrity flag is down;
- `AwaitedFresh`: a future still to be yielded belongs to a job with no entry and status "queued"; outside
  the collection no future is unfinished, and a processed job has its entry, or is still to be submitted or
  collected;
- `StatusesAgree`: `RunState.jobs` and the scheduler's statuses tell the same story. The code keeps both
  and reads one to start jobs and the other for the verdict, so without this nothing about one carries
  over to the other;
- `SkipsExact`: a job with a failed or skipped need is skipped, and a skipped job has such a need;
- `SkipsRecorded`: between two results whatever depends on a failed job, directly or through others, has its
  entry; only while the loop over the skips runs may one be missing;
- `StatusByStep`: at which statement which status can be seen.

`SkipJustified` speaks of `Upstream`, the least set closed under needs: a job is skipped by the scheduler if one
upstream of it is broken (`BrokenUpstreamSkips`) and only if one upstream of it failed (`SkippedHasReason`, or
else the skipped jobs upstream would be a cycle). The lemmas that carry the weight are about the least fixed point
`SkipSet`: it is closed (`SkipSetClosed`), every member has a reason in it (`SkipSetReason`), and a job
that has been submitted is never in it (`SubmittedNotSkipped`: everything it needs has succeeded), from
which `MarkJobFailedEffect` and `MarkJobFailedSkips` say what one failure does to all statuses.
`PlanComplete` (no level left means every job was placed) and `NothingBroken` (in an acyclic graph without
failures nothing is skipped, so success is success of all) use acyclicity on a set of jobs chosen for it;
no induction over the graph is needed.

`ViewSpec` follows step by step: a step that makes an entry, be it a result or a single skip, is a `Record` of
`RunView` (`RecordsEntry`), the verdict and the refusals are its other steps, and all else leaves status and
entries alone.

### `Registry`

No answer is known to be true from the handler alone: between its check and its insert the table may change.
`IInv` says who owns a coordinate. A handler owns it from its insert on (`Owns`; a handler killed after it
keeps the row but has no answer): its row stands (`OwnerHasRow`), no other handler owns it (`OneOwner`), a row
has an owner and a verified body (`RowHasOwner`), and who was refused as taken met a row (`ConflictHasRow`).
`OneInLoop` is the event loop: only the handler that holds it is past its checksum and not yet answered. `BlobsWhole` and
`DownloadsFound` say for the time without faults that only the blob under way is partial and that a download
refers to one that is whole. The write-once store follows because an insert needs a coordinate without row.

### `JobExecution`

`Progress` ties a call's place to its variables (how many dependencies, which artifact, whether an outcome).
`ReportsAreTrue` is inductive with it: a published artifact is a row by its publisher, and rows are never
replaced. `RefusedForAReason` needs `OwnRows`, that whatever a call has stored it stored for an entry behind its
place in the loop, and reports, unless it has raised; and `RefusedAtRow`, that a refused call stands at a
coordinate that is taken. `DependenciesInPlace` needs `PulledStays`, which
says for every dependency that a call has pulled that it lies there whole unless a sibling extracts or has
broken off; `TornHasCause` needs `PartialHasMaker`, that a partial artifact has a job writing it or stopped in
it, or a process that a job left behind.

### `JobRunner`

A container's name is no proof of ownership, since calls that start in one second share it. The invariant
keeps for each container the calls that created it: `OwnContainer` (whoever uses a container created it, and
nobody else did), `NoneBefore` (no container before its creation), `KeptWhileUsed` (without failing requests
a call still uses whatever it has created, so nothing is left when it has ended) and `CodesClean` (a call goes
on only while no step has failed, and success counts all steps).

### `LogStream`

`LoggedOf` says of each job that the combined file has its lines in order, each line's pieces together as far
as that job is concerned, up to the one under way or failed; `Offsets` places every follower: `sent` followed
by the chunk in hand is the part of the file before its offset (`SentOnceInOrder`), and a follower that drains
does so after the status is terminal, when no writer is under way (`Writers`). The file only grows at its end,
so what was a prefix stays one, and what is read at the drain is all of it.

### `FollowRun`

`RunsInFront`: in the queue of the pool the claim of a run stands before those of its followers. It is kept
because a run claims its thread in the step that makes it known, claims are added at the end, and taking one
out, be it served or given up, leaves the others in their order (`RemoveFirstKeeps`); `Posted` adds that a
submission under way is one claim, of a run that is not there yet. `ExitHonest`
needs `DrainsLast` (a generator in its drain has an offset behind which no line will come), `CommandSees`
(what the command of the run has been told so far) and `AnswersTrue` (a terminal status in an answer is the
run's and comes with all entries), which in turn needs `Tables` (a known run without a checker is over, and a
run is forgotten only at a restart).

### `Resolver`

`Calls` describes the recursion: the packages on the stack are distinct, each but the last in its loop at the
dependency that the next resolves. `Choices`: what is chosen is listed, meets all requirements collected so
far and is the highest that does; a requirement that comes later either admits the choice or ends the walk.
`Edges`: a dependency that was dealt with has left its requirement, and is resolved or is the next call.
`Origins`: every requirement comes from the pipeline or from a dependency of another package that is resolved
or under way, and no package is resolved without one. With an empty stack these are completeness, consistency and
minimality of the lockfile. `CyclesAreReal` and `ConflictsAreGreedy` are about the step that raises: the cycle is read
off `Calls`; of a conflict the requirement that came last is the one, since by `Choices` the version was the
highest for all before it.

### `Submission`, `SemVer` and the scheduler's algorithms

The stages are simple steps; `Checked` records what each has established of the document (accepted, readable,
chosen from the candidates, limits computed). The work is in the operators. `CompareIsOrder`: two versions of
different precedence have a first pair of `Weights` that differs (`FirstDifference`, by well-founded "<"), at
the place where the nested conditions of `compare_versions` decide, be it a number, an identifier, or the end
of the shorter prerelease. `CaretBound` and `TildeBound`: below the bound that the code computes is what is
near the base, prereleases of the bound included. `SingleMeans` and `RangeMeans`: the comparators that
`from_string` builds are those that the words mean, so a constraint that both readers let through is satisfied
by exactly the versions it means (`SatisfiedIsMeant`). `version_key` agrees with precedence on the numbers
(`ChoosesHighest`), and differs only about prereleases. It is a strict and total order all the same
(`KeysAreOrdered`: tuples are compared where they first differ, or where one ends), so the sort of the
candidates has one result (`OneIsChosen`: the candidate above the most others is above all of them, shown by
counting, since induction over the set is out of reach). So `Resolve` of `Submission`, which takes a version
above all other candidates, leaves out no finite list of versions whose keys differ.

The search of `_detect_cycles` is proved with its stack explicit: `Calls` (`visiting` is the nodes of the active
calls, each needing the next), `PastIsVisited` (as long as no cycle was found, every need a call has come past
is visited) and `VisitedHasNoCycle` (the visited jobs are closed under needs, and every non-empty set of them
has a member that needs none of the set). The last is acyclicity in the form that adding one job keeps, so a
finished search without a cycle has proved the graph acyclic; `CycleAtIsReal` is the converse, that the slice
of the path is a cycle.

What follows the search has an invariant of its own, `LevelsIInv`, whose steps use that the search is exact:
- `QueueIsRight`: during the sort, `in_degree[j]` is the number of entries in the needs of `j` that are not
  sorted, repeated ones counted as often as they are listed; a sorted job waits for none, and the queue holds,
  once each, exactly the other jobs that wait for none. The two counts of the code agree because lowering by
  `Listed` takes away exactly the entries that name the job just sorted (`WaitsForOneLess`).
- `AllSorted`: when the queue is empty, the jobs left over would each need one of them, which an acyclic graph
  excludes; so all jobs are sorted, and "should be caught earlier" does not happen.
- `LevelsAreGreedy`: `processed` is what the levels hold; a job is in one level at one place; its needs are in
  earlier levels, one of them in the level before. For the last part to be inductive one needs to know of the
  jobs still left that they did not fit into the last level: not all their needs are in the levels before it.
  As long as jobs are left, acyclicity yields one whose needs are all processed, so no level is empty and
  "shouldn't happen" does not.

The lemmas about sequences under it (`FilterIs`, `AppendRange`, `TailRange`, `ConcatInjective`,
`InjectiveLength`) say what filtering, appending, taking and joining do to the elements and to their being
different. `PlacesAreNumbered` is the one with some depth: the places that a filter keeps are numbered from one
without gaps, because the number of kept places up to each is an injection into as many numbers.

### Assumptions

Each is an `ASSUME` of the module, evaluated by its run:

| Module | Assumption | Why |
|---|---|---|
| `PipelineRun` | `JobsAssumption`: a finite, non-empty set of jobs; `LimitAssumption`: at least one thread | the parser requires a job; `ThreadPoolExecutor` requires a worker |
| `Registry` | `NoRowAssumption`, `NobodyAssumption`: two marks that are no content and no publish; `FaultsAssumption` | marks of the model |
| `JobExecution` | `CountsAssumption`, `NoRowAssumption` | numbers of dependencies and artifacts; a mark |
| `JobRunner` | `JobNameAssumption`, `StepsAssumption`, `BoundsAssumption`, `NoContainerAssumption` | every call has a job's name; numbers; a mark |
| `LogStream` | `LinesAssumption` | numbers |
| `FollowRun` | `ClientsAssumption`: the command that submits a run is not one of the watchers; `WatchedAssumption`: each watches a run; `BoundsAssumption` | names of the clients; a pool has a thread |
| `Resolver` | `NamesAssumption`: packages and versions are numbered in their order, a constraint is a set of versions | abstraction of names, see above |
| `Submission` | `SubmissionAssumption`: versions are `SemVers`, constraints are `Words`, quantities natural numbers | what `SemVer.parse`, `split` and the patterns yield |
| `SchedulerPlan` | `SizeAssumption`: a positive number of jobs; a bound on the length of needs lists | the parser requires a job |

SHA-256 without collisions and the order in which the pool serves its waiters are part of the models, not
assumptions of the proofs.

## What is only model-checked, and what is not modelled

Left to TLC is liveness (`RunSettles`, `JobsEnd`, `AllAnswered`, `Terminates` in two modules, `ChattyJobsEnd`,
`EveryoneServed`), which is out of reach of the prover.

Not modelled:
- the parser's checks of presence and type, its line numbers and messages: one malformed part stands for
  each group of them, since none changes what a later stage does;
- versions and constraints as characters: `SemVer` begins at words and identifiers;
- the sandbox's settings other than its limits (network, mounts, capabilities), which are arguments of one
  Docker call;
- Slack's message layout and HTTP; `_post` swallows every error, only which alert is posted when is kept;
- tokens beyond "known or not": creating and looking one up is one SQL statement each;
- the commands `publish`, `resolve`, `ls` and `admin`, each one call of code that is modelled elsewhere;
- configuration and deployment beyond the restart policy: constants read once, before anything runs.

## Plan

Done: `RunView`, `PipelineRun` and its proofs, `SchedulerPlan`, `ArtifactStore`, `Registry`, `Resolver`,
`JobRunner`, `LogStream`, `JobExecution`, `FollowRun`, `SemVer`, `Submission`, and their proofs.

Proved: see the table above, every safety property of the runs.

What is left: lemmas that two modules prove for themselves (sequences that grow at the end, least elements)
could be stated once.
