------------------------------ MODULE JobRunner ------------------------------
(***************************************************************************)
(* DockerJobRunner.run_job (engine/runner.py): the container of a job from *)
(* its creation to its removal, the steps executed in it one after the     *)
(* other, the deadline and the OOM state; several calls at a time, on the  *)
(* threads of the runs' pools.                                             *)
(*                                                                         *)
(* The Docker daemon is external: it keeps the containers by name, and any *)
(* request to it may fail.  Time is counted in seconds.                    *)
(***************************************************************************)
EXTENDS Integers, Sequences, FiniteSets

CONSTANTS
  Calls,          \* calls of run_job
  Names,          \* job names
  job_name,       \* the job of each call: jobs of two runs may share a name
  NoContainer,    \* None
  STEPS,          \* length of the job's "steps"
  MAX_DURATION,   \* max_job_duration_sec
  LAST_START,     \* bound: no call starts later
  MAX_FAULTS      \* bound: failing requests and kills of the engine

ASSUME JobNameAssumption == job_name \in [Calls -> Names]
ASSUME StepsAssumption == STEPS \in Nat /\ MAX_DURATION \in Nat
ASSUME BoundsAssumption == LAST_START \in Nat /\ MAX_FAULTS \in Nat
ASSUME NoContainerAssumption == NoContainer \notin Names \X Nat

\* One second after the last deadline is late enough for every comparison.
MAX_TIME == LAST_START + MAX_DURATION + 1

VARIABLES
  now,         \* time.time(), whole seconds
  containers,  \* the daemon's containers: name -> state, OOMKilled, creator
  pc,          \* the statement each call is at
  start_time,
  container,   \* the local variable of each call
  proc,        \* the process of the step: state, unread output, ExitCode
  codes,       \* what exec_inspect said of the steps so far
  result,      \* the JobResult, or the exception
  faults

vars == <<now, containers, pc, start_time, container, proc, codes, result, faults>>

ContainerNames == Names \X (0..MAX_TIME)
Absent == [state |-> "absent", oom |-> FALSE, by |-> {}]
Idle == [state |-> "none", output |-> FALSE, code |-> "null"]

Here(c) == containers[container[c]]
deadline(c) == start_time[c] + MAX_DURATION

Init ==
  /\ now = 0
  /\ containers = [n \in ContainerNames |-> Absent]
  /\ pc = [c \in Calls |-> "idle"]
  /\ start_time = [c \in Calls |-> 0]
  /\ container = [c \in Calls |-> NoContainer]
  /\ proc = [c \in Calls |-> Idle]
  /\ codes = [c \in Calls |-> <<>>]
  /\ result = [c \in Calls |-> "none"]
  /\ faults = 0

Goto(c, label) == pc' = [pc EXCEPT ![c] = label]

\* "return" and "raise" pass through the finally block, which has something
\* to do only if the container is known.
Leave(c, r) ==
  /\ result' = [result EXCEPT ![c] = r]
  /\ Goto(c, IF container[c] = NoContainer THEN "done" ELSE "stop")

SetState(n, s) == containers' = [containers EXCEPT ![n].state = s]

-----------------------------------------------------------------------------
(* run_job *)

Enter(c) ==
  /\ pc[c] = "idle" /\ now <= LAST_START
  /\ start_time' = [start_time EXCEPT ![c] = now]
  /\ Goto(c, "create")
  /\ UNCHANGED <<now, containers, container, proc, codes, result, faults>>

\* Mutant: a container that has the name already is used.
CreateContainerOrReuse(c) ==
  /\ pc[c] = "create"
  /\ LET name == <<job_name[c], now>> IN
       /\ containers' = [containers EXCEPT ![name] =
            IF @.state = "absent"
              THEN [state |-> "created", oom |-> FALSE, by |-> {c}] ELSE @]
       /\ container' = [container EXCEPT ![c] = name]
       /\ Goto(c, "start")
       /\ UNCHANGED result
  /\ UNCHANGED <<now, start_time, proc, codes, faults>>

\* _create_container: the name carries the second of its creation; the daemon
\* refuses a name that is taken.
CreateContainer(c) ==
  /\ pc[c] = "create"
  /\ LET name == <<job_name[c], now>> IN
       \/ /\ containers[name].state = "absent"
          /\ containers' = [containers EXCEPT ![name] =
               [state |-> "created", oom |-> FALSE, by |-> {c}]]
          /\ container' = [container EXCEPT ![c] = name]
          /\ Goto(c, "start")
          /\ UNCHANGED result
       \/ /\ containers[name].state # "absent"
          /\ Leave(c, "raised")
          /\ UNCHANGED <<containers, container>>
  /\ UNCHANGED <<now, start_time, proc, codes, faults>>

StartContainer(c) ==
  /\ pc[c] = "start"
  /\ SetState(container[c], "running")
  /\ Goto(c, "steps")
  /\ UNCHANGED <<now, start_time, container, proc, codes, result, faults>>

\* The next turn of the loop over the steps, with time left: exec_create and
\* exec_start.
StartStep(c) ==
  /\ pc[c] = "steps" /\ Len(codes[c]) < STEPS /\ now < deadline(c)
  /\ proc' = [proc EXCEPT ![c] = [Idle EXCEPT !.state = "running"]]
  /\ Goto(c, "stream")
  /\ UNCHANGED <<now, containers, start_time, container, codes, result, faults>>

StepTooLate(c) ==
  /\ pc[c] = "steps" /\ Len(codes[c]) < STEPS /\ now >= deadline(c)
  /\ Leave(c, "timed_out")
  /\ UNCHANGED <<now, containers, start_time, container, proc, codes, faults>>

StepsDone(c) ==
  /\ pc[c] = "steps" /\ Len(codes[c]) = STEPS
  /\ Leave(c, "succeeded")
  /\ UNCHANGED <<now, containers, start_time, container, proc, codes, faults>>

\* A chunk of output in time: its lines are logged.
LogChunk(c) ==
  /\ pc[c] = "stream" /\ proc[c].output
  /\ now <= deadline(c)
  /\ proc' = [proc EXCEPT ![c].output = FALSE]
  /\ UNCHANGED <<now, containers, pc, start_time, container, codes, result, faults>>

\* Mutant: the late step is left alone.
ChunkTooLateIgnored(c) ==
  /\ pc[c] = "stream" /\ proc[c].output
  /\ now > deadline(c)
  /\ proc' = [proc EXCEPT ![c].output = FALSE]
  /\ UNCHANGED <<now, containers, pc, start_time, container, codes, result, faults>>

\* A chunk after the deadline: container.kill() and exit code 124; kill raises
\* if the container does not run any more.
ChunkTooLate(c) ==
  /\ pc[c] = "stream" /\ proc[c].output
  /\ now > deadline(c)
  /\ proc' = [proc EXCEPT ![c] = Idle]
  /\ \/ /\ Here(c).state = "running"
        /\ SetState(container[c], "exited")
        /\ Leave(c, "timed_out")
     \/ /\ Here(c).state # "running"
        /\ Leave(c, "raised")
        /\ UNCHANGED containers
  /\ UNCHANGED <<now, start_time, container, codes, faults>>

\* Mutant: the loop goes on after a step that failed.
InspectStepGoesOn(c) ==
  /\ pc[c] = "stream" /\ proc[c].state # "running" /\ ~ proc[c].output
  /\ codes' = [codes EXCEPT ![c] = Append(@, proc[c].code)]
  /\ proc' = [proc EXCEPT ![c] = Idle]
  /\ Goto(c, "steps")
  /\ UNCHANGED <<now, containers, start_time, container, result, faults>>

\* The output is at its end: exec_inspect, whose missing ExitCode counts as 0,
\* and the OOMKilled state of the container.
InspectStep(c) ==
  /\ pc[c] = "stream" /\ proc[c].state # "running" /\ ~ proc[c].output
  /\ codes' = [codes EXCEPT ![c] = Append(@, proc[c].code)]
  /\ proc' = [proc EXCEPT ![c] = Idle]
  /\ \/ Here(c).oom /\ Leave(c, "oom")
     \/ ~ Here(c).oom /\ proc[c].code = "nonzero" /\ Leave(c, "failed")
     \/ /\ ~ Here(c).oom /\ proc[c].code # "nonzero"
        /\ Goto(c, "steps")
        /\ UNCHANGED result
  /\ UNCHANGED <<now, containers, start_time, container, faults>>

\* Mutant: the container is stopped and kept.
StopContainerOnly(c) ==
  /\ pc[c] = "stop"
  /\ SetState(container[c], "exited")
  /\ Goto(c, "done")
  /\ UNCHANGED <<now, start_time, container, proc, codes, result, faults>>

StopContainer(c) ==
  /\ pc[c] = "stop"
  /\ SetState(container[c], "exited")
  /\ Goto(c, "remove")
  /\ UNCHANGED <<now, start_time, container, proc, codes, result, faults>>

RemoveContainer(c) ==
  /\ pc[c] = "remove"
  /\ containers' = [containers EXCEPT ![container[c]] = Absent]
  /\ Goto(c, "done")
  /\ UNCHANGED <<now, start_time, container, proc, codes, result, faults>>

-----------------------------------------------------------------------------
(* Failing requests *)

Fault == faults < MAX_FAULTS /\ faults' = faults + 1

\* images.get, pull or create raises; the daemon may have created the
\* container although the answer never came.
CreateFails(c) ==
  /\ Fault
  /\ pc[c] = "create"
  /\ LET name == <<job_name[c], now>> IN
       \/ UNCHANGED containers
       \/ /\ containers[name].state = "absent"
          /\ containers' = [containers EXCEPT ![name] =
               [state |-> "created", oom |-> FALSE, by |-> {c}]]
  /\ Leave(c, "raised")
  /\ UNCHANGED <<now, start_time, container, proc, codes>>

\* start, exec_create, exec_start, the stream, exec_inspect or reload raises
\* an APIError, which is not the ContainerError that run_job catches.
RequestFails(c) ==
  /\ Fault
  /\ pc[c] \in {"start", "stream"} \/ (pc[c] = "steps" /\ Len(codes[c]) < STEPS)
  /\ Leave(c, "raised")
  /\ UNCHANGED <<now, containers, start_time, container, proc, codes>>

\* stop and remove share one try block: what fails is logged, the rest left out.
CleanupFails(c) ==
  /\ Fault
  /\ pc[c] \in {"stop", "remove"}
  /\ Goto(c, "done")
  /\ UNCHANGED <<now, containers, start_time, container, proc, codes, result>>

\* The engine is killed with all its calls; the containers are the daemon's.
EngineKilled ==
  /\ Fault
  /\ pc' = [c \in Calls |-> IF pc[c] = "idle" THEN "idle" ELSE "done"]
  /\ result' = [c \in Calls |->
       IF pc[c] \in {"idle", "done"} THEN result[c] ELSE "lost"]
  /\ UNCHANGED <<now, containers, start_time, container, proc, codes>>

-----------------------------------------------------------------------------
(* The steps in the containers, and the clock *)

Running(c) == pc[c] = "stream" /\ proc[c].state = "running"

StepPrints(c) ==
  /\ Running(c) /\ ~ proc[c].output
  /\ proc' = [proc EXCEPT ![c].output = TRUE]
  /\ UNCHANGED <<now, containers, pc, start_time, container, codes, result, faults>>

\* The process ends, or closes its output and goes on ("null").
StepEnds(c) ==
  /\ Running(c)
  /\ \E code \in {"zero", "nonzero", "null"} :
       proc' = [proc EXCEPT ![c].state = "ended", ![c].code = code]
  /\ UNCHANGED <<now, containers, pc, start_time, container, codes, result, faults>>

\* The kernel kills the step, and with it the container or not.
OomKill(c) ==
  /\ Running(c)
  /\ proc' = [proc EXCEPT ![c].state = "ended", ![c].code = "nonzero"]
  /\ \E s \in {"running", "exited"} :
       containers' = [containers EXCEPT ![container[c]].oom = TRUE,
                                        ![container[c]].state = s]
  /\ UNCHANGED <<now, pc, start_time, container, codes, result, faults>>

Tick ==
  /\ now < MAX_TIME
  /\ now' = now + 1
  /\ UNCHANGED <<containers, pc, start_time, container, proc, codes, result, faults>>

-----------------------------------------------------------------------------

run_job(c) ==
  \/ CreateContainer(c) \/ StartContainer(c)
  \/ StartStep(c) \/ StepTooLate(c) \/ StepsDone(c)
  \/ LogChunk(c) \/ ChunkTooLate(c) \/ InspectStep(c)
  \/ StopContainer(c) \/ RemoveContainer(c)

Next ==
  \/ \E c \in Calls :
       \/ Enter(c) \/ run_job(c)
       \/ CreateFails(c) \/ RequestFails(c) \/ CleanupFails(c)
       \/ StepPrints(c) \/ StepEnds(c) \/ OomKill(c)
  \/ EngineKilled
  \/ Tick

Spec == Init /\ [][Next]_vars

\* Every thread runs and time passes; no step need ever print or end.
FairSpec ==
  /\ Spec
  /\ WF_vars(Tick)
  /\ \A c \in Calls : WF_vars(run_job(c))

-----------------------------------------------------------------------------
(* Properties *)

\* "Each job runs in a dedicated Docker container" (README.md:49): while a call
\* uses a container it is the one it has created and nobody else's, even when
\* two runs start the same job within a second.
OwnContainer ==
  \A c \in Calls :
    pc[c] \in {"start", "steps", "stream", "stop", "remove"} =>
      /\ container[c] # NoContainer
      /\ Here(c).state # "absent" /\ Here(c).by = {c}

\* A job succeeds only if all its steps were executed, in order, and none was
\* reported to have failed; no step follows one that failed (run_job).
SuccessSound ==
  \A c \in Calls :
    /\ result[c] = "succeeded" =>
         /\ Len(codes[c]) = STEPS
         /\ \A i \in 1..STEPS : codes[c][i] # "nonzero"
    /\ \A i \in 1..(Len(codes[c]) - 1) : codes[c][i] # "nonzero"

\* If every request to Docker is answered, a call leaves no container behind,
\* however it ends (the finally block).
NoLeak ==
  faults = 0 =>
    \A c \in Calls : pc[c] = "done" =>
      \A n \in ContainerNames : c \notin containers[n].by

\* A job that keeps printing ends: only a step that has fallen silent for ever
\* can hold its thread (_exec_step).
ChattyJobsEnd ==
  \A c \in Calls :
    [](pc[c] # "idle" =>
         <>(pc[c] = "done" \/ [](Running(c) /\ ~ proc[c].output)))

\* README.md:57, "Per-job wall-clock timeout": a job that succeeds has ended
\* its steps before its deadline.
TimeLimit ==
  [][\A c \in Calls :
       result[c] = "none" /\ result'[c] = "succeeded" =>
         now <= start_time[c] + MAX_DURATION]_vars
=============================================================================
