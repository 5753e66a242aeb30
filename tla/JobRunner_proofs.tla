---------------------------- MODULE JobRunner_proofs ----------------------------
(***************************************************************************)
(* Containers and results of run_job: the inductive invariant of JobRunner *)
(* and what follows from it, for any number of calls, steps and failures,  *)
(* any time limit and any sharing of job names between runs.               *)
(***************************************************************************)
EXTENDS JobRunner, TLAPS

States == {"absent", "created", "running", "exited"}
Codes == {"zero", "nonzero", "null"}
Containers == [state : States, oom : BOOLEAN, by : SUBSET Calls]
Procs == [state : {"none", "running", "ended"}, output : BOOLEAN, code : Codes]
Using == {"start", "steps", "stream", "stop", "remove"}

TypeOK ==
  /\ now \in 0..MAX_TIME
  /\ containers \in [ContainerNames -> Containers]
  /\ pc \in [Calls -> {"idle", "create", "done"} \cup Using]
  /\ start_time \in [Calls -> Nat]
  /\ container \in [Calls -> ContainerNames \cup {NoContainer}]
  /\ proc \in [Calls -> Procs]
  /\ codes \in [Calls -> Seq(Codes)]
  /\ result \in [Calls -> {"none", "succeeded", "failed", "timed_out", "oom", "raised", "lost"}]
  /\ faults \in Nat

\* A call has no container before it has created one.
NoneBefore ==
  \A c \in Calls : pc[c] \in {"idle", "create"} => container[c] = NoContainer

\* While nothing fails, what a call has created it still uses.
Keeps(c) ==
  \A n \in ContainerNames :
    c \in containers[n].by => pc[c] \in Using /\ n = container[c]

KeptWhileUsed == faults = 0 => \A c \in Calls : Keeps(c)

\* A call goes on only as long as no step has failed, and it has its result
\* only when it is past the steps.
Clean(s) == \A i \in 1..Len(s) : s[i] # "nonzero"

CodesClean ==
  \A c \in Calls :
    /\ pc[c] \in {"idle", "create", "start", "steps", "stream"} =>
         result[c] = "none" /\ Clean(codes[c])
    /\ result[c] = "succeeded" => Len(codes[c]) = STEPS /\ Clean(codes[c])
    /\ \A i \in 1..(Len(codes[c]) - 1) : codes[c][i] # "nonzero"

IInv ==
  /\ TypeOK
  /\ NoneBefore /\ OwnContainer
  /\ KeptWhileUsed
  /\ CodesClean

-----------------------------------------------------------------------------
USE JobNameAssumption, StepsAssumption, BoundsAssumption, NoContainerAssumption
    DEF Using, Goto

\* The clock is a number of seconds, and None is not the name of a container.
LEMMA NamesAndTimes ==
  /\ MAX_TIME \in Nat
  /\ NoContainer \notin ContainerNames
  /\ \A c \in Calls, t \in 0..MAX_TIME : <<job_name[c], t>> \in ContainerNames
BY DEF MAX_TIME, ContainerNames

\* What a request to the daemon does to its containers.
LEMMA SetStateEffect ==
  ASSUME containers \in [ContainerNames -> Containers],
         NEW n \in ContainerNames, NEW st \in States, SetState(n, st)
  PROVE  /\ containers' \in [ContainerNames -> Containers]
         /\ containers'[n].state = st /\ containers'[n].by = containers[n].by
         /\ \A m \in ContainerNames \ {n} : containers'[m] = containers[m]
BY DEF SetState, Containers

\* A container that was created is its creator's.
LEMMA NewContainer ==
  ASSUME containers \in [ContainerNames -> Containers],
         NEW n \in ContainerNames, NEW c \in Calls,
         containers' = [containers EXCEPT ![n] =
                          [state |-> "created", oom |-> FALSE, by |-> {c}]]
  PROVE  /\ containers' \in [ContainerNames -> Containers]
         /\ containers'[n].state = "created" /\ containers'[n].by = {c}
         /\ \A m \in ContainerNames \ {n} : containers'[m] = containers[m]
<1> DEFINE new == [state |-> "created", oom |-> FALSE, by |-> {c}]
<1>1. new \in Containers /\ new.state = "created" /\ new.by = {c}
  BY DEF Containers, States
<1>2. containers' = [containers EXCEPT ![n] = new]
  OBVIOUS
<1> HIDE DEF new
<1>3. QED
  BY <1>1, <1>2

\* What a step that is killed or ends leaves of its process.
LEMMA EndedProc ==
  ASSUME proc \in [Calls -> Procs], NEW c \in Calls, NEW k \in Codes,
         proc' = [proc EXCEPT ![c].state = "ended", ![c].code = k]
  PROVE  proc' \in [Calls -> Procs]
<1> DEFINE x == proc[c]
           y == [[x EXCEPT !.state = "ended"] EXCEPT !.code = k]
<1>1. y \in Procs
  BY DEF Procs
<1>2. proc' = [proc EXCEPT ![c] = y]
  OBVIOUS
<1> HIDE DEF x, y
<1>3. QED
  BY <1>1, <1>2

\* A kill for want of memory changes the state of one container.
LEMMA OomEffect ==
  ASSUME containers \in [ContainerNames -> Containers],
         NEW n \in ContainerNames, NEW st \in {"running", "exited"},
         containers' = [containers EXCEPT ![n].oom = TRUE, ![n].state = st]
  PROVE  /\ containers' \in [ContainerNames -> Containers]
         /\ containers'[n].state = st /\ containers'[n].by = containers[n].by
         /\ \A m \in ContainerNames \ {n} : containers'[m] = containers[m]
<1> DEFINE x == containers[n]
           y == [[x EXCEPT !.oom = TRUE] EXCEPT !.state = st]
<1>1. y \in Containers /\ y.state = st /\ y.by = x.by
  BY DEF Containers, States
<1>2. containers' = [containers EXCEPT ![n] = y]
  OBVIOUS
<1> HIDE DEF x, y
<1>3. QED
  BY <1>1, <1>2 DEF x


\* Every step keeps the types.
LEMMA StepType == TypeOK /\ OwnContainer /\ [Next]_vars => TypeOK'
<1> SUFFICES ASSUME TypeOK, OwnContainer, [Next]_vars PROVE TypeOK'
  OBVIOUS
<1> USE NamesAndTimes DEF TypeOK, OwnContainer, Here
<1>1. ASSUME NEW c \in Calls, Enter(c)
      PROVE  TypeOK'
  BY <1>1 DEF Enter
<1>2. ASSUME NEW c \in Calls, CreateContainer(c)
      PROVE  TypeOK'
  <2> DEFINE name == <<job_name[c], now>>
  <2>1. name \in ContainerNames
    OBVIOUS
  <2>2. containers' \in [ContainerNames -> Containers]
    BY <1>2, <2>1, NewContainer DEF CreateContainer
  <2>3. container' \in [Calls -> ContainerNames \cup {NoContainer}]
    BY <1>2, <2>1 DEF CreateContainer
  <2>4. QED
    BY <1>2, <2>2, <2>3 DEF CreateContainer, Leave
<1>3. ASSUME NEW c \in Calls, StartContainer(c)
      PROVE  TypeOK'
  <2>a. container[c] \in ContainerNames
    BY <1>3 DEF StartContainer, Running, OwnContainer
  <2>1. containers' \in [ContainerNames -> Containers]
    BY <1>3, <2>a, SetStateEffect DEF StartContainer, States
  <2>2. QED
    BY <1>3, <2>1 DEF StartContainer
<1>4. ASSUME NEW c \in Calls, StartStep(c)
      PROVE  TypeOK'
  <2>1. proc' \in [Calls -> Procs]
    BY <1>4 DEF StartStep, Procs, Codes, Idle
  <2>2. QED
    BY <1>4, <2>1 DEF StartStep
<1>5. ASSUME NEW c \in Calls, StepTooLate(c)
      PROVE  TypeOK'
  BY <1>5 DEF StepTooLate, Leave
<1>6. ASSUME NEW c \in Calls, StepsDone(c)
      PROVE  TypeOK'
  BY <1>6 DEF StepsDone, Leave
<1>7. ASSUME NEW c \in Calls, LogChunk(c)
      PROVE  TypeOK'
  <2>1. proc' \in [Calls -> Procs]
    BY <1>7 DEF LogChunk, Procs, Codes
  <2>2. QED
    BY <1>7, <2>1 DEF LogChunk
<1>8. ASSUME NEW c \in Calls, ChunkTooLate(c)
      PROVE  TypeOK'
  <2>a. container[c] \in ContainerNames
    BY <1>8 DEF ChunkTooLate, Running, OwnContainer
  <2>1. containers' \in [ContainerNames -> Containers]
    BY <1>8, <2>a, SetStateEffect DEF ChunkTooLate, States
  <2>2. proc' \in [Calls -> Procs]
    BY <1>8 DEF ChunkTooLate, Idle, Procs, Codes
  <2>3. QED
    BY <1>8, <2>1, <2>2 DEF ChunkTooLate, Leave
<1>9. ASSUME NEW c \in Calls, InspectStep(c)
      PROVE  TypeOK'
  <2>1. proc' \in [Calls -> Procs]
    BY <1>9 DEF InspectStep, Idle, Procs, Codes
  <2>2. proc[c].code \in Codes
    BY DEF Procs
  <2>3. codes' \in [Calls -> Seq(Codes)]
    BY <1>9, <2>2 DEF InspectStep
  <2>4. pc' \in [Calls -> {"idle", "create", "done"} \cup Using] /\ UNCHANGED containers
        /\ result' \in [Calls -> {"none", "succeeded", "failed", "timed_out", "oom",
                                "raised", "lost"}]
    BY <1>9 DEF InspectStep, Leave
  <2>5. QED
    BY <1>9, <2>1, <2>3, <2>4 DEF InspectStep
<1>10. ASSUME NEW c \in Calls, StopContainer(c)
      PROVE  TypeOK'
  <2>a. container[c] \in ContainerNames
    BY <1>10 DEF StopContainer, Running, OwnContainer
  <2>1. containers' \in [ContainerNames -> Containers]
    BY <1>10, <2>a, SetStateEffect DEF StopContainer, States
  <2>2. QED
    BY <1>10, <2>1 DEF StopContainer
<1>11. ASSUME NEW c \in Calls, RemoveContainer(c)
      PROVE  TypeOK'
  <2>a. container[c] \in ContainerNames
    BY <1>11 DEF RemoveContainer, Running, OwnContainer
  <2>1. Absent \in Containers
    BY DEF Absent, Containers, States
  <2>2. QED
    BY <1>11, <2>a, <2>1 DEF RemoveContainer
<1>12. ASSUME NEW c \in Calls, CreateFails(c)
      PROVE  TypeOK'
  <2> DEFINE name == <<job_name[c], now>>
  <2>1. name \in ContainerNames
    OBVIOUS
  <2>2. containers' \in [ContainerNames -> Containers]
    BY <1>12, <2>1, NewContainer DEF CreateFails
  <2>3. QED
    BY <1>12, <2>2 DEF CreateFails, Leave, Fault
<1>13. ASSUME NEW c \in Calls, RequestFails(c)
      PROVE  TypeOK'
  BY <1>13 DEF RequestFails, Leave, Fault
<1>14. ASSUME NEW c \in Calls, CleanupFails(c)
      PROVE  TypeOK'
  BY <1>14 DEF CleanupFails, Fault
<1>15. ASSUME NEW c \in Calls, StepPrints(c)
      PROVE  TypeOK'
  <2>1. proc' \in [Calls -> Procs]
    BY <1>15 DEF StepPrints, Procs, Codes
  <2>2. QED
    BY <1>15, <2>1 DEF StepPrints, Running
<1>16. ASSUME NEW c \in Calls, StepEnds(c)
      PROVE  TypeOK'
  <2>1. proc' \in [Calls -> Procs]
    BY <1>16, EndedProc DEF StepEnds, Codes
  <2>2. QED
    BY <1>16, <2>1 DEF StepEnds
<1>17. ASSUME NEW c \in Calls, OomKill(c)
      PROVE  TypeOK'
  <2>a. container[c] \in ContainerNames
    BY <1>17 DEF OomKill, Running, OwnContainer
  <2>1. proc' \in [Calls -> Procs]
    BY <1>17, EndedProc DEF OomKill, Codes
  <2>2. containers' \in [ContainerNames -> Containers]
    BY <1>17, <2>a, OomEffect DEF OomKill
  <2>3. QED
    BY <1>17, <2>1, <2>2 DEF OomKill
<1>18. CASE EngineKilled
  BY <1>18 DEF EngineKilled, Fault
<1>19. CASE Tick
  BY <1>19 DEF Tick
<1>20. CASE UNCHANGED vars
  BY <1>20 DEF vars
<1>21. QED
  BY <1>1, <1>2, <1>3, <1>4, <1>5, <1>6, <1>7, <1>8, <1>9, <1>10, <1>11, <1>12, <1>13,
     <1>14, <1>15, <1>16, <1>17, <1>18, <1>19, <1>20
     DEF Next, run_job

\* A call gets its container and leaves "create" in one step.
LEMMA StepNone == TypeOK /\ NoneBefore /\ [Next]_vars => NoneBefore'
<1> SUFFICES ASSUME TypeOK, NoneBefore, [Next]_vars PROVE NoneBefore'
  OBVIOUS
<1> USE NamesAndTimes DEF TypeOK, NoneBefore
<1>1. ASSUME NEW c \in Calls, Enter(c)
      PROVE  NoneBefore'
  BY <1>1 DEF Enter
<1>2. ASSUME NEW c \in Calls, CreateContainer(c)
      PROVE  NoneBefore'
  BY <1>2 DEF CreateContainer, Leave
<1>3. ASSUME NEW c \in Calls, StartContainer(c)
      PROVE  NoneBefore'
  BY <1>3 DEF StartContainer, SetState
<1>4. ASSUME NEW c \in Calls, StartStep(c)
      PROVE  NoneBefore'
  BY <1>4 DEF StartStep, Idle
<1>5. ASSUME NEW c \in Calls, StepTooLate(c)
      PROVE  NoneBefore'
  BY <1>5 DEF StepTooLate, Leave
<1>6. ASSUME NEW c \in Calls, StepsDone(c)
      PROVE  NoneBefore'
  BY <1>6 DEF StepsDone, Leave
<1>7. ASSUME NEW c \in Calls, LogChunk(c)
      PROVE  NoneBefore'
  BY <1>7 DEF LogChunk
<1>8. ASSUME NEW c \in Calls, ChunkTooLate(c)
      PROVE  NoneBefore'
  BY <1>8 DEF ChunkTooLate, Leave, SetState, Idle
<1>9. ASSUME NEW c \in Calls, InspectStep(c)
      PROVE  NoneBefore'
  BY <1>9 DEF InspectStep, Leave, Idle
<1>10. ASSUME NEW c \in Calls, StopContainer(c)
      PROVE  NoneBefore'
  BY <1>10 DEF StopContainer, SetState
<1>11. ASSUME NEW c \in Calls, RemoveContainer(c)
      PROVE  NoneBefore'
  BY <1>11 DEF RemoveContainer, Absent
<1>12. ASSUME NEW c \in Calls, CreateFails(c)
      PROVE  NoneBefore'
  BY <1>12 DEF CreateFails, Leave, Fault
<1>13. ASSUME NEW c \in Calls, RequestFails(c)
      PROVE  NoneBefore'
  BY <1>13 DEF RequestFails, Leave, Fault
<1>14. ASSUME NEW c \in Calls, CleanupFails(c)
      PROVE  NoneBefore'
  BY <1>14 DEF CleanupFails, Fault
<1>15. ASSUME NEW c \in Calls, StepPrints(c)
      PROVE  NoneBefore'
  BY <1>15 DEF StepPrints, Running
<1>16. ASSUME NEW c \in Calls, StepEnds(c)
      PROVE  NoneBefore'
  BY <1>16 DEF StepEnds, Running
<1>17. ASSUME NEW c \in Calls, OomKill(c)
      PROVE  NoneBefore'
  BY <1>17 DEF OomKill, Running
<1>18. CASE EngineKilled
  BY <1>18 DEF EngineKilled, Fault
<1>19. CASE Tick
  BY <1>19 DEF Tick
<1>20. CASE UNCHANGED vars
  BY <1>20 DEF vars
<1>21. QED
  BY <1>1, <1>2, <1>3, <1>4, <1>5, <1>6, <1>7, <1>8, <1>9, <1>10, <1>11, <1>12, <1>13,
     <1>14, <1>15, <1>16, <1>17, <1>18, <1>19, <1>20
     DEF Next, run_job

\* The daemon refuses a name that is taken, and nobody touches the container of
\* another call.
LEMMA StepOwn == TypeOK /\ NoneBefore /\ OwnContainer /\ [Next]_vars => OwnContainer'
<1> SUFFICES ASSUME TypeOK, NoneBefore, OwnContainer, [Next]_vars PROVE OwnContainer'
  OBVIOUS
<1> USE NamesAndTimes DEF TypeOK, States, Containers, NoneBefore, OwnContainer, Here
<1>1. ASSUME NEW c \in Calls, Enter(c)
      PROVE  OwnContainer'
  BY <1>1 DEF Enter
<1>2. ASSUME NEW c \in Calls, CreateContainer(c)
      PROVE  OwnContainer'
  <2> DEFINE name == <<job_name[c], now>>
  <2>0. name \in ContainerNames
    OBVIOUS
  <2>1. CASE containers[name].state # "absent" /\ UNCHANGED <<containers, container>>
    BY <1>2, <2>1 DEF CreateContainer, Leave
  <2>2. CASE /\ containers[name].state = "absent"
             /\ containers' = [containers EXCEPT ![name] =
                  [state |-> "created", oom |-> FALSE, by |-> {c}]]
             /\ container' = [container EXCEPT ![c] = name]
             /\ pc' = [pc EXCEPT ![c] = "start"]
    <3>1. /\ containers'[name].state = "created" /\ containers'[name].by = {c}
          /\ \A m \in ContainerNames \ {name} : containers'[m] = containers[m]
      BY <2>0, <2>2, NewContainer
    <3> HIDE DEF name
    <3>2. QED
      BY <2>0, <2>2, <3>1
  <2>3. QED
    BY <1>2, <2>1, <2>2 DEF CreateContainer
<1>3. ASSUME NEW c \in Calls, StartContainer(c)
      PROVE  OwnContainer'
  BY <1>3 DEF StartContainer, SetState
<1>4. ASSUME NEW c \in Calls, StartStep(c)
      PROVE  OwnContainer'
  BY <1>4 DEF StartStep, Idle
<1>5. ASSUME NEW c \in Calls, StepTooLate(c)
      PROVE  OwnContainer'
  BY <1>5 DEF StepTooLate, Leave
<1>6. ASSUME NEW c \in Calls, StepsDone(c)
      PROVE  OwnContainer'
  BY <1>6 DEF StepsDone, Leave
<1>7. ASSUME NEW c \in Calls, LogChunk(c)
      PROVE  OwnContainer'
  BY <1>7 DEF LogChunk
<1>8. ASSUME NEW c \in Calls, ChunkTooLate(c)
      PROVE  OwnContainer'
  <2>a. container[c] \in ContainerNames
    BY <1>8 DEF ChunkTooLate, Running, OwnContainer
  <2>b. /\ pc[c] = "stream" /\ pc' = [pc EXCEPT ![c] = "stop"]
        /\ UNCHANGED <<container, faults>>
    BY <1>8, <2>a DEF ChunkTooLate, Leave
  <2>1. CASE UNCHANGED containers
    BY <2>b, <2>1
  <2>2. CASE SetState(container[c], "exited")
    <3>1. /\ containers'[container[c]].state = "exited"
          /\ containers'[container[c]].by = containers[container[c]].by
          /\ \A m \in ContainerNames \ {container[c]} : containers'[m] = containers[m]
      BY <2>a, <2>2, SetStateEffect
    <3>2. \A b \in Calls \ {c} : pc[b] \in Using =>
            container[b] \in ContainerNames \ {container[c]}
      BY <2>b
    <3>3. QED
      BY <2>a, <2>b, <3>1, <3>2
  <2>3. QED
    BY <1>8, <2>1, <2>2 DEF ChunkTooLate
<1>9. ASSUME NEW c \in Calls, InspectStep(c)
      PROVE  OwnContainer'
  BY <1>9 DEF InspectStep, Leave, Idle
<1>10. ASSUME NEW c \in Calls, StopContainer(c)
      PROVE  OwnContainer'
  BY <1>10 DEF StopContainer, SetState
<1>11. ASSUME NEW c \in Calls, RemoveContainer(c)
      PROVE  OwnContainer'
  <2>a. container[c] \in ContainerNames
    BY <1>11 DEF RemoveContainer, Running, OwnContainer
  <2>1. \A b \in Calls \ {c} : pc[b] \in Using =>
          container[b] \in ContainerNames \ {container[c]}
    BY <1>11 DEF RemoveContainer
  <2>2. \A m \in ContainerNames \ {container[c]} : containers'[m] = containers[m]
    BY <1>11 DEF RemoveContainer
  <2>3. QED
    BY <1>11, <2>a, <2>1, <2>2 DEF RemoveContainer
<1>12. ASSUME NEW c \in Calls, CreateFails(c)
      PROVE  OwnContainer'
  BY <1>12 DEF CreateFails, Leave, Fault
<1>13. ASSUME NEW c \in Calls, RequestFails(c)
      PROVE  OwnContainer'
  BY <1>13 DEF RequestFails, Leave, Fault
<1>14. ASSUME NEW c \in Calls, CleanupFails(c)
      PROVE  OwnContainer'
  BY <1>14 DEF CleanupFails, Fault
<1>15. ASSUME NEW c \in Calls, StepPrints(c)
      PROVE  OwnContainer'
  BY <1>15 DEF StepPrints, Running
<1>16. ASSUME NEW c \in Calls, StepEnds(c)
      PROVE  OwnContainer'
  BY <1>16 DEF StepEnds, Running
<1>17. ASSUME NEW c \in Calls, OomKill(c)
      PROVE  OwnContainer'
  BY <1>17 DEF OomKill, Running
<1>18. CASE EngineKilled
  BY <1>18 DEF EngineKilled, Fault
<1>19. CASE Tick
  BY <1>19 DEF Tick
<1>20. CASE UNCHANGED vars
  BY <1>20 DEF vars
<1>21. QED
  BY <1>1, <1>2, <1>3, <1>4, <1>5, <1>6, <1>7, <1>8, <1>9, <1>10, <1>11, <1>12, <1>13,
     <1>14, <1>15, <1>16, <1>17, <1>18, <1>19, <1>20
     DEF Next, run_job

\* A step that creates, removes and leaves no container keeps it so.
LEMMA KeptIfSame ==
  ASSUME KeptWhileUsed, UNCHANGED <<faults, container>>,
         \A n \in ContainerNames : containers'[n].by = containers[n].by,
         \A d \in Calls : pc[d] \in Using => pc'[d] \in Using
  PROVE  KeptWhileUsed'
BY DEF KeptWhileUsed, Keeps

\* Without a failure the finally block is reached with the container, and removes it.
LEMMA StepKept ==
  TypeOK /\ NoneBefore /\ OwnContainer /\ KeptWhileUsed /\ [Next]_vars => KeptWhileUsed'
<1> SUFFICES ASSUME TypeOK, NoneBefore, OwnContainer, KeptWhileUsed, [Next]_vars
             PROVE  KeptWhileUsed'
  OBVIOUS
<1> USE NamesAndTimes
    DEF TypeOK, States, Containers, NoneBefore, OwnContainer, KeptWhileUsed, Keeps, Here
<1>1. ASSUME NEW c \in Calls, Enter(c)
      PROVE  KeptWhileUsed'
  BY <1>1 DEF Enter
<1>2. ASSUME NEW c \in Calls, CreateContainer(c)
      PROVE  KeptWhileUsed'
  <2> DEFINE name == <<job_name[c], now>>
  <2>0. name \in ContainerNames
    OBVIOUS
  <2>1. CASE containers[name].state # "absent" /\ UNCHANGED <<containers, container>>
    BY <1>2, <2>1 DEF CreateContainer, Leave
  <2>2. CASE /\ containers[name].state = "absent"
             /\ containers' = [containers EXCEPT ![name] =
                  [state |-> "created", oom |-> FALSE, by |-> {c}]]
             /\ container' = [container EXCEPT ![c] = name]
             /\ pc' = [pc EXCEPT ![c] = "start"]
    <3>1. /\ containers'[name].state = "created" /\ containers'[name].by = {c}
          /\ \A m \in ContainerNames \ {name} : containers'[m] = containers[m]
      BY <2>0, <2>2, NewContainer
    <3>2. \A d \in Calls, m \in ContainerNames :
            d \in containers'[m].by => \/ d = c /\ m = name
                                     \/ d \in containers[m].by
      BY <3>1
    <3>3. \A d \in Calls \ {c} : pc'[d] = pc[d] /\ container'[d] = container[d]
      BY <2>2
    <3>4. pc[c] = "create" /\ pc'[c] \in Using /\ container'[c] = name /\ faults' = faults
      BY <1>2, <2>2 DEF CreateContainer
    <3> HIDE DEF name
    <3>5. QED
      BY <3>2, <3>3, <3>4
  <2>3. QED
    BY <1>2, <2>1, <2>2 DEF CreateContainer
<1>3. ASSUME NEW c \in Calls, StartContainer(c)
      PROVE  KeptWhileUsed'
  BY <1>3 DEF StartContainer, SetState
<1>4. ASSUME NEW c \in Calls, StartStep(c)
      PROVE  KeptWhileUsed'
  BY <1>4 DEF StartStep, Idle
<1>5. ASSUME NEW c \in Calls, StepTooLate(c)
      PROVE  KeptWhileUsed'
  BY <1>5 DEF StepTooLate, Leave
<1>6. ASSUME NEW c \in Calls, StepsDone(c)
      PROVE  KeptWhileUsed'
  BY <1>6 DEF StepsDone, Leave
<1>7. ASSUME NEW c \in Calls, LogChunk(c)
      PROVE  KeptWhileUsed'
  BY <1>7 DEF LogChunk
<1>8. ASSUME NEW c \in Calls, ChunkTooLate(c)
      PROVE  KeptWhileUsed'
  <2>a. container[c] \in ContainerNames
    BY <1>8 DEF ChunkTooLate, Running, OwnContainer
  <2>1. /\ pc[c] = "stream" /\ pc' = [pc EXCEPT ![c] = "stop"]
        /\ UNCHANGED <<container, faults>>
    BY <1>8, <2>a DEF ChunkTooLate, Leave
  <2>2. UNCHANGED containers \/ SetState(container[c], "exited")
    BY <1>8 DEF ChunkTooLate
  <2>3. \A n \in ContainerNames : containers'[n].by = containers[n].by
    <3>1. CASE UNCHANGED containers
      BY <3>1
    <3>2. CASE SetState(container[c], "exited")
      <4>1. /\ containers'[container[c]].by = containers[container[c]].by
            /\ \A m \in ContainerNames \ {container[c]} : containers'[m] = containers[m]
        BY <2>a, <3>2, SetStateEffect
      <4>2. QED
        BY <4>1
    <3>3. QED
      BY <2>2, <3>1, <3>2
  <2>4. \A d \in Calls : pc[d] \in Using => pc'[d] \in Using
    BY <2>1
  <2>5. QED
    BY <2>1, <2>3, <2>4, KeptIfSame
<1>9. ASSUME NEW c \in Calls, InspectStep(c)
      PROVE  KeptWhileUsed'
  BY <1>9 DEF InspectStep, Leave, Idle
<1>10. ASSUME NEW c \in Calls, StopContainer(c)
      PROVE  KeptWhileUsed'
  BY <1>10 DEF StopContainer, SetState
<1>11. ASSUME NEW c \in Calls, RemoveContainer(c)
      PROVE  KeptWhileUsed'
  BY <1>11 DEF RemoveContainer, Absent
<1>12. ASSUME NEW c \in Calls, CreateFails(c)
      PROVE  KeptWhileUsed'
  BY <1>12 DEF CreateFails, Leave, Fault
<1>13. ASSUME NEW c \in Calls, RequestFails(c)
      PROVE  KeptWhileUsed'
  BY <1>13 DEF RequestFails, Leave, Fault
<1>14. ASSUME NEW c \in Calls, CleanupFails(c)
      PROVE  KeptWhileUsed'
  BY <1>14 DEF CleanupFails, Fault
<1>15. ASSUME NEW c \in Calls, StepPrints(c)
      PROVE  KeptWhileUsed'
  BY <1>15 DEF StepPrints, Running
<1>16. ASSUME NEW c \in Calls, StepEnds(c)
      PROVE  KeptWhileUsed'
  BY <1>16 DEF StepEnds, Running
<1>17. ASSUME NEW c \in Calls, OomKill(c)
      PROVE  KeptWhileUsed'
  BY <1>17 DEF OomKill, Running
<1>18. CASE EngineKilled
  BY <1>18 DEF EngineKilled, Fault
<1>19. CASE Tick
  BY <1>19 DEF Tick
<1>20. CASE UNCHANGED vars
  BY <1>20 DEF vars
<1>21. QED
  BY <1>1, <1>2, <1>3, <1>4, <1>5, <1>6, <1>7, <1>8, <1>9, <1>10, <1>11, <1>12, <1>13,
     <1>14, <1>15, <1>16, <1>17, <1>18, <1>19, <1>20
     DEF Next, run_job

\* A code that is not 0 ends the loop over the steps.
LEMMA StepCodes == TypeOK /\ CodesClean /\ [Next]_vars => CodesClean'
<1> SUFFICES ASSUME TypeOK, CodesClean, [Next]_vars PROVE CodesClean'
  OBVIOUS
<1> USE NamesAndTimes DEF TypeOK, Procs, Codes, CodesClean, Clean
<1>1. ASSUME NEW c \in Calls, Enter(c)
      PROVE  CodesClean'
  BY <1>1 DEF Enter
<1>2. ASSUME NEW c \in Calls, CreateContainer(c)
      PROVE  CodesClean'
  BY <1>2 DEF CreateContainer, Leave
<1>3. ASSUME NEW c \in Calls, StartContainer(c)
      PROVE  CodesClean'
  BY <1>3 DEF StartContainer, SetState
<1>4. ASSUME NEW c \in Calls, StartStep(c)
      PROVE  CodesClean'
  BY <1>4 DEF StartStep, Idle
<1>5. ASSUME NEW c \in Calls, StepTooLate(c)
      PROVE  CodesClean'
  BY <1>5 DEF StepTooLate, Leave
<1>6. ASSUME NEW c \in Calls, StepsDone(c)
      PROVE  CodesClean'
  BY <1>6 DEF StepsDone, Leave
<1>7. ASSUME NEW c \in Calls, LogChunk(c)
      PROVE  CodesClean'
  BY <1>7 DEF LogChunk
<1>8. ASSUME NEW c \in Calls, ChunkTooLate(c)
      PROVE  CodesClean'
  <2>1. /\ pc[c] = "stream" /\ pc' = [pc EXCEPT ![c] = pc'[c]]
        /\ pc'[c] \in {"stop", "done"}
        /\ result' = [result EXCEPT ![c] = result'[c]] /\ result'[c] # "succeeded"
        /\ UNCHANGED codes
    BY <1>8 DEF ChunkTooLate, Leave
  <2>2. QED
    BY <2>1
<1>9. ASSUME NEW c \in Calls, InspectStep(c)
      PROVE  CodesClean'
  BY <1>9 DEF InspectStep, Leave, Idle
<1>10. ASSUME NEW c \in Calls, StopContainer(c)
      PROVE  CodesClean'
  BY <1>10 DEF StopContainer, SetState
<1>11. ASSUME NEW c \in Calls, RemoveContainer(c)
      PROVE  CodesClean'
  BY <1>11 DEF RemoveContainer, Absent
<1>12. ASSUME NEW c \in Calls, CreateFails(c)
      PROVE  CodesClean'
  BY <1>12 DEF CreateFails, Leave, Fault
<1>13. ASSUME NEW c \in Calls, RequestFails(c)
      PROVE  CodesClean'
  BY <1>13 DEF RequestFails, Leave, Fault
<1>14. ASSUME NEW c \in Calls, CleanupFails(c)
      PROVE  CodesClean'
  BY <1>14 DEF CleanupFails, Fault
<1>15. ASSUME NEW c \in Calls, StepPrints(c)
      PROVE  CodesClean'
  BY <1>15 DEF StepPrints, Running
<1>16. ASSUME NEW c \in Calls, StepEnds(c)
      PROVE  CodesClean'
  BY <1>16 DEF StepEnds, Running
<1>17. ASSUME NEW c \in Calls, OomKill(c)
      PROVE  CodesClean'
  BY <1>17 DEF OomKill, Running
<1>18. CASE EngineKilled
  BY <1>18 DEF EngineKilled, Fault
<1>19. CASE Tick
  BY <1>19 DEF Tick
<1>20. CASE UNCHANGED vars
  BY <1>20 DEF vars
<1>21. QED
  BY <1>1, <1>2, <1>3, <1>4, <1>5, <1>6, <1>7, <1>8, <1>9, <1>10, <1>11, <1>12, <1>13,
     <1>14, <1>15, <1>16, <1>17, <1>18, <1>19, <1>20
     DEF Next, run_job

-----------------------------------------------------------------------------

\* Before the first call there is no container and no result.
LEMMA InitInv == Init => IInv
BY NamesAndTimes
   DEF Init, IInv, TypeOK, States, Containers, Procs, Codes, Absent, Idle, NoneBefore, OwnContainer,
       KeptWhileUsed, Keeps, CodesClean, Clean

\* The inductive invariant: run_job (engine/runner.py) keeps all of its parts,
\* whatever fails.
THEOREM Invariance == Spec => []IInv
<1>1. IInv /\ [Next]_vars => IInv'
  BY StepType, StepNone, StepOwn, StepKept, StepCodes DEF IInv
<1>2. QED
  BY InitInv, <1>1, PTL DEF Spec

\* "Each job runs in a dedicated Docker container" (README.md:49): a call uses
\* the container that it has created, also when two runs start the same job
\* within a second, when requests fail and when the engine is killed.
THEOREM ContainersAreOwn == Spec => []OwnContainer
<1>1. IInv => OwnContainer
  BY DEF IInv
<1>2. QED
  BY <1>1, Invariance, PTL

\* No two calls that use a container use the same.
THEOREM ContainersAreApart ==
  Spec => [](\A c, d \in Calls :
               pc[c] \in Using /\ pc[d] \in Using /\ container[c] = container[d] => c = d)
<1>1. OwnContainer =>
        \A c, d \in Calls :
          pc[c] \in Using /\ pc[d] \in Using /\ container[c] = container[d] => c = d
  BY DEF OwnContainer, Here
<1>2. QED
  BY <1>1, ContainersAreOwn, PTL

\* A job succeeds only if all its steps were executed and none was reported to
\* have failed, and no step follows one that failed (run_job).
THEOREM SuccessIsSound == Spec => []SuccessSound
<1>1. IInv => SuccessSound
  BY DEF IInv, CodesClean, Clean, SuccessSound
<1>2. QED
  BY <1>1, Invariance, PTL

\* If every request to Docker is answered, a call that has ended has left no
\* container behind (the finally block of run_job).
THEOREM NothingLeaks == Spec => []NoLeak
<1>1. IInv => NoLeak
  BY DEF IInv, KeptWhileUsed, Keeps, NoLeak
<1>2. QED
  BY <1>1, Invariance, PTL
=============================================================================
