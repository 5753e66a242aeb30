-------------------------- MODULE PipelineRun_proofs --------------------------
(***************************************************************************)
(* The inductive invariant of PipelineRun and what follows from it, for    *)
(* every finite set of jobs, every needs graph and every pool size.        *)
(***************************************************************************)
EXTENDS PipelineRun, TLAPS

USE DEF work

(* What the recursion of mark_job_failed visits. *)

\* The visited set is itself closed: a dependent, not yet succeeded, of the
\* failed job or of a visited job is visited.
LEMMA SkipSetClosed ==
  ASSUME NEW st, NEW job, NEW d \in Jobs,
         st[d] # "succeeded",
         needs[d] \cap (SkipSet(st, job) \cup {job}) # {}
  PROVE  d \in SkipSet(st, job)
<1>1. ASSUME NEW S \in SUBSET Jobs, SkipClosed(st, job, S)
      PROVE  d \in S
  <2>1. SkipSet(st, job) \subseteq S
    BY <1>1 DEF SkipSet
  <2>2. needs[d] \cap (S \cup {job}) # {}
    BY <2>1
  <2>3. QED
    BY <1>1, <2>2 DEF SkipClosed
<1>2. QED
  BY <1>1 DEF SkipSet

\* Every visited job has not succeeded and needs the failed job or another
\* visited job: the visited set without it would be closed otherwise.
LEMMA SkipSetReason ==
  ASSUME NEW st, NEW job, NEW d \in SkipSet(st, job)
  PROVE  /\ st[d] # "succeeded"
         /\ needs[d] \cap (SkipSet(st, job) \cup {job}) # {}
<1> DEFINE S == SkipSet(st, job) \ {d}
<1>1. SUFFICES ASSUME ~ ( /\ st[d] # "succeeded"
                          /\ needs[d] \cap (SkipSet(st, job) \cup {job}) # {})
               PROVE  FALSE
  OBVIOUS
<1>2. S \in SUBSET Jobs
  BY DEF SkipSet
<1>3. ASSUME NEW x \in Jobs,
             st[x] # "succeeded" /\ needs[x] \cap (S \cup {job}) # {}
      PROVE  x \in S
  <2>1. needs[x] \cap (SkipSet(st, job) \cup {job}) # {}
    BY <1>3
  <2>2. x \in SkipSet(st, job)
    BY <1>3, <2>1, SkipSetClosed
  <2>3. x # d
    BY <1>1, <1>3, <2>1
  <2>4. QED
    BY <2>2, <2>3
<1>4. SkipClosed(st, job, S)
  BY <1>3 DEF SkipClosed
<1>5. d \in S
  BY <1>2, <1>4 DEF SkipSet
<1>6. QED
  BY <1>5

-----------------------------------------------------------------------------
(* Type correctness *)

\* mark_job_failed keeps the scheduler's statuses well typed.
LEMMA MarkJobFailedType ==
  ASSUME NEW st \in [Jobs -> {"queued", "succeeded", "failed", "skipped"}],
         NEW job \in Jobs
  PROVE  mark_job_failed(st, job)
           \in [Jobs -> {"queued", "succeeded", "failed", "skipped"}]
BY DEF mark_job_failed

\* A run that was just submitted has its types.
LEMMA InitType == Init => TypeOK
BY DEF Init, TypeOK, RunStatuses, Steps, AlertKinds

\* Every statement keeps the types.
LEMMA StepType == TypeOK /\ [Next]_vars => TypeOK'
<1> SUFFICES ASSUME TypeOK, [Next]_vars PROVE TypeOK'
  OBVIOUS
<1> USE DEF TypeOK, RunStatuses, Steps, AlertKinds, Results, Outcomes,
            Unfinished
<1>1. CASE Resolved \/ ResolutionRejected \/ ResolutionCrashed
  BY <1>1 DEF Resolved, ResolutionRejected, ResolutionCrashed
<1>2. CASE Scheduled \/ CycleRejected
  BY <1>2 DEF Scheduled, CycleRejected
<1>3. CASE TakeLevel \/ LevelTaken \/ PlanExhausted \/ SkipsDone
  BY <1>3 DEF TakeLevel, LevelTaken, PlanExhausted, SkipsDone, Level
<1>4. ASSUME NEW j \in Jobs,
             Submit(j) \/ SkipInLevel(j) \/ CutOff(j) \/ RecordSkip(j)
      PROVE  TypeOK'
  BY <1>4 DEF Submit, SkipInLevel, CutOff, RecordSkip
<1>5. ASSUME NEW j \in Jobs, CollectResult(j)
      PROVE  TypeOK'
  <2> DEFINE st == update_job_status(job_statuses, j, futures[j])
  <2>1. st \in [Jobs -> {"queued", "succeeded", "failed", "skipped"}]
    BY <1>5 DEF CollectResult, update_job_status
  <2>2. job_statuses' \in [Jobs -> {"queued", "succeeded", "failed", "skipped"}]
    BY <1>5, <2>1, MarkJobFailedType DEF CollectResult
  <2>3. jobs' \in [Jobs -> {"none", "succeeded", "failed", "skipped",
                            "integrity_failure"}]
    BY <1>5 DEF CollectResult
  <2>4. QED
    BY <1>5, <2>2, <2>3 DEF CollectResult
<1>6. ASSUME NEW j \in Jobs, CollectIntegrityError(j)
      PROVE  TypeOK'
  BY <1>6, MarkJobFailedType DEF CollectIntegrityError
<1>7. ASSUME NEW j \in Jobs, CollectException(j) \/ IntegrityLogFails(j)
      PROVE  TypeOK'
  BY <1>7 DEF CollectException, IntegrityLogFails
<1>8. CASE LevelCollected \/ Drained
  BY <1>8 DEF LevelCollected, Drained
<1>9. CASE Conclude \/ Report \/ Unregister
  BY <1>9 DEF Conclude, Report, Unregister, RunVerdict
<1>10. ASSUME NEW j \in Jobs, WorkerStart(j) \/ WorkerEnd(j)
       PROVE  TypeOK'
  <2>1. PICK o \in Outcomes \cup {"running"} : futures' = [futures EXCEPT ![j] = o]
    BY <1>10 DEF WorkerStart, WorkerEnd
  <2>2. UNCHANGED <<needs, pc, status, jobs, job_statuses, processed, level,
                    awaited, integrity_failed, alerts, checker>>
    BY <1>10 DEF WorkerStart, WorkerEnd
  <2>3. QED
    BY <2>1, <2>2
<1>11. CASE Done \/ UNCHANGED vars
  BY <1>11 DEF Done, vars
<1>12. QED
  BY <1>1, <1>2, <1>3, <1>4, <1>5, <1>6, <1>7, <1>8, <1>9, <1>10, <1>11
     DEF Next, Pipeline

\* Every variable has its type in every reachable state; in particular a run
\* only ever shows the statuses README.md documents.
THEOREM TypeCorrect == Spec => []TypeOK
<1>1. QED
  BY InitType, StepType, PTL DEF Spec

-----------------------------------------------------------------------------
(* What marking a collected job as failed does to the other jobs *)

\* A job that was submitted is never among the dependents a failure visits:
\* everything it needs has succeeded.
LEMMA SubmittedNotSkipped ==
  ASSUME TypeOK, StartsAfterNeeds, StatusesAgree, AwaitedFresh,
         NEW j \in awaited,
         NEW st \in {job_statuses, [job_statuses EXCEPT ![j] = "failed"]},
         NEW k \in Jobs, futures[k] # "none"
  PROVE  k \notin SkipSet(st, j)
<1>1. SUFFICES ASSUME k \in SkipSet(st, j) PROVE FALSE
  OBVIOUS
<1>2. PICK e \in needs[k] \cap (SkipSet(st, j) \cup {j}) : TRUE
  BY <1>1, SkipSetReason
<1>3. e \in Jobs
  BY <1>2 DEF TypeOK, NeedsGraphs
<1>4. jobs[e] = "succeeded" /\ job_statuses[e] = "succeeded"
  BY <1>2, <1>3 DEF StartsAfterNeeds, StatusesAgree
<1>5. e # j
  BY <1>4 DEF AwaitedFresh
<1>6. st[e] # "succeeded"
  BY <1>2, <1>5, SkipSetReason
<1>7. st[e] = job_statuses[e]
  BY <1>3, <1>5 DEF TypeOK
<1>8. QED
  BY <1>4, <1>6, <1>7

\* The failed job becomes failed; the others keep their status or become
\* skipped, the submitted ones and the succeeded ones keep it.
LEMMA MarkJobFailedEffect ==
  ASSUME TypeOK, StartsAfterNeeds, StatusesAgree, AwaitedFresh,
         NEW j \in awaited,
         NEW st \in {job_statuses, [job_statuses EXCEPT ![j] = "failed"]}
  PROVE  /\ mark_job_failed(st, j)[j] = "failed"
         /\ \A k \in Jobs \ {j} :
              /\ mark_job_failed(st, j)[k] \in {job_statuses[k], "skipped"}
              /\ futures[k] # "none" =>
                   mark_job_failed(st, j)[k] = job_statuses[k]
              /\ mark_job_failed(st, j)[k] = "succeeded"
                   <=> job_statuses[k] = "succeeded"
<1>1. j \in Jobs
  BY DEF TypeOK
<1>2. mark_job_failed(st, j)[j] = "failed"
  BY <1>1 DEF mark_job_failed
<1>3. ASSUME NEW k \in Jobs \ {j}
      PROVE  /\ mark_job_failed(st, j)[k] \in {job_statuses[k], "skipped"}
             /\ futures[k] # "none" =>
                  mark_job_failed(st, j)[k] = job_statuses[k]
             /\ mark_job_failed(st, j)[k] = "succeeded"
                  <=> job_statuses[k] = "succeeded"
  <2>1. st[k] = job_statuses[k]
    BY DEF TypeOK
  <2>2. mark_job_failed(st, j)[k]
          = IF k \in SkipSet(st, j) THEN "skipped" ELSE job_statuses[k]
    BY <2>1 DEF mark_job_failed
  <2>3. futures[k] # "none" => k \notin SkipSet(st, j)
    BY SubmittedNotSkipped
  <2>4. job_statuses[k] = "succeeded" => k \notin SkipSet(st, j)
    BY <2>1, SkipSetReason
  <2>5. QED
    BY <2>2, <2>3, <2>4
<1>4. QED
  BY <1>2, <1>3

\* Marking a job as failed leaves exactly the dependents of broken jobs
\* skipped.
LEMMA MarkJobFailedSkips ==
  ASSUME TypeOK, StartsAfterNeeds, StatusesAgree, AwaitedFresh, SkipsExact,
         NEW j \in awaited,
         NEW st \in {job_statuses, [job_statuses EXCEPT ![j] = "failed"]},
         NEW js, js = mark_job_failed(st, j)
  PROVE  \A d \in Jobs :
           /\ \A n \in needs[d] : js[n] \in Broken => js[d] = "skipped"
           /\ js[d] = "skipped" => \E n \in needs[d] : js[n] \in Broken
<1> DEFINE Hit == SkipSet(st, j) \cup {j}
<1>1. j \in Jobs /\ job_statuses[j] = "queued" /\ jobs[j] = "none"
      /\ futures[j] # "none"
  BY DEF TypeOK, AwaitedFresh
<1>2. j \notin SkipSet(st, j)
  BY <1>1, SubmittedNotSkipped
<1>3. \A k \in Jobs : js[k] = IF k = j THEN "failed"
                              ELSE IF k \in SkipSet(st, j) THEN "skipped"
                              ELSE job_statuses[k]
  BY DEF mark_job_failed, TypeOK
<1>4. ASSUME NEW d \in Jobs, NEW n \in needs[d], js[n] \in Broken
      PROVE  js[d] = "skipped"
  <2>1. n \in Jobs
    BY DEF TypeOK, NeedsGraphs
  <2>2. CASE n \in Hit
    <3>1. needs[d] \cap Hit # {}
      BY <2>2
    <3>2. st[n] # "succeeded"
      BY <1>1, <2>2, SkipSetReason DEF TypeOK
    <3>3. job_statuses[n] # "succeeded"
      BY <1>1, <2>1, <3>2 DEF TypeOK
    <3>4. futures[d] = "none"
      BY <2>1, <3>3 DEF StartsAfterNeeds, StatusesAgree
    <3>5. d # j /\ job_statuses[d] # "succeeded"
      BY <1>1, <3>4 DEF StatusesAgree
    <3>6. st[d] # "succeeded"
      BY <3>5 DEF TypeOK
    <3>7. d \in SkipSet(st, j)
      BY <3>1, <3>6, SkipSetClosed
    <3>8. QED
      BY <1>3, <3>5, <3>7
  <2>3. CASE n \notin Hit
    <3>1. job_statuses[n] \in Broken
      BY <1>3, <1>4, <2>1, <2>3
    <3>2. job_statuses[d] = "skipped"
      BY <2>1, <3>1 DEF SkipsExact
    <3>3. QED
      BY <1>1, <1>3, <3>2
  <2>4. QED
    BY <2>2, <2>3
<1>5. ASSUME NEW d \in Jobs, js[d] = "skipped"
      PROVE  \E n \in needs[d] : js[n] \in Broken
  <2>1. needs[d] \subseteq Jobs
    BY DEF TypeOK, NeedsGraphs
  <2>2. CASE d \in SkipSet(st, j)
    <3>1. PICK e \in needs[d] : e \in Hit
      BY <2>2, SkipSetReason
    <3>2. js[e] \in Broken
      BY <1>3, <2>1, <3>1 DEF Broken
    <3>3. QED
      BY <3>2
  <2>3. CASE d \notin SkipSet(st, j)
    <3>1. job_statuses[d] = "skipped"
      BY <1>3, <1>5, <2>3
    <3>2. PICK e \in needs[d] : job_statuses[e] \in Broken
      BY <3>1 DEF SkipsExact
    <3>3. js[e] \in Broken
      BY <1>3, <2>1, <3>2 DEF Broken
    <3>4. QED
      BY <3>3
  <2>4. QED
    BY <2>2, <2>3
<1>6. QED
  BY <1>4, <1>5

-----------------------------------------------------------------------------
(* What a job needs, directly or through others *)

\* A job's own needs are upstream of it, and so is what those need.
LEMMA UpstreamClosed ==
  ASSUME TypeOK, NEW d \in Jobs
  PROVE  /\ needs[d] \subseteq Upstream(d)
         /\ \A k \in Upstream(d) : needs[k] \subseteq Upstream(d)
<1>1. \A k \in Jobs : needs[k] \subseteq Jobs
  BY DEF TypeOK, NeedsGraphs
<1>2. needs[d] \subseteq Upstream(d)
  BY <1>1 DEF Upstream
<1>3. ASSUME NEW k \in Upstream(d), NEW n \in needs[k]
      PROVE  n \in Upstream(d)
  <2>1. k \in Jobs /\ n \in Jobs
    BY <1>1 DEF Upstream
  <2>2. ASSUME NEW S \in SUBSET Jobs, needs[d] \subseteq S,
               \A e \in S : needs[e] \subseteq S
        PROVE  n \in S
    BY <2>2 DEF Upstream
  <2>3. QED
    BY <2>1, <2>2 DEF Upstream
<1>4. QED
  BY <1>2, <1>3

\* The scheduler skips every job with a broken one upstream: the jobs that are
\* not broken would be closed under needs otherwise.
LEMMA BrokenUpstreamSkips ==
  ASSUME TypeOK, SkipsExact, NEW d \in Jobs, NEW n \in Upstream(d),
         job_statuses[n] \in Broken
  PROVE  job_statuses[d] = "skipped"
<1> DEFINE S == {k \in Jobs : job_statuses[k] \notin Broken}
<1>1. SUFFICES ASSUME job_statuses[d] # "skipped" PROVE FALSE
  OBVIOUS
<1>2. \A k \in Jobs : needs[k] \subseteq Jobs
  BY DEF TypeOK, NeedsGraphs
<1>3. needs[d] \subseteq S
  BY <1>1, <1>2 DEF SkipsExact
<1>4. \A k \in S : needs[k] \subseteq S
  BY <1>2 DEF SkipsExact, Broken
<1>5. n \in S
  BY <1>3, <1>4 DEF Upstream
<1>6. QED
  BY <1>5

\* Behind every job the scheduler skips there is one that failed: skipped jobs
\* that only need skipped ones would be a cycle.
LEMMA SkippedHasReason ==
  ASSUME TypeOK, SkipsExact, Acyclic, NEW d \in Jobs,
         job_statuses[d] = "skipped"
  PROVE  \E n \in Upstream(d) : job_statuses[n] = "failed"
<1> DEFINE S == {k \in Upstream(d) \cup {d} : job_statuses[k] = "skipped"}
<1>1. SUFFICES ASSUME \A n \in Upstream(d) : job_statuses[n] # "failed"
               PROVE  FALSE
  OBVIOUS
<1>2. Upstream(d) \subseteq Jobs
  BY DEF Upstream
<1>3. ASSUME NEW k \in S PROVE needs[k] \cap S # {}
  <2>1. PICK n \in needs[k] : job_statuses[n] \in Broken
    BY <1>2 DEF SkipsExact
  <2>2. n \in Upstream(d)
    BY <2>1, UpstreamClosed
  <2>3. QED
    BY <1>1, <2>1, <2>2 DEF Broken
<1>4. S \in SUBSET Jobs /\ d \in S
  BY <1>2
<1>5. QED
  BY <1>3, <1>4 DEF Acyclic

-----------------------------------------------------------------------------
(* The inductive invariant *)

\* A run that was just submitted satisfies the invariant.
LEMMA InitInv == Init => IInv
<1> SUFFICES ASSUME Init PROVE IInv
  OBVIOUS
<1>1. TypeOK
  BY InitType
<1>2. LevelsClosed
  BY DEF Init, LevelsClosed, InLevels
<1>3. AwaitedFresh
  BY DEF Init, AwaitedFresh, Unfinished, InLevels
<1>4. StartsAfterNeeds
  BY DEF Init, StartsAfterNeeds
<1>5. StatusesAgree
  BY DEF Init, StatusesAgree, InLevels
<1>6. SkipsExact
  BY <1>1 DEF Init, SkipsExact, Broken, TypeOK, NeedsGraphs
<1>7. StatusByStep
  BY DEF Init, StatusByStep, Terminal, RunStatuses
<1>8. LevelReady /\ SkipsRecorded
  BY DEF Init, LevelReady, SkipsRecorded, Upstream
<1>9. QED
  BY <1>1, <1>2, <1>3, <1>4, <1>5, <1>6, <1>7, <1>8 DEF IInv

\* Entries are only added, and none of them tells of a failure: whatever depends
\* on a failed job keeps its entry.
LEMMA RecordedKept ==
  ASSUME SkipsRecorded, pc # "record", needs' = needs,
         \A k \in Jobs : /\ jobs[k] # "none" => jobs'[k] # "none"
                         /\ jobs'[k] = "failed" => jobs[k] = "failed"
  PROVE  SkipsRecorded'
BY DEF SkipsRecorded, Upstream

\* The loop takes a level: the levels before it have their entries.
LEMMA TakeLevelInv ==
  ASSUME IInv, TakeLevel PROVE IInv'
<1> USE DEF IInv
<1>1. TypeOK'
  BY StepType DEF Next, Pipeline
<1>2. /\ Level \subseteq Jobs \ processed
      /\ \A j \in Level : needs[j] \subseteq processed
      /\ \A j \in Level : futures[j] = "none"
  BY DEF Level, LevelsClosed
<1>3. pc' = (IF integrity_failed THEN "cut_off" ELSE "submit")
      /\ pc = "level" /\ level' = Level /\ processed' = processed \cup Level
      /\ UNCHANGED <<needs, status, jobs, job_statuses, futures, awaited,
                     integrity_failed, alerts, checker>>
  BY DEF TakeLevel
<1>4. LevelsClosed'
  BY <1>2, <1>3 DEF LevelsClosed, Acyclic, InLevels, TypeOK
<1>5. \A j \in processed : jobs[j] # "none"
  BY <1>3 DEF AwaitedFresh, LevelReady, InLevels, Collecting
<1>6. LevelReady'
  <2>1. \A j \in Level : \A n \in needs[j] : jobs[n] # "none"
    BY <1>2, <1>5
  <2>2. QED
    BY <1>2, <1>3, <2>1 DEF LevelReady
<1>7. AwaitedFresh'
  BY <1>3, <1>5 DEF AwaitedFresh, InLevels, Collecting
<1>8. StartsAfterNeeds' /\ SkipsExact'
  BY <1>3 DEF StartsAfterNeeds, SkipsExact
<1>9. StatusesAgree'
  BY <1>3 DEF StatusesAgree
<1>10. SkipsRecorded'
  BY <1>3, RecordedKept
<1>11. StatusByStep'
  BY <1>3 DEF StatusByStep, Terminal, RunStatuses
<1>12. QED
  BY <1>1, <1>4, <1>6, <1>7, <1>8, <1>9, <1>10, <1>11

\* A job is submitted: it is not skipped, so it has no broken need, and every
\* need has an entry, so all of them have succeeded.
LEMMA SubmitInv ==
  ASSUME IInv, NEW j \in Jobs, Submit(j) PROVE IInv'
<1> USE DEF IInv
<1>1. TypeOK'
  BY StepType DEF Next, Pipeline
<1>2. /\ pc = "submit" /\ j \in level /\ job_statuses[j] # "skipped"
      /\ level' = level \ {j} /\ awaited' = awaited \cup {j}
      /\ \A k \in Jobs : futures'[k] = IF k = j THEN "pending" ELSE futures[k]
      /\ UNCHANGED <<needs, pc, status, jobs, job_statuses, processed,
                     integrity_failed, alerts, checker>>
  BY DEF Submit, TypeOK
<1>3. /\ j \in processed /\ futures[j] = "none" /\ ~ integrity_failed
      /\ \A k \in Jobs : jobs[k] # "integrity_failure"
  BY <1>2 DEF LevelReady, StatusesAgree
<1>4. job_statuses[j] = "queued" /\ jobs[j] = "none"
  BY <1>2, <1>3 DEF StatusesAgree, TypeOK
<1>5. ASSUME NEW n \in needs[j] PROVE jobs[n] = "succeeded"
  <2>1. n \in Jobs /\ jobs[n] # "none"
    BY <1>2 DEF LevelReady, TypeOK, NeedsGraphs
  <2>2. job_statuses[n] \notin Broken
    BY <1>2 DEF SkipsExact
  <2>3. jobs[n] \notin {"skipped", "failed", "integrity_failure"}
    BY <1>3, <2>1, <2>2 DEF StatusesAgree, Broken
  <2>4. QED
    BY <2>1, <2>3 DEF TypeOK
<1>6. LevelsClosed'
  BY <1>2, <1>3 DEF LevelsClosed, Acyclic
<1>7. LevelReady'
  BY <1>2, <1>4 DEF LevelReady, TypeOK
<1>8. AwaitedFresh'
  <2>1. \A k \in awaited' : /\ futures'[k] # "none"
                            /\ jobs'[k] = "none"
                            /\ job_statuses'[k] = "queued"
    BY <1>2, <1>4 DEF AwaitedFresh, TypeOK
  <2>2. \A k \in Jobs : futures'[k] \in Unfinished => k \in awaited'
    BY <1>2 DEF AwaitedFresh, Collecting
  <2>3. \A k \in processed' : \/ jobs'[k] # "none" \/ k \in level'
                              \/ k \in awaited'
    BY <1>2 DEF AwaitedFresh, InLevels, Collecting
  <2>4. QED
    BY <1>2, <2>1, <2>2, <2>3 DEF AwaitedFresh, Collecting
<1>9. StartsAfterNeeds'
  BY <1>2, <1>5 DEF StartsAfterNeeds, TypeOK, NeedsGraphs
<1>10. StatusesAgree'
  BY <1>2 DEF StatusesAgree
<1>11. SkipsExact' /\ SkipsRecorded'
  BY <1>2, RecordedKept DEF SkipsExact
<1>12. StatusByStep'
  BY <1>2 DEF StatusByStep, RunVerdict
<1>13. QED
  BY <1>1, <1>6, <1>7, <1>8, <1>9, <1>10, <1>11, <1>12

\* A job gets the entry of a skipped one: in its level, after an integrity
\* failure, or after a result.
LEMMA SkipEntryInv ==
  ASSUME IInv, NEW d \in Jobs, SkipInLevel(d) \/ CutOff(d) \/ RecordSkip(d)
  PROVE  IInv'
<1> USE DEF IInv
<1>1. TypeOK'
  BY StepType DEF Next, Pipeline
<1>2. /\ pc \in {"submit", "cut_off", "record"}
      /\ UNCHANGED <<needs, pc, status, job_statuses, processed, futures,
                     awaited, integrity_failed, alerts, checker>>
      /\ level' \subseteq level /\ \A k \in level : k # d => k \in level'
  BY DEF SkipInLevel, CutOff, RecordSkip
<1>3. /\ job_statuses[d] \in {"queued", "skipped"}
      /\ \/ job_statuses[d] = "skipped"
         \/ \E k \in Jobs : jobs[k] = "integrity_failure"
  BY DEF SkipInLevel, CutOff, RecordSkip, Unrecorded, LevelReady,
         StatusesAgree, TypeOK
<1>4. jobs[d] \in {"none", "skipped"}
  BY <1>3 DEF StatusesAgree, TypeOK
<1>5. d \notin awaited
  BY DEF SkipInLevel, CutOff, RecordSkip, Unrecorded, LevelReady, AwaitedFresh
<1>6. /\ jobs'[d] = "skipped"
      /\ \A k \in Jobs \ {d} : jobs'[k] = jobs[k]
  BY <1>4 DEF SkipInLevel, CutOff, RecordSkip, TypeOK
<1>7. pc \in InLevels
  BY <1>2 DEF InLevels
<1>8. LevelsClosed'
  BY <1>2, <1>7 DEF LevelsClosed, Acyclic
<1>9. LevelReady'
  BY <1>2, <1>6 DEF LevelReady, TypeOK, NeedsGraphs
<1>10. AwaitedFresh'
  <2>1. \A k \in awaited' : /\ futures'[k] # "none"
                            /\ jobs'[k] = "none"
                            /\ job_statuses'[k] = "queued"
    BY <1>2, <1>5, <1>6 DEF AwaitedFresh, TypeOK
  <2>2. \A k \in processed' : \/ jobs'[k] # "none" \/ k \in level'
                              \/ pc' \in Collecting /\ k \in awaited'
    BY <1>2, <1>6 DEF AwaitedFresh, InLevels, TypeOK
  <2>3. QED
    BY <1>2, <2>1, <2>2 DEF AwaitedFresh
<1>11. StartsAfterNeeds'
  BY <1>2, <1>4, <1>6 DEF StartsAfterNeeds, TypeOK, NeedsGraphs
<1>12. StatusesAgree'
  <2>1. (\E k \in Jobs : jobs'[k] = "integrity_failure")
          <=> \E k \in Jobs : jobs[k] = "integrity_failure"
    BY <1>4, <1>6
  <2>2. ASSUME NEW k \in Jobs
        PROVE  /\ jobs'[k] = "succeeded" <=> job_statuses'[k] = "succeeded"
               /\ jobs'[k] \in {"failed", "integrity_failure"}
                    <=> job_statuses'[k] = "failed"
               /\ jobs'[k] = "skipped" =>
                    \/ job_statuses'[k] = "skipped"
                    \/ /\ job_statuses'[k] = "queued"
                       /\ \E e \in Jobs : jobs'[e] = "integrity_failure"
               /\ job_statuses'[k] \in {"succeeded", "failed"} =>
                    futures'[k] # "none"
    <3>1. CASE k = d
      BY <1>2, <1>3, <1>6, <2>1, <3>1
    <3>2. CASE k # d
      <4>1. jobs'[k] = jobs[k]
        BY <1>6, <3>2
      <4>2. QED
        BY <1>2, <2>1, <4>1 DEF StatusesAgree
    <3>3. QED
      BY <3>1, <3>2
  <2>3. QED
    BY <1>2, <2>1, <2>2 DEF StatusesAgree
<1>13. SkipsExact'
  BY <1>2 DEF SkipsExact
<1>14. SkipsRecorded'
  <2>1. CASE pc = "record"
    BY <1>2, <2>1 DEF SkipsRecorded
  <2>2. CASE pc # "record"
    BY <1>2, <1>6, <2>2, RecordedKept
  <2>3. QED
    BY <2>1, <2>2
<1>15. StatusByStep'
  BY <1>2 DEF StatusByStep, Terminal, RunStatuses
<1>16. QED
  BY <1>1, <1>8, <1>9, <1>10, <1>11, <1>12, <1>13, <1>14, <1>15

\* The loops over a level and over the skipped jobs end.
LEMMA LoopsEndInv ==
  ASSUME IInv, LevelTaken \/ SkipsDone PROVE IInv'
<1> USE DEF IInv
<1>1. TypeOK'
  BY StepType DEF Next, Pipeline
<1>2. /\ UNCHANGED <<needs, jobs, job_statuses, processed, level, futures,
                     awaited, integrity_failed, status, alerts, checker>>
      /\ level = {}
      /\ \/ pc \in {"submit", "record"} /\ pc' = "collect"
         \/ pc = "cut_off" /\ pc' = "level"
  BY DEF LevelTaken, SkipsDone, LevelReady
<1>3. LevelsClosed'
  BY <1>2 DEF LevelsClosed, Acyclic, InLevels
<1>4. LevelReady'
  BY <1>2 DEF LevelReady
<1>5. AwaitedFresh'
  BY <1>2 DEF AwaitedFresh, InLevels, Collecting
<1>6. StartsAfterNeeds' /\ SkipsExact'
  BY <1>2 DEF StartsAfterNeeds, SkipsExact
<1>7. StatusesAgree'
  BY <1>2 DEF StatusesAgree
<1>8. SkipsRecorded'
  <2>1. CASE LevelTaken
    BY <1>2, <2>1, RecordedKept DEF LevelTaken
  <2>2. CASE SkipsDone
    <3>1. ASSUME NEW d \in Jobs, NEW n \in Upstream(d), jobs[n] = "failed"
          PROVE  jobs[d] # "none"
      <4>1. n \in Jobs
        BY DEF Upstream
      <4>2. job_statuses[n] \in Broken
        BY <3>1, <4>1 DEF StatusesAgree, Broken
      <4>3. job_statuses[d] = "skipped"
        BY <4>2, BrokenUpstreamSkips
      <4>4. QED
        BY <2>2, <4>3 DEF SkipsDone, Unrecorded
    <3>2. QED
      BY <1>2, <3>1 DEF SkipsRecorded, Upstream
  <2>3. QED
    BY <2>1, <2>2
<1>9. StatusByStep'
  BY <1>2 DEF StatusByStep, Terminal, RunStatuses
<1>10. QED
  BY <1>1, <1>3, <1>4, <1>5, <1>6, <1>7, <1>8, <1>9

\* The levels of an acyclic pipeline end only when every job is in one.
LEMMA PlanComplete ==
  ASSUME TypeOK, Acyclic, Level = {} PROVE processed = Jobs
<1> DEFINE S == Jobs \ processed
<1>1. \A j \in S : needs[j] \cap S # {}
  BY DEF Level, TypeOK, NeedsGraphs
<1>2. S = {}
  BY <1>1 DEF Acyclic
<1>3. QED
  BY <1>2 DEF TypeOK

\* The end of the level loop.
LEMMA PlanExhaustedInv ==
  ASSUME IInv, PlanExhausted PROVE IInv'
<1> USE DEF IInv
<1>1. TypeOK'
  BY StepType DEF Next, Pipeline
<1>2. processed = Jobs
  BY PlanComplete DEF PlanExhausted, LevelsClosed, InLevels
<1>3. LevelsClosed'
  BY DEF PlanExhausted, LevelsClosed, Acyclic, InLevels
<1>4. AwaitedFresh' /\ LevelReady'
  BY DEF PlanExhausted, AwaitedFresh, LevelReady, InLevels, Collecting
<1>5. StartsAfterNeeds' /\ SkipsRecorded'
  BY RecordedKept DEF PlanExhausted, StartsAfterNeeds
<1>6. StatusesAgree'
  BY DEF PlanExhausted, StatusesAgree, InLevels
<1>7. SkipsExact'
  BY DEF PlanExhausted, SkipsExact
<1>8. StatusByStep'
  BY <1>2 DEF PlanExhausted, StatusByStep, Terminal, RunStatuses
<1>9. QED
  BY <1>1, <1>3, <1>4, <1>5, <1>6, <1>7, <1>8

\* A worker's result is recorded.  The entries of the other jobs stay as they
\* are, and so do the statuses of the submitted ones.
LEMMA CollectResultInv ==
  ASSUME IInv, NEW j \in Jobs, CollectResult(j) PROVE IInv'
<1> USE DEF IInv
<1>1. TypeOK'
  BY StepType DEF Next, Pipeline
<1>2. /\ j \in awaited /\ job_statuses[j] = "queued" /\ jobs[j] = "none"
      /\ futures[j] # "none" /\ futures[j] \in Results
  BY DEF CollectResult, AwaitedFresh
<1>3. /\ job_statuses'[j] = futures[j]
      /\ \A k \in Jobs \ {j} :
           /\ job_statuses'[k] \in {job_statuses[k], "skipped"}
           /\ futures[k] # "none" => job_statuses'[k] = job_statuses[k]
           /\ job_statuses'[k] = "succeeded" <=> job_statuses[k] = "succeeded"
  <2>1. CASE futures[j] = "failed"
    <3>1. job_statuses' = mark_job_failed([job_statuses EXCEPT ![j] = "failed"], j)
      BY <2>1 DEF CollectResult, update_job_status
    <3>2. QED
      BY <1>2, <2>1, <3>1, MarkJobFailedEffect
  <2>2. CASE futures[j] = "succeeded"
    BY <2>2 DEF CollectResult, update_job_status, TypeOK
  <2>3. QED
    BY <1>2, <2>1, <2>2 DEF Results
<1>4. \A k \in Jobs : jobs'[k] = IF k = j THEN futures[j] ELSE jobs[k]
  BY DEF CollectResult, TypeOK
<1>5. LevelsClosed' /\ LevelReady'
  BY DEF CollectResult, LevelsClosed, LevelReady, Acyclic, InLevels
<1>6. AwaitedFresh'
  <2>1. ASSUME NEW k \in awaited'
        PROVE  /\ futures'[k] # "none"
               /\ jobs'[k] = "none"
               /\ job_statuses'[k] = "queued"
    <3>1. k \in Jobs \ {j} /\ k \in awaited
      BY DEF CollectResult, TypeOK
    <3>2. futures[k] # "none" /\ job_statuses[k] = "queued" /\ jobs[k] = "none"
      BY <3>1 DEF AwaitedFresh
    <3>3. job_statuses'[k] = "queued"
      BY <1>3, <3>1, <3>2
    <3>4. QED
      BY <1>4, <3>1, <3>2, <3>3 DEF CollectResult
  <2>2. \A k \in Jobs : futures'[k] \in Unfinished => k \in awaited'
    BY <1>2 DEF CollectResult, AwaitedFresh, Unfinished, Results, Collecting
  <2>3. ASSUME NEW k \in processed'
        PROVE  jobs'[k] # "none" \/ k \in awaited'
    <3>1. k \in Jobs /\ k \in processed
      BY DEF CollectResult, TypeOK
    <3>2. jobs[k] # "none" \/ k \in awaited
      BY <3>1 DEF CollectResult, AwaitedFresh, LevelReady, InLevels, Collecting
    <3>3. QED
      BY <1>2, <1>4, <3>1, <3>2 DEF CollectResult
  <2>4. QED
    BY <2>1, <2>2, <2>3 DEF CollectResult, AwaitedFresh, Collecting
<1>7. StartsAfterNeeds'
  <2> SUFFICES ASSUME NEW d \in Jobs, futures[d] # "none", NEW n \in needs[d]
               PROVE  jobs'[n] = "succeeded"
    BY DEF StartsAfterNeeds, CollectResult
  <2>1. n \in Jobs /\ jobs[n] = "succeeded"
    BY DEF TypeOK, NeedsGraphs, StartsAfterNeeds
  <2>2. QED
    BY <1>2, <1>4, <2>1
<1>8. StatusesAgree'
  <2>1. ASSUME NEW k \in Jobs
        PROVE  /\ jobs'[k] = "succeeded" <=> job_statuses'[k] = "succeeded"
               /\ jobs'[k] \in {"failed", "integrity_failure"}
                    <=> job_statuses'[k] = "failed"
               /\ jobs'[k] = "skipped" =>
                    \/ job_statuses'[k] = "skipped"
                    \/ /\ job_statuses'[k] = "queued"
                       /\ \E e \in Jobs : jobs'[e] = "integrity_failure"
               /\ job_statuses'[k] \in {"succeeded", "failed"} =>
                    futures'[k] # "none"
    <3>1. CASE k = j
      BY <1>2, <1>3, <1>4, <3>1 DEF CollectResult, Results
    <3>2. CASE k # j
      <4>1. /\ job_statuses'[k] \in {job_statuses[k], "skipped"}
            /\ futures[k] # "none" => job_statuses'[k] = job_statuses[k]
            /\ job_statuses'[k] = "succeeded" <=> job_statuses[k] = "succeeded"
        BY <1>3, <3>2
      <4>2. jobs'[k] = jobs[k]
        BY <1>4, <3>2
      <4>3. (\E e \in Jobs : jobs[e] = "integrity_failure")
              => \E e \in Jobs : jobs'[e] = "integrity_failure"
        BY <1>2, <1>4
      <4>4. QED
        BY <4>1, <4>2, <4>3 DEF CollectResult, StatusesAgree
    <3>3. QED
      BY <3>1, <3>2
  <2>2. integrity_failed' <=> \E k \in Jobs : jobs'[k] = "integrity_failure"
    BY <1>2, <1>4 DEF CollectResult, StatusesAgree, InLevels, Results
  <2>3. QED
    BY <2>1, <2>2 DEF StatusesAgree
<1>9. SkipsExact'
  <2>1. CASE futures[j] = "failed"
    <3>1. job_statuses' = mark_job_failed([job_statuses EXCEPT ![j] = "failed"], j)
      BY <2>1 DEF CollectResult, update_job_status
    <3>2. \A d \in Jobs :
            /\ \A n \in needs[d] :
                 job_statuses'[n] \in Broken => job_statuses'[d] = "skipped"
            /\ job_statuses'[d] = "skipped" =>
                 \E n \in needs[d] : job_statuses'[n] \in Broken
      BY <1>2, <3>1, MarkJobFailedSkips
    <3>3. QED
      BY <3>2 DEF CollectResult, SkipsExact
  <2>2. CASE futures[j] = "succeeded"
    <3>1. \A k \in Jobs : job_statuses'[k] = IF k = j THEN "succeeded"
                                             ELSE job_statuses[k]
      BY <2>2 DEF CollectResult, update_job_status, TypeOK
    <3>2. \A d \in Jobs : needs[d] \subseteq Jobs
      BY DEF TypeOK, NeedsGraphs
    <3>3. \A k \in Jobs : job_statuses'[k] \in Broken <=> job_statuses[k] \in Broken
      BY <1>2, <3>1 DEF Broken
    <3>4. \A k \in Jobs : job_statuses'[k] = "skipped" <=> job_statuses[k] = "skipped"
      BY <1>2, <3>1
    <3>5. QED
      BY <3>2, <3>3, <3>4 DEF CollectResult, SkipsExact
  <2>3. QED
    BY <1>2, <2>1, <2>2 DEF Results
<1>10. StatusByStep'
  BY DEF CollectResult, StatusByStep, Terminal, RunStatuses
<1>11. SkipsRecorded'
  BY DEF CollectResult, SkipsRecorded
<1>12. QED
  BY <1>1, <1>5, <1>6, <1>7, <1>8, <1>9, <1>10, <1>11

\* The handler of an IntegrityError, its log write failing or not.
LEMMA CollectIntegrityInv ==
  ASSUME IInv, NEW j \in Jobs, CollectIntegrityError(j) PROVE IInv'
<1> USE DEF IInv
<1>1. TypeOK'
  BY StepType DEF Next, Pipeline
<1>2. /\ j \in awaited /\ job_statuses[j] = "queued" /\ jobs[j] = "none"
      /\ futures[j] = "IntegrityError"
  BY DEF CollectIntegrityError, AwaitedFresh
<1>3. job_statuses' = mark_job_failed(job_statuses, j)
  BY DEF CollectIntegrityError
<1>4. /\ job_statuses'[j] = "failed"
      /\ \A k \in Jobs \ {j} :
           /\ job_statuses'[k] \in {job_statuses[k], "skipped"}
           /\ futures[k] # "none" => job_statuses'[k] = job_statuses[k]
           /\ job_statuses'[k] = "succeeded" <=> job_statuses[k] = "succeeded"
  BY <1>2, <1>3, MarkJobFailedEffect
<1>5. \A k \in Jobs : jobs'[k] = IF k = j THEN "integrity_failure" ELSE jobs[k]
  BY DEF CollectIntegrityError, TypeOK
<1>6. LevelsClosed' /\ LevelReady'
  BY DEF CollectIntegrityError, LevelsClosed, LevelReady, Acyclic, InLevels
<1>7. AwaitedFresh'
  <2>1. ASSUME NEW k \in awaited'
        PROVE  /\ futures'[k] # "none"
               /\ jobs'[k] = "none"
               /\ job_statuses'[k] = "queued"
    <3>1. k \in Jobs \ {j} /\ k \in awaited
      BY DEF CollectIntegrityError, TypeOK
    <3>2. futures[k] # "none" /\ job_statuses[k] = "queued" /\ jobs[k] = "none"
      BY <3>1 DEF AwaitedFresh
    <3>3. QED
      BY <1>4, <1>5, <3>1, <3>2 DEF CollectIntegrityError
  <2>2. \A k \in Jobs : futures'[k] \in Unfinished => k \in awaited'
    BY <1>2 DEF CollectIntegrityError, AwaitedFresh, Unfinished, Collecting
  <2>3. ASSUME NEW k \in processed'
        PROVE  jobs'[k] # "none" \/ k \in awaited'
    <3>1. k \in Jobs /\ k \in processed
      BY DEF CollectIntegrityError, TypeOK
    <3>2. jobs[k] # "none" \/ k \in awaited
      BY <3>1 DEF CollectIntegrityError, AwaitedFresh, LevelReady, InLevels, Collecting
    <3>3. QED
      BY <1>5, <3>1, <3>2 DEF CollectIntegrityError
  <2>4. QED
    BY <2>1, <2>2, <2>3 DEF CollectIntegrityError, AwaitedFresh, Collecting
<1>8. StartsAfterNeeds'
  <2> SUFFICES ASSUME NEW d \in Jobs, futures[d] # "none", NEW n \in needs[d]
               PROVE  jobs'[n] = "succeeded"
    BY DEF StartsAfterNeeds, CollectIntegrityError
  <2>1. n \in Jobs /\ jobs[n] = "succeeded"
    BY DEF TypeOK, NeedsGraphs, StartsAfterNeeds
  <2>2. QED
    BY <1>2, <1>5, <2>1
<1>9. StatusesAgree'
  <2>1. ASSUME NEW k \in Jobs
        PROVE  /\ jobs'[k] = "succeeded" <=> job_statuses'[k] = "succeeded"
               /\ jobs'[k] \in {"failed", "integrity_failure"}
                    <=> job_statuses'[k] = "failed"
               /\ jobs'[k] = "skipped" =>
                    \/ job_statuses'[k] = "skipped"
                    \/ /\ job_statuses'[k] = "queued"
                       /\ \E e \in Jobs : jobs'[e] = "integrity_failure"
               /\ job_statuses'[k] \in {"succeeded", "failed"} =>
                    futures'[k] # "none"
    <3>1. CASE k = j
      BY <1>2, <1>4, <1>5, <3>1 DEF CollectIntegrityError
    <3>2. CASE k # j
      <4>1. /\ job_statuses'[k] \in {job_statuses[k], "skipped"}
            /\ futures[k] # "none" => job_statuses'[k] = job_statuses[k]
            /\ job_statuses'[k] = "succeeded" <=> job_statuses[k] = "succeeded"
        BY <1>4, <3>2
      <4>2. jobs'[k] = jobs[k]
        BY <1>5, <3>2
      <4>3. \E e \in Jobs : jobs'[e] = "integrity_failure"
        BY <1>5
      <4>4. QED
        BY <4>1, <4>2, <4>3 DEF CollectIntegrityError, StatusesAgree
    <3>3. QED
      BY <3>1, <3>2
  <2>2. integrity_failed' /\ \E k \in Jobs : jobs'[k] = "integrity_failure"
    BY <1>5 DEF CollectIntegrityError
  <2>3. QED
    BY <2>1, <2>2 DEF StatusesAgree
<1>10. SkipsExact'
  <2>1. \A d \in Jobs :
          /\ \A n \in needs[d] :
               job_statuses'[n] \in Broken => job_statuses'[d] = "skipped"
          /\ job_statuses'[d] = "skipped" =>
               \E n \in needs[d] : job_statuses'[n] \in Broken
    BY <1>2, <1>3, MarkJobFailedSkips
  <2>2. QED
    BY <2>1 DEF CollectIntegrityError, SkipsExact
<1>11. StatusByStep'
  BY DEF CollectIntegrityError, StatusByStep, Terminal, RunStatuses
<1>12. SkipsRecorded'
  BY <1>2, <1>5, RecordedKept DEF CollectIntegrityError
<1>13. QED
  BY <1>1, <1>6, <1>7, <1>8, <1>9, <1>10, <1>11, <1>12

\* The steps of the pipeline thread before the first level, and the ones
\* that only leave the loop over the results.
LEMMA OtherPipelineInv ==
  ASSUME IInv,
         \/ Resolved \/ ResolutionRejected \/ ResolutionCrashed
         \/ Scheduled \/ CycleRejected \/ LevelCollected \/ Drained
         \/ \E j \in Jobs : CollectException(j) \/ IntegrityLogFails(j)
  PROVE  IInv'
<1> USE DEF IInv
<1>1. TypeOK'
  BY StepType DEF Next, Pipeline
<1>2. /\ UNCHANGED <<needs, jobs, job_statuses, processed, level, futures>>
      /\ awaited' \subseteq awaited
      /\ pc \notin {"submit", "cut_off", "record"}
  BY DEF Resolved, ResolutionRejected, ResolutionCrashed, Scheduled,
         CycleRejected, LevelCollected, Drained, CollectException,
         IntegrityLogFails
<1>3. LevelsClosed'
  BY <1>2 DEF LevelsClosed, Acyclic, InLevels, Resolved, ResolutionRejected,
         ResolutionCrashed, Scheduled, CycleRejected, LevelCollected, Drained,
         CollectException, IntegrityLogFails
<1>4. AwaitedFresh' /\ LevelReady'
  BY <1>2 DEF AwaitedFresh, LevelReady, LevelsClosed, InLevels, Collecting, Resolved,
         ResolutionRejected, ResolutionCrashed, Scheduled, CycleRejected,
         LevelCollected, Drained, CollectException, IntegrityLogFails
<1>5. StartsAfterNeeds'
  BY <1>2 DEF StartsAfterNeeds
<1>6. StatusesAgree'
  <2>1. integrity_failed => integrity_failed'
    BY DEF Resolved, ResolutionRejected, ResolutionCrashed, Scheduled,
           CycleRejected, LevelCollected, Drained, CollectException,
           IntegrityLogFails
  <2>2. pc' \notin {"drain", "unregister", "done"} =>
          (integrity_failed' <=> \E j \in Jobs : jobs'[j] = "integrity_failure")
    BY <1>2 DEF StatusesAgree, Resolved, ResolutionRejected, ResolutionCrashed,
           Scheduled, CycleRejected, LevelCollected, Drained, CollectException,
           IntegrityLogFails
  <2>3. QED
    BY <1>2, <2>1, <2>2 DEF StatusesAgree
<1>7. SkipsExact'
  BY <1>2 DEF SkipsExact
<1>8. StatusByStep'
  BY <1>2 DEF StatusByStep, Terminal, RunStatuses, RunVerdict, Resolved,
         ResolutionRejected, ResolutionCrashed, Scheduled, CycleRejected,
         LevelCollected, Drained, CollectException, IntegrityLogFails
<1>9. SkipsRecorded'
  BY <1>2, RecordedKept
<1>10. QED
  BY <1>1, <1>3, <1>4, <1>5, <1>6, <1>7, <1>8, <1>9

\* The verdict: when nothing failed nothing is skipped either, because a
\* skipped job has a broken need and the needs have no cycle.
LEMMA NothingBroken ==
  ASSUME TypeOK, StatusesAgree, SkipsExact, Acyclic, ~ integrity_failed,
         \A j \in Jobs : jobs[j] \notin {"none", "failed", "integrity_failure"}
  PROVE  \A j \in Jobs : jobs[j] = "succeeded"
<1> DEFINE S == {j \in Jobs : job_statuses[j] = "skipped"}
<1>1. \A j \in Jobs : job_statuses[j] # "failed"
  BY DEF StatusesAgree
<1>2. \A j \in S : needs[j] \cap S # {}
  BY <1>1 DEF SkipsExact, Broken, TypeOK, NeedsGraphs
<1>3. S = {}
  BY <1>2 DEF Acyclic
<1>4. \A j \in Jobs : jobs[j] # "skipped"
  BY <1>3 DEF StatusesAgree
<1>5. QED
  BY <1>4 DEF TypeOK

\* The verdict.
LEMMA ConcludeInv ==
  ASSUME IInv, Conclude \/ Report \/ Unregister PROVE IInv'
<1> USE DEF IInv
<1>1. TypeOK'
  BY StepType DEF Next, Pipeline
<1>2. UNCHANGED <<needs, jobs, job_statuses, processed, level, futures, awaited,
                  integrity_failed>>
  BY DEF Conclude, Report, Unregister
<1>3. LevelsClosed'
  BY <1>2 DEF LevelsClosed, Acyclic, InLevels, Conclude, Report, Unregister
<1>4. AwaitedFresh' /\ LevelReady'
  BY <1>2 DEF AwaitedFresh, LevelReady, InLevels, Collecting, Conclude, Report, Unregister
<1>5. StartsAfterNeeds' /\ SkipsRecorded'
  BY <1>2, RecordedKept DEF StartsAfterNeeds, Conclude, Report, Unregister
<1>6. StatusesAgree'
  BY <1>2 DEF StatusesAgree, InLevels, Conclude, Report, Unregister
<1>7. SkipsExact'
  BY <1>2 DEF SkipsExact
<1>8. StatusByStep'
  <2>0. RunVerdict' = RunVerdict
    BY <1>2 DEF RunVerdict
  <2>1. CASE Conclude
    <3>1. Acyclic /\ processed = Jobs
      BY <2>1 DEF Conclude, LevelsClosed, InLevels, StatusByStep
    <3>2. \A j \in Jobs : jobs[j] # "none"
      BY <2>1, <3>1 DEF Conclude, AwaitedFresh, LevelReady, InLevels, Collecting
    <3>3. RunVerdict = "succeeded" => \A j \in Jobs : jobs[j] = "succeeded"
      BY <3>1, <3>2, NothingBroken DEF RunVerdict
    <3>4. "pipeline_failed" \notin alerts'
      BY <2>1 DEF Conclude, StatusByStep
    <3>5. QED
      BY <1>2, <2>0, <2>1, <3>1, <3>3, <3>4 DEF StatusByStep, Conclude
  <2>2. CASE Report
    <3>1. status = RunVerdict /\ status' = status
      BY <2>2 DEF Report, StatusByStep
    <3>2. integrity_failed => \E j \in Jobs : jobs[j] = "integrity_failure"
      BY <2>2 DEF Report, StatusesAgree
    <3>3. "pipeline_failed" \in alerts' => status # "succeeded"
      BY <2>2 DEF Report, StatusByStep
    <3>4. QED
      BY <1>2, <2>0, <2>2, <3>1, <3>2, <3>3 DEF StatusByStep, Report
  <2>3. CASE Unregister
    BY <1>2, <2>0, <2>3 DEF StatusByStep, Unregister
  <2>4. QED
    BY <2>1, <2>2, <2>3
<1>9. QED
  BY <1>1, <1>3, <1>4, <1>5, <1>6, <1>7, <1>8

\* A worker only moves the future of a job that was submitted.
LEMMA WorkerInv ==
  ASSUME IInv, NEW j \in Jobs, WorkerStart(j) \/ WorkerEnd(j) PROVE IInv'
<1> USE DEF IInv
<1>1. TypeOK'
  BY StepType DEF Next, Pipeline
<1>2. /\ UNCHANGED <<needs, pc, status, jobs, job_statuses, processed, level,
                     awaited, integrity_failed, alerts, checker>>
      /\ futures[j] \in Unfinished
      /\ \A k \in Jobs : /\ k # j => futures'[k] = futures[k]
                         /\ futures'[k] = "none" <=> futures[k] = "none"
  BY DEF WorkerStart, WorkerEnd, TypeOK, Unfinished, Outcomes, Results
<1>3. LevelsClosed' /\ LevelReady'
  BY <1>2 DEF LevelsClosed, LevelReady, Acyclic, TypeOK, Unfinished
<1>4. AwaitedFresh'
  <2>1. pc \in Collecting \cup {"drain"}
    BY <1>2 DEF AwaitedFresh
  <2>2. pc \in Collecting =>
          \A k \in Jobs : futures'[k] \in Unfinished => k \in awaited
    BY <1>2 DEF AwaitedFresh
  <2>3. \A k \in awaited : k \in Jobs
    BY DEF TypeOK
  <2>4. QED
    BY <1>2, <2>1, <2>2, <2>3 DEF AwaitedFresh
<1>5. StartsAfterNeeds' /\ SkipsRecorded'
  BY <1>2 DEF StartsAfterNeeds, SkipsRecorded, Upstream
<1>6. StatusesAgree'
  BY <1>2 DEF StatusesAgree
<1>7. SkipsExact'
  BY <1>2 DEF SkipsExact
<1>8. StatusByStep'
  BY <1>2 DEF StatusByStep, RunVerdict
<1>9. QED
  BY <1>1, <1>3, <1>4, <1>5, <1>6, <1>7, <1>8

\* A step that changes nothing.
LEMMA StutterInv == ASSUME IInv, UNCHANGED vars PROVE IInv'
BY DEF vars, IInv, TypeOK, LevelsClosed, LevelReady, Acyclic, AwaitedFresh,
       StartsAfterNeeds, StatusesAgree, SkipsExact, SkipsRecorded, Upstream,
       StatusByStep, RunVerdict

\* The conjunction of all of it is an invariant of the engine's run.
THEOREM Invariance == Spec => []IInv
<1>1. ASSUME IInv, [Next]_vars PROVE IInv'
  <2>1. CASE Pipeline
    BY <1>1, <2>1, TakeLevelInv, SubmitInv, SkipEntryInv, LoopsEndInv,
       PlanExhaustedInv, CollectResultInv, CollectIntegrityInv,
       OtherPipelineInv, ConcludeInv
       DEF Pipeline
  <2>2. ASSUME NEW j \in Jobs, WorkerStart(j) \/ WorkerEnd(j) PROVE IInv'
    BY <1>1, <2>2, WorkerInv
  <2>3. CASE Done \/ UNCHANGED vars
    BY <1>1, <2>3, StutterInv DEF Done
  <2>4. QED
    BY <1>1, <2>1, <2>2, <2>3 DEF Next
<1>2. QED
  BY InitInv, <1>1, PTL DEF Spec

-----------------------------------------------------------------------------
(* What the invariant says to a user of the engine *)

\* No job ever starts before every job it needs has succeeded.
THEOREM NeedsRespected == Spec => []StartsAfterNeeds
<1>1. IInv => StartsAfterNeeds
  BY DEF IInv
<1>2. QED
  BY <1>1, Invariance, PTL

\* No job is waiting or running once clients are shown a terminal status.
THEOREM Quiescence == Spec => []QuietWhenOver
<1>1. IInv => QuietWhenOver
  BY DEF IInv, QuietWhenOver, StatusByStep, AwaitedFresh, Collecting
<1>2. QED
  BY <1>1, Invariance, PTL

\* A run succeeds only if every job has, a run reported as failed says
\* integrity_failure exactly if an entry does, and "failed" only otherwise and
\* with a failed job.
THEOREM VerdictIsSound == Spec => []VerdictSound
<1>1. IInv => VerdictSound
  <2> SUFFICES ASSUME IInv PROVE VerdictSound
    OBVIOUS
  <2>1. status = "succeeded" => \A j \in Jobs : jobs[j] = "succeeded"
    BY DEF IInv, StatusByStep
  <2>2. ASSUME "pipeline_failed" \in alerts
        PROVE  IF \E j \in Jobs : jobs[j] = "integrity_failure"
                 THEN status = "integrity_failure"
                 ELSE status = "failed" /\ \E j \in Jobs : jobs[j] = "failed"
    BY <2>2 DEF IInv, StatusByStep, RunVerdict
  <2>3. QED
    BY <2>1, <2>2 DEF VerdictSound
<1>2. QED
  BY <1>1, Invariance, PTL

\* A run that came to a verdict has an entry for every job.
THEOREM EveryJobAccounted == Spec => []AllAccounted
<1>1. IInv => AllAccounted
  BY DEF IInv, AllAccounted, StatusByStep, AwaitedFresh, LevelReady, InLevels, Collecting
<1>2. QED
  BY <1>1, Invariance, PTL

\* At every moment a skipped job has a failed one upstream or the run an
\* integrity failure, and once the run is over everything downstream of a failed
\* job is skipped.
THEOREM SkipsAreJustified == Spec => []SkipJustified
<1>1. IInv => SkipJustified
  <2> SUFFICES ASSUME IInv, NEW j \in Jobs
               PROVE  /\ jobs[j] = "skipped" =>
                           \/ \E n \in Upstream(j) :
                                jobs[n] \in {"failed", "integrity_failure"}
                           \/ \E k \in Jobs : jobs[k] = "integrity_failure"
                      /\ status \in Terminal =>
                           \A n \in Upstream(j) :
                             jobs[n] = "failed" => jobs[j] = "skipped"
    BY DEF SkipJustified
  <2> USE DEF IInv
  <2>1. Upstream(j) \subseteq Jobs
    BY DEF Upstream
  <2>2. ASSUME jobs[j] = "skipped", job_statuses[j] = "skipped"
        PROVE  \E n \in Upstream(j) :
                 jobs[n] \in {"failed", "integrity_failure"}
    <3>1. PICK n \in Upstream(j) : job_statuses[n] = "failed"
      BY <2>2, SkippedHasReason DEF LevelsClosed
    <3>2. QED
      BY <2>1, <3>1 DEF StatusesAgree
  <2>3. ASSUME status \in Terminal, NEW n \in Upstream(j), jobs[n] = "failed"
        PROVE  jobs[j] = "skipped"
    <3>1. job_statuses[n] \in Broken
      BY <2>1, <2>3 DEF StatusesAgree, Broken
    <3>2. job_statuses[j] = "skipped"
      BY <3>1, BrokenUpstreamSkips
    <3>3. jobs[j] # "none"
      BY <2>3 DEF StatusByStep, SkipsRecorded
    <3>4. QED
      BY <3>2, <3>3 DEF StatusesAgree, TypeOK
  <2>4. QED
    BY <2>2, <2>3 DEF StatusesAgree
<1>2. QED
  BY <1>1, Invariance, PTL

-----------------------------------------------------------------------------
(* What clients see of a run *)

\* The status of a run that has no verdict tells where its thread is.
StatusWhileRunning ==
  /\ pc \in {"resolve", "schedule"} => status = "queued"
  /\ pc \in {"level", "submit", "cut_off", "collect", "record", "drain",
             "verdict"} => status = "running"

\* Every statement keeps StatusWhileRunning.
LEMMA StepStatus == TypeOK /\ StatusWhileRunning /\ [Next]_vars => StatusWhileRunning'
BY DEF StatusWhileRunning, Next, Pipeline, Resolved, ResolutionRejected, ResolutionCrashed,
       Scheduled, CycleRejected, TakeLevel, Submit, SkipInLevel, CutOff, LevelTaken,
       PlanExhausted, CollectResult, RecordSkip, SkipsDone, CollectIntegrityError,
       CollectException, IntegrityLogFails, LevelCollected, Drained,
       Conclude, Report, Unregister, Done, WorkerStart, WorkerEnd, vars

\* A step that changes at most one entry, from none, is a Record of RunView if
\* the entry is justified.
LEMMA RecordsEntry ==
  ASSUME TypeOK, TypeOK', SkipJustified', status = "running",
         UNCHANGED <<needs, status>>, NEW j \in Jobs,
         \A k \in Jobs \ {j} : jobs'[k] = jobs[k],
         jobs'[j] # jobs[j] =>
           /\ jobs[j] = "none"
           /\ jobs'[j] # "skipped" => \A n \in needs[j] : jobs[n] = "succeeded"
  PROVE  [View!Next]_View!vars
<1>1. CASE jobs'[j] = jobs[j]
  <2>1. jobs' = jobs
    BY <1>1 DEF TypeOK
  <2>2. QED
    BY <2>1 DEF View!vars
<1>2. CASE jobs'[j] # jobs[j]
  <2>1. jobs' = [jobs EXCEPT ![j] = jobs'[j]] /\ jobs[j] = "none"
    BY <1>2 DEF TypeOK
  <2>2. jobs'[j] \in View!Executed \cup {"skipped"}
    BY <1>2, <2>1 DEF TypeOK, View!Executed
  <2>3. CASE jobs'[j] \in View!Executed
    <3>1. View!MayBeExecuted(j)
      BY <1>2, <2>3 DEF View!Executed, View!MayBeExecuted
    <3>2. View!Record(j)
      BY <2>1, <2>3, <3>1 DEF View!Record
    <3>3. QED
      BY <3>2 DEF View!Next
  <2>4. CASE jobs'[j] = "skipped"
    <3>1. Upstream(j)' = View!Upstream(j) /\ View!Upstream(j) \subseteq Jobs
      BY DEF Upstream, View!Upstream
    <3>2. \/ \E n \in View!Upstream(j) : jobs'[n] \in {"failed", "integrity_failure"}
          \/ \E k \in Jobs : jobs'[k] = "integrity_failure"
      BY <2>4, <3>1 DEF SkipJustified
    <3>3. \A k \in Jobs : jobs'[k] \in {"failed", "integrity_failure"} => jobs'[k] = jobs[k]
      BY <2>4
    <3>4. View!MayBeSkipped(j)
      BY <3>1, <3>2, <3>3 DEF View!MayBeSkipped
    <3>5. View!Record(j)
      BY <2>1, <2>4, <3>4 DEF View!Record
    <3>6. QED
      BY <3>5 DEF View!Next
  <2>5. QED
    BY <2>2, <2>3, <2>4
<1>3. QED
  BY <1>1, <1>2

\* Every step of a run is one its clients may see, or none.
LEMMA StepView ==
  ASSUME IInv, IInv', SkipJustified', StatusWhileRunning, [Next]_vars
  PROVE  [View!Next]_View!vars
<1> USE DEF IInv
<1>1. CASE ResolutionRejected \/ ResolutionCrashed \/ CycleRejected
  <2>1. View!Refuse
    BY <1>1 DEF ResolutionRejected, ResolutionCrashed, CycleRejected, StatusWhileRunning,
                View!Refuse
  <2>2. QED
    BY <2>1 DEF View!Next
<1>2. CASE Scheduled
  <2>1. View!Begin
    BY <1>2 DEF Scheduled, StatusWhileRunning, View!Begin, Acyclic, View!Acyclic
  <2>2. QED
    BY <2>1 DEF View!Next
<1>3. ASSUME NEW j \in Jobs, SkipInLevel(j) \/ CutOff(j) \/ RecordSkip(j)
      PROVE  [View!Next]_View!vars
  <2>1. /\ \A k \in Jobs \ {j} : jobs'[k] = jobs[k]
        /\ jobs'[j] # jobs[j] => jobs[j] = "none" /\ jobs'[j] = "skipped"
    BY <1>3 DEF SkipInLevel, CutOff, RecordSkip, Unrecorded, TypeOK,
                LevelReady, StatusesAgree
  <2>2. status = "running" /\ UNCHANGED <<needs, status>>
    BY <1>3 DEF SkipInLevel, CutOff, RecordSkip, StatusWhileRunning
  <2>3. QED
    BY <2>1, <2>2, RecordsEntry
<1>4. CASE TakeLevel \/ LevelTaken \/ SkipsDone \/ \E j \in Jobs : Submit(j)
  BY <1>4 DEF TakeLevel, LevelTaken, SkipsDone, Submit, View!vars
<1>5. ASSUME NEW j \in Jobs, CollectResult(j) \/ CollectIntegrityError(j)
      PROVE  [View!Next]_View!vars
  <2>1. jobs[j] = "none" /\ \A n \in needs[j] : jobs[n] = "succeeded"
    BY <1>5 DEF CollectResult, CollectIntegrityError, AwaitedFresh, StartsAfterNeeds
  <2>2. \A d \in Jobs \ {j} : jobs'[d] = jobs[d]
    BY <1>5 DEF CollectResult, CollectIntegrityError, TypeOK
  <2>3. status = "running" /\ UNCHANGED <<needs, status>>
    BY <1>5 DEF CollectResult, CollectIntegrityError, StatusWhileRunning
  <2>4. QED
    BY <2>1, <2>2, <2>3, RecordsEntry
<1>6. CASE Drained
  <2>1. View!Conclude
    BY <1>6 DEF Drained, StatusWhileRunning, View!Conclude
  <2>2. QED
    BY <2>1 DEF View!Next
<1>7. CASE Conclude
  <2>1. status = "running" /\ UNCHANGED <<needs, jobs>> /\ pc' = "report"
    BY <1>7 DEF Conclude, StatusWhileRunning
  <2>2. status' = "succeeded" => \A j \in Jobs : jobs[j] = "succeeded"
    BY <2>1 DEF StatusByStep
  <2>3. status' = "integrity_failure" =>
          /\ \E j \in Jobs : jobs[j] = "integrity_failure"
          /\ \A j \in Jobs : jobs[j] # "none"
    BY <1>7 DEF Conclude, RunVerdict, StatusesAgree, AwaitedFresh, LevelReady, InLevels,
                Collecting, StatusByStep
  <2>4. status' \in {"succeeded", "integrity_failure", "failed"}
    BY <1>7 DEF Conclude, RunVerdict
  <2>5. View!Conclude
    BY <2>1, <2>2, <2>3, <2>4 DEF View!Conclude
  <2>6. QED
    BY <2>5 DEF View!Next
<1>8. CASE UNCHANGED <<needs, status, jobs>>
  BY <1>8 DEF View!vars
<1>9. QED
  BY <1>1, <1>2, <1>3, <1>4, <1>5, <1>6, <1>7, <1>8
     DEF Next, Pipeline, Resolved, PlanExhausted, CollectException, IntegrityLogFails,
         LevelCollected, Report, Unregister, Done, WorkerStart, WorkerEnd, vars

\* A run, seen through GET /runs/{run_id}, behaves as RunView promises: entries
\* are written once, in an order that respects needs, and its verdict agrees
\* with them.
THEOREM ClientsSeeRunView == Spec => ViewSpec
<1>1. Init => View!Init /\ StatusWhileRunning
  BY DEF Init, View!Init, StatusWhileRunning, NeedsGraphs, View!NeedsGraphs
<1>2. IInv => TypeOK
  BY DEF IInv
<1>3. Spec => []StatusWhileRunning
  BY <1>1, <1>2, StepStatus, Invariance, PTL DEF Spec
<1>4. QED
  BY <1>1, <1>3, StepView, Invariance, SkipsAreJustified, PTL DEF Spec, ViewSpec, View!Spec
=============================================================================
