-------------------------- MODULE JobExecution_proofs --------------------------
(***************************************************************************)
(* What a job reports, reads and publishes: the inductive invariant of     *)
(* JobExecution and what follows from it, for any number of runs, jobs,    *)
(* dependencies, artifacts and failures.                                   *)
(***************************************************************************)
EXTENDS JobExecution, TLAPS

States == {"absent", "partial", "whole"}
Rows == [by : Calls, entry : Artifacts]

Documents ==
  [jobs : [Jobs -> [needs : SUBSET Jobs, level : 1..Cardinality(Jobs), makes : SUBSET Artifacts]],
   coordinate : [Artifacts -> Coordinates]]

TypeOK ==
  /\ plan \in Documents
  /\ at \in [Calls -> {"waiting", "pull", "extract", "steps", "publish", "post", "done"}]
  /\ dep \in [Calls -> Nat \ {0}] /\ art \in [Calls -> Nat \ {0}]
  /\ data \in [Calls -> States]
  /\ published \in [Calls -> SUBSET Artifacts]
  /\ outcome \in [Calls -> {"none", "succeeded", "failed", "skipped", "integrity",
                        "refused", "raised"}]
  /\ deps_dir \in [Runs -> [Dependencies -> States]]
  /\ workspace \in [Runs -> [Artifacts -> States]]
  /\ writing \in [Calls -> Artifacts \cup {0}]
  /\ background \in SUBSET (Calls \X Artifacts)
  /\ rows \in [Coordinates -> Rows \cup {NoRow}]
  /\ faults \in Nat

\* Where a call is decides what of its variables means anything.
Progress ==
  \A c \in Calls :
    /\ at[c] = "done" <=> outcome[c] # "none"
    /\ at[c] \in {"steps", "publish", "post"} => dep[c] > DEPENDENCIES
    /\ at[c] = "extract" => dep[c] \in Dependencies
    /\ at[c] = "post" => art[c] \in Artifacts
    /\ writing[c] # 0 => at[c] = "steps" /\ writing[c] \in plan.jobs[JobOf(c)].makes

\* What a call has stored it has stored for an entry behind its place in the
\* loop, and reports, unless the answer was lost; then it has raised.
OwnRows ==
  \A c \in Calls : \A k \in Coordinates :
    rows[k] # NoRow /\ rows[k].by = c =>
      \/ rows[k].entry < art[c] /\ rows[k].entry \in published[c]
      \/ outcome[c] = "raised"

\* A call that was refused stands at an entry whose coordinate is taken.
RefusedAtRow ==
  \A c \in Calls : outcome[c] = "refused" =>
    art[c] \in Artifacts /\ rows[Coordinate(c)] # NoRow

\* A dependency that a call has pulled is whole, or another job of the run is
\* extracting it once more, or has broken off.
Disturbs(k, d) == outcome[k] = "raised" \/ (at[k] = "extract" /\ dep[k] = d)

Pulled(c, d) ==
  d < dep[c] /\ outcome[c] # "raised" =>
    deps_dir[RunOf(c)][d] = "whole" \/ \E k \in Siblings(c) : Disturbs(k, d)

PulledStays == \A c \in Calls : \A d \in Dependencies : Pulled(c, d)

\* Half an artifact has a maker that is writing it or was stopped, or that left
\* a process behind to write it.
Tears(k, a) ==
  \/ /\ a \in plan.jobs[JobOf(k)].makes
     /\ writing[k] = a \/ outcome[k] \in {"failed", "raised"}
  \/ <<k, a>> \in background

PartialHasMaker ==
  \A r \in Runs : \A a \in Artifacts :
    workspace[r][a] = "partial" => \E k \in Calls : RunOf(k) = r /\ Tears(k, a)

IInv ==
  /\ TypeOK /\ Progress
  /\ ReportsAreTrue /\ OwnRows /\ RefusedAtRow
  /\ PulledStays
  /\ PartialHasMaker

-----------------------------------------------------------------------------
USE CountsAssumption, NoRowAssumption DEF loops, files, disk, Dependencies, Artifacts, Coordinates

\* A call belongs to a run and executes a job.
LEMMA CallParts == \A c \in Calls : RunOf(c) \in Runs /\ JobOf(c) \in Jobs
BY DEF Calls, RunOf, JobOf

USE CallParts

\* What Store writes is a row, and it names the job and the entry.
LEMMA StoredRow ==
  ASSUME NEW c \in Calls, NEW a \in Artifacts
  PROVE  /\ [by |-> c, entry |-> a] \in Rows
         /\ [by |-> c, entry |-> a] # NoRow
         /\ [by |-> c, entry |-> a].by = c
         /\ [by |-> c, entry |-> a].entry = a
BY DEF Calls, Rows

\* A publish that is stored: at the entry's coordinate, which was free.
LEMMA StoreEffect ==
  ASSUME TypeOK, Progress, NEW c \in Calls, at[c] = "post", Free(c), Store(c)
  PROVE  /\ art[c] \in Artifacts /\ plan.coordinate[art[c]] \in Coordinates
         /\ rows[plan.coordinate[art[c]]] = NoRow
         /\ rows' \in [Coordinates -> Rows \cup {NoRow}]
         /\ rows'[plan.coordinate[art[c]]] # NoRow
         /\ rows'[plan.coordinate[art[c]]].by = c
         /\ rows'[plan.coordinate[art[c]]].entry = art[c]
         /\ \A k \in Coordinates \ {plan.coordinate[art[c]]} : rows'[k] = rows[k]
<1> DEFINE row == [by |-> c, entry |-> art[c]]
           k == plan.coordinate[art[c]]
<1>1. art[c] \in Artifacts /\ k \in Coordinates /\ rows \in [Coordinates -> Rows \cup {NoRow}]
  BY DEF TypeOK, Progress, Documents
<1>2. rows[k] = NoRow /\ rows' = [rows EXCEPT ![k] = row]
  BY DEF Free, Store, Coordinate
<1>3. row \in Rows /\ row # NoRow /\ row.by = c /\ row.entry = art[c]
  BY <1>1, StoredRow
<1> HIDE DEF row, k, Rows
<1>4. /\ k \in Coordinates /\ rows[k] = NoRow
      /\ rows' \in [Coordinates -> Rows \cup {NoRow}]
      /\ rows'[k] = row
      /\ \A x \in Coordinates \ {k} : rows'[x] = rows[x]
  BY <1>1, <1>2, <1>3
<1>5. QED
  BY <1>1, <1>3, <1>4 DEF k

\* What a call has pulled stays as it is as long as nobody begins or ends an
\* extraction other than by raising.
LEMMA PulledKept ==
  ASSUME PulledStays,
         UNCHANGED <<deps_dir, dep>>,
         \A k \in Calls :
           /\ at[k] = "extract" => at'[k] = "extract" \/ outcome'[k] = "raised"
           /\ outcome[k] = "raised" => outcome'[k] = "raised"
  PROVE  PulledStays'
<1> SUFFICES ASSUME NEW c \in Calls, NEW d \in Dependencies
             PROVE  Pulled(c, d)'
  BY DEF PulledStays
<1>1. Pulled(c, d)
  BY DEF PulledStays
<1>2. ASSUME NEW k \in Siblings(c), Disturbs(k, d)
      PROVE  Disturbs(k, d)'
  BY <1>2 DEF Siblings, Disturbs
<1>3. QED
  BY <1>1, <1>2 DEF Pulled

\* Every step keeps the types.
LEMMA StepType == TypeOK /\ Progress /\ [Next]_vars => TypeOK'
<1> SUFFICES ASSUME TypeOK, Progress, [Next]_vars PROVE TypeOK'
  OBVIOUS
<1> USE DEF TypeOK, States, Rows, Progress
<1>1. ASSUME NEW c \in Calls, Start(c)
      PROVE  TypeOK'
  BY <1>1 DEF Start, Goto
<1>2. ASSUME NEW c \in Calls, Skip(c)
      PROVE  TypeOK'
  BY <1>2 DEF Skip, End, Goto
<1>3. ASSUME NEW c \in Calls, PullVerified(c)
      PROVE  TypeOK'
  BY <1>3 DEF PullVerified, SetDep, Goto
<1>4. ASSUME NEW c \in Calls, PullMismatch(c)
      PROVE  TypeOK'
  BY <1>4 DEF PullMismatch, Fault, End, Goto
<1>5. ASSUME NEW c \in Calls, Extracted(c)
      PROVE  TypeOK'
  <2>1. \A x \in States :
          [deps_dir EXCEPT ![RunOf(c)][dep[c]] = x] \in [Runs -> [Dependencies -> States]]
    OBVIOUS
  <2>2. deps_dir' \in [Runs -> [Dependencies -> States]]
    BY <1>5, <2>1, Zenon DEF Extracted, SetDep, TypeOK, States
  <2>3. QED
    BY <1>5, <2>2 DEF Extracted, Goto
<1>6. ASSUME NEW c \in Calls, RunJob(c)
      PROVE  TypeOK'
  BY <1>6 DEF RunJob, Goto
<1>7. ASSUME NEW c \in Calls, NEW a \in Artifacts, StepOpens(c, a)
      PROVE  TypeOK'
  BY <1>7 DEF StepOpens, SetFile
<1>8. ASSUME NEW c \in Calls, StepWrites(c)
      PROVE  TypeOK'
  BY <1>8 DEF StepWrites, SetFile
<1>9. ASSUME NEW c \in Calls, JobFails(c)
      PROVE  TypeOK'
  BY <1>9 DEF JobFails, End, Goto
<1>10. ASSUME NEW c \in Calls, JobExitsZero(c)
      PROVE  TypeOK'
  BY <1>10 DEF JobExitsZero, Goto
<1>11. ASSUME NEW c \in Calls, NoSuchFile(c)
      PROVE  TypeOK'
  <2>1. art' \in [Calls -> Nat \ {0}]
    BY <1>11 DEF NoSuchFile
  <2>2. QED
    BY <1>11, <2>1 DEF NoSuchFile
<1>12. ASSUME NEW c \in Calls, ReadFile(c)
      PROVE  TypeOK'
  BY <1>12 DEF ReadFile, Goto
<1>13. ASSUME NEW c \in Calls, PublishCreated(c)
      PROVE  TypeOK'
  <2>1. rows' \in [Coordinates -> Rows \cup {NoRow}] /\ art[c] \in Artifacts
    BY <1>13, StoreEffect DEF PublishCreated
  <2>2. QED
    BY <1>13, <2>1 DEF PublishCreated, Return, Goto
<1>14. ASSUME NEW c \in Calls, PublishConflict(c)
      PROVE  TypeOK'
  BY <1>14 DEF PublishConflict, Return, End, Goto
<1>15. ASSUME NEW c \in Calls, ReturnResult(c)
      PROVE  TypeOK'
  BY <1>15 DEF ReturnResult, End, Goto
<1>16. ASSUME NEW c \in Calls, Raises(c)
      PROVE  TypeOK'
  BY <1>16 DEF Raises, Fault, End, Goto
<1>17. ASSUME NEW c \in Calls, PublishFails(c)
      PROVE  TypeOK'
  <2>1. rows' \in [Coordinates -> Rows \cup {NoRow}]
    BY <1>17, StoreEffect DEF PublishFails
  <2>2. QED
    BY <1>17, <2>1 DEF PublishFails, Return, Fault, End, Goto
<1>18. CASE UNCHANGED vars
  BY <1>18 DEF vars
<1>19. QED
  BY <1>1, <1>2, <1>3, <1>4, <1>5, <1>6, <1>7, <1>8, <1>9, <1>10, <1>11, <1>12, <1>13,
     <1>14, <1>15, <1>16, <1>17, <1>18
     DEF Next, execute_job, pull_deps, publish_artifact, Container

\* Every step keeps a call's variables in line with where it is.
LEMMA StepProgress == TypeOK /\ Progress /\ [Next]_vars => Progress'
<1> SUFFICES ASSUME TypeOK, Progress, [Next]_vars PROVE Progress'
  OBVIOUS
<1> USE DEF TypeOK, States, Rows, Progress
<1>1. ASSUME NEW c \in Calls, Start(c)
      PROVE  Progress'
  BY <1>1 DEF Start, Goto
<1>2. ASSUME NEW c \in Calls, Skip(c)
      PROVE  Progress'
  BY <1>2 DEF Skip, End, Goto
<1>3. ASSUME NEW c \in Calls, PullVerified(c)
      PROVE  Progress'
  BY <1>3 DEF PullVerified, SetDep, Goto
<1>4. ASSUME NEW c \in Calls, PullMismatch(c)
      PROVE  Progress'
  BY <1>4 DEF PullMismatch, Fault, End, Goto
<1>5. ASSUME NEW c \in Calls, Extracted(c)
      PROVE  Progress'
  BY <1>5 DEF Extracted, SetDep, Goto
<1>6. ASSUME NEW c \in Calls, RunJob(c)
      PROVE  Progress'
  BY <1>6 DEF RunJob, Goto
<1>7. ASSUME NEW c \in Calls, NEW a \in Artifacts, StepOpens(c, a)
      PROVE  Progress'
  BY <1>7 DEF StepOpens, SetFile
<1>8. ASSUME NEW c \in Calls, StepWrites(c)
      PROVE  Progress'
  BY <1>8 DEF StepWrites, SetFile
<1>9. ASSUME NEW c \in Calls, JobFails(c)
      PROVE  Progress'
  BY <1>9 DEF JobFails, End, Goto
<1>10. ASSUME NEW c \in Calls, JobExitsZero(c)
      PROVE  Progress'
  BY <1>10 DEF JobExitsZero, Goto
<1>11. ASSUME NEW c \in Calls, NoSuchFile(c)
      PROVE  Progress'
  BY <1>11 DEF NoSuchFile
<1>12. ASSUME NEW c \in Calls, ReadFile(c)
      PROVE  Progress'
  BY <1>12 DEF ReadFile, Goto
<1>13. ASSUME NEW c \in Calls, PublishCreated(c)
      PROVE  Progress'
  BY <1>13 DEF PublishCreated, Return, Goto
<1>14. ASSUME NEW c \in Calls, PublishConflict(c)
      PROVE  Progress'
  BY <1>14 DEF PublishConflict, Return, End, Goto
<1>15. ASSUME NEW c \in Calls, ReturnResult(c)
      PROVE  Progress'
  BY <1>15 DEF ReturnResult, End, Goto
<1>16. ASSUME NEW c \in Calls, Raises(c)
      PROVE  Progress'
  BY <1>16 DEF Raises, Fault, End, Goto
<1>17. ASSUME NEW c \in Calls, PublishFails(c)
      PROVE  Progress'
  BY <1>17 DEF PublishFails, Return, Fault, End, Goto
<1>18. CASE UNCHANGED vars
  BY <1>18 DEF vars
<1>19. QED
  BY <1>1, <1>2, <1>3, <1>4, <1>5, <1>6, <1>7, <1>8, <1>9, <1>10, <1>11, <1>12, <1>13,
     <1>14, <1>15, <1>16, <1>17, <1>18
     DEF Next, execute_job, pull_deps, publish_artifact, Container

\* The rows, the calls' reports and the places of the calls that were refused
\* stay as they are.
RowsStay ==
  /\ UNCHANGED <<plan, rows, published>>
  /\ \A k \in Calls :
       /\ art'[k] >= art[k]
       /\ outcome[k] \in {"refused", "raised"} => outcome'[k] = outcome[k] /\ art'[k] = art[k]
       /\ outcome'[k] = "refused" => outcome[k] = "refused"

\* So they do in every step but the answers of the registry.
LEMMA StepRowsStay ==
  ASSUME TypeOK, Progress, [Next]_vars,
         \A c \in Calls : ~ PublishCreated(c) /\ ~ PublishConflict(c) /\ ~ PublishFails(c)
  PROVE  RowsStay
<1> USE DEF TypeOK, Progress, RowsStay
<1>1. ASSUME NEW c \in Calls,
             Start(c) \/ Skip(c) \/ PullVerified(c) \/ PullMismatch(c) \/ Extracted(c) \/ RunJob(c)
      PROVE  RowsStay
  BY <1>1 DEF Start, Skip, PullVerified, PullMismatch, Extracted, RunJob, Fault, End, Goto
<1>2. ASSUME NEW c \in Calls, Container(c)
      PROVE  RowsStay
  BY <1>2 DEF Container, StepOpens, StepWrites, JobFails, JobExitsZero, End, Goto
<1>3. ASSUME NEW c \in Calls, NoSuchFile(c) \/ ReadFile(c) \/ ReturnResult(c) \/ Raises(c)
      PROVE  RowsStay
  BY <1>3 DEF NoSuchFile, ReadFile, ReturnResult, Raises, Fault, End, Goto
<1>4. CASE UNCHANGED vars
  BY <1>4 DEF vars
<1>5. QED
  BY <1>1, <1>2, <1>3, <1>4 DEF Next, execute_job, pull_deps, publish_artifact

\* No row is ever overwritten; a 201 adds the row and the report of one entry, a
\* publish without an answer at most the row, and a 409 nothing.
LEMMA StepRows ==
  ASSUME TypeOK, Progress, ReportsAreTrue, OwnRows, RefusedAtRow, [Next]_vars
  PROVE  ReportsAreTrue' /\ OwnRows' /\ RefusedAtRow'
<1> USE DEF TypeOK, Progress, ReportsAreTrue, OwnRows, RefusedAtRow, Coordinate
<1>0. /\ \A k \in Coordinates : rows[k] # NoRow => rows[k].entry \in Nat
      /\ \A a \in Artifacts : plan.coordinate[a] \in Coordinates
  <2>1. \A k \in Coordinates : rows[k] # NoRow => rows[k].entry \in Nat
    BY DEF Rows
  <2>2. plan.coordinate \in [Artifacts -> Coordinates]
    BY DEF Documents
  <2>3. QED
    BY <2>1, <2>2
<1>1. ASSUME NEW c \in Calls, PublishCreated(c)
      PROVE  ReportsAreTrue' /\ OwnRows' /\ RefusedAtRow'
  <2> DEFINE x == plan.coordinate[art[c]]
  <2>1. /\ art[c] \in Artifacts /\ x \in Coordinates
        /\ rows[x] = NoRow /\ rows'[x] # NoRow
        /\ rows'[x].by = c /\ rows'[x].entry = art[c]
        /\ \A k \in Coordinates \ {x} : rows'[k] = rows[k]
    BY <1>1, StoreEffect DEF PublishCreated
  <2>2. /\ published' = [published EXCEPT ![c] = published[c] \cup {art[c]}]
        /\ art' = [art EXCEPT ![c] = art[c] + 1]
        /\ outcome[c] = "none" /\ UNCHANGED <<plan, outcome>>
    BY <1>1 DEF PublishCreated
  <2> HIDE DEF x
  <2>3. ReportsAreTrue'
    <3> SUFFICES ASSUME NEW b \in Calls, NEW a \in published'[b]
                 PROVE  LET row == rows'[plan.coordinate[a]]
                        IN  row # NoRow /\ row.by = b /\ row.entry = a
      BY <2>2
    <3>1. CASE b = c /\ a = art[c]
      BY <2>1, <3>1 DEF x
    <3>2. CASE ~ (b = c /\ a = art[c])
      <4>1. a \in published[b] /\ a \in Artifacts /\ plan.coordinate[a] \in Coordinates
        BY <1>0, <2>2, <3>2
      <4>2. /\ rows[plan.coordinate[a]] # NoRow
            /\ rows[plan.coordinate[a]].by = b /\ rows[plan.coordinate[a]].entry = a
        BY <4>1
      <4>3. plan.coordinate[a] # x
        BY <2>1, <4>2
      <4>4. rows'[plan.coordinate[a]] = rows[plan.coordinate[a]]
        BY <2>1, <4>1, <4>3
      <4>5. QED
        BY <4>2, <4>4
    <3>3. QED
      BY <3>1, <3>2
  <2>4. OwnRows'
    <3> SUFFICES ASSUME NEW b \in Calls, NEW k \in Coordinates,
                        rows'[k] # NoRow, rows'[k].by = b, outcome[b] # "raised"
                 PROVE  rows'[k].entry < art'[b] /\ rows'[k].entry \in published'[b]
      BY <2>2
    <3>1. CASE k = x
      BY <2>1, <2>2, <3>1
    <3>2. CASE k # x
      <4>1. rows'[k] = rows[k] /\ rows[k].entry \in Nat
        BY <1>0, <2>1, <3>2
      <4>2. rows[k].entry < art[b] /\ rows[k].entry \in published[b]
        BY <4>1
      <4>3. art[b] \in Nat /\ art'[b] >= art[b] /\ published[b] \subseteq published'[b]
        BY <2>2
      <4> DEFINE e == rows[k].entry
                 m == art[b]
                 n == art'[b]
      <4>4. e \in Nat /\ m \in Nat /\ n \in Nat /\ e < m /\ n >= m
        BY <2>2, <4>1, <4>2, <4>3
      <4> HIDE DEF e, m, n
      <4>5. e < n
        BY <4>4
      <4>6. rows'[k].entry < art'[b]
        BY <4>1, <4>5 DEF e, n
      <4>7. QED
        BY <4>1, <4>2, <4>3, <4>6
    <3>3. QED
      BY <3>1, <3>2
  <2>5. RefusedAtRow'
    <3> SUFFICES ASSUME NEW b \in Calls, outcome[b] = "refused"
                 PROVE  art'[b] \in Artifacts /\ rows'[plan.coordinate[art'[b]]] # NoRow
      BY <2>2
    <3>1. art'[b] = art[b] /\ art[b] \in Artifacts /\ rows[plan.coordinate[art[b]]] # NoRow
      BY <2>2
    <3>2. QED
      BY <1>0, <2>1, <3>1
  <2>6. QED
    BY <2>3, <2>4, <2>5
<1>2. ASSUME NEW c \in Calls, PublishConflict(c)
      PROVE  ReportsAreTrue' /\ OwnRows' /\ RefusedAtRow'
  <2>1. /\ at[c] = "post" /\ art[c] \in Artifacts /\ outcome[c] = "none"
        /\ rows[plan.coordinate[art[c]]] # NoRow
        /\ outcome' = [outcome EXCEPT ![c] = "refused"]
        /\ UNCHANGED <<plan, art, published, rows>>
    BY <1>2 DEF PublishConflict, Free, End
  <2>2. QED
    BY <2>1
<1>3. ASSUME NEW c \in Calls, PublishFails(c)
      PROVE  ReportsAreTrue' /\ OwnRows' /\ RefusedAtRow'
  <2> DEFINE x == plan.coordinate[art[c]]
  <2>1. /\ at[c] = "post" /\ outcome[c] = "none"
        /\ outcome' = [outcome EXCEPT ![c] = "raised"]
        /\ UNCHANGED <<plan, art, published>>
    BY <1>3 DEF PublishFails, End
  <2>2. CASE rows' = rows
    BY <2>1, <2>2
  <2>3. CASE Free(c) /\ Store(c)
    <3>1. /\ x \in Coordinates
          /\ rows[x] = NoRow /\ rows'[x] # NoRow /\ rows'[x].by = c
          /\ \A k \in Coordinates \ {x} : rows'[k] = rows[k]
      BY <2>1, <2>3, StoreEffect
    <3> HIDE DEF x
    <3>2. ReportsAreTrue'
      <4> SUFFICES ASSUME NEW b \in Calls, NEW a \in published[b]
                   PROVE  LET row == rows'[plan.coordinate[a]]
                          IN  row # NoRow /\ row.by = b /\ row.entry = a
        BY <2>1
      <4>1. plan.coordinate[a] \in Coordinates /\ rows[plan.coordinate[a]] # NoRow
        BY <1>0
      <4>2. rows'[plan.coordinate[a]] = rows[plan.coordinate[a]]
        BY <3>1, <4>1
      <4>3. QED
        BY <4>2
    <3>3. OwnRows'
      BY <2>1, <3>1
    <3>4. RefusedAtRow'
      <4> SUFFICES ASSUME NEW b \in Calls, outcome'[b] = "refused"
                   PROVE  art[b] \in Artifacts /\ rows'[plan.coordinate[art[b]]] # NoRow
        BY <2>1
      <4>1. outcome[b] = "refused"
        BY <2>1
      <4>2. QED
        BY <1>0, <3>1, <4>1
    <3>5. QED
      BY <3>2, <3>3, <3>4
  <2>4. QED
    BY <1>3, <2>2, <2>3 DEF PublishFails
<1>4. CASE RowsStay
  <2>1. ReportsAreTrue'
    BY <1>4 DEF RowsStay
  <2>2. OwnRows'
    <3> SUFFICES ASSUME NEW b \in Calls, NEW k \in Coordinates,
                        rows[k] # NoRow, rows[k].by = b, outcome'[b] # "raised"
                 PROVE  rows[k].entry < art'[b] /\ rows[k].entry \in published[b]
      BY <1>4 DEF RowsStay
    <3>1. outcome[b] # "raised" /\ art'[b] >= art[b]
      BY <1>4 DEF RowsStay
    <3>2. rows[k].entry < art[b] /\ rows[k].entry \in published[b] /\ rows[k].entry \in Nat
      BY <1>0, <3>1
    <3>3. art[b] \in Nat /\ art'[b] \in Nat
      BY StepType DEF TypeOK
    <3>4. QED
      BY <3>1, <3>2, <3>3
  <2>3. RefusedAtRow'
    BY <1>4 DEF RowsStay
  <2>4. QED
    BY <2>1, <2>2, <2>3
<1>5. QED
  BY <1>1, <1>2, <1>3, <1>4, StepRowsStay

\* A dependency that was pulled is only disturbed by another job that extracts
\* it again.
LEMMA StepPulled == TypeOK /\ Progress /\ PulledStays /\ [Next]_vars => PulledStays'
<1> SUFFICES ASSUME TypeOK, Progress, PulledStays, [Next]_vars PROVE PulledStays'
  OBVIOUS
<1> USE DEF TypeOK, States, Rows, Progress
<1>1. ASSUME NEW c \in Calls, Start(c)
      PROVE  PulledStays'
  <2>1. /\ UNCHANGED <<deps_dir, dep>>
        /\ \A k \in Calls :
             /\ at[k] = "extract" => at'[k] = "extract" \/ outcome'[k] = "raised"
             /\ outcome[k] = "raised" => outcome'[k] = "raised"
    BY <1>1 DEF Start, Goto
  <2>2. QED
    BY <2>1, PulledKept
<1>2. ASSUME NEW c \in Calls, Skip(c)
      PROVE  PulledStays'
  <2>1. /\ UNCHANGED <<deps_dir, dep>>
        /\ \A k \in Calls :
             /\ at[k] = "extract" => at'[k] = "extract" \/ outcome'[k] = "raised"
             /\ outcome[k] = "raised" => outcome'[k] = "raised"
    BY <1>2 DEF Skip, End, Goto
  <2>2. QED
    BY <2>1, PulledKept
<1>3. ASSUME NEW c \in Calls, PullVerified(c)
      PROVE  PulledStays'
  <2> SUFFICES ASSUME NEW b \in Calls, NEW e \in Dependencies,
                      e < dep'[b], outcome'[b] # "raised"
               PROVE  \/ deps_dir'[RunOf(b)][e] = "whole"
                      \/ \E k \in Siblings(b) : Disturbs(k, e)'
    BY DEF PulledStays, Pulled
  <2> USE DEF Pulled, Disturbs
  <2>0. /\ UNCHANGED <<dep, outcome>>
        /\ at' = [at EXCEPT ![c] = "extract"]
        /\ deps_dir' = [deps_dir EXCEPT ![RunOf(c)][dep[c]] = "partial"]
        /\ dep[c] \in Dependencies
    BY <1>3 DEF PullVerified, SetDep, Goto
  <2>1. CASE RunOf(b) = RunOf(c) /\ dep[c] = e
    <3>1. c # b
      BY <2>0, <2>1
    <3>2. c \in Siblings(b) /\ at'[c] = "extract" /\ dep'[c] = e
      BY <2>0, <2>1, <3>1 DEF Siblings
    <3>3. QED
      BY <3>2
  <2>2. CASE ~ (RunOf(b) = RunOf(c) /\ dep[c] = e)
    <3>1. deps_dir'[RunOf(b)][e] = deps_dir[RunOf(b)][e]
      BY <2>0, <2>2
    <3>2. \A k \in Calls : at[k] = "extract" => at'[k] = "extract"
      BY <2>0
    <3>3. QED
      BY <2>0, <3>1, <3>2 DEF PulledStays, Siblings
  <2>3. QED
    BY <2>1, <2>2
<1>4. ASSUME NEW c \in Calls, PullMismatch(c)
      PROVE  PulledStays'
  <2>1. /\ UNCHANGED <<deps_dir, dep>>
        /\ \A k \in Calls :
             /\ at[k] = "extract" => at'[k] = "extract" \/ outcome'[k] = "raised"
             /\ outcome[k] = "raised" => outcome'[k] = "raised"
    BY <1>4 DEF PullMismatch, Fault, End, Goto
  <2>2. QED
    BY <2>1, PulledKept
<1>5. ASSUME NEW c \in Calls, Extracted(c)
      PROVE  PulledStays'
  <2> SUFFICES ASSUME NEW b \in Calls, NEW e \in Dependencies,
                      e < dep'[b], outcome'[b] # "raised"
               PROVE  \/ deps_dir'[RunOf(b)][e] = "whole"
                      \/ \E k \in Siblings(b) : Disturbs(k, e)'
    BY DEF PulledStays, Pulled
  <2> USE DEF Pulled, Disturbs
  <2> DEFINE others == {k \in Siblings(c) : at[k] = "extract" /\ dep[k] = dep[c]}
  <2>0. /\ UNCHANGED outcome
        /\ at[c] = "extract" /\ at' = [at EXCEPT ![c] = "pull"]
        /\ dep' = [dep EXCEPT ![c] = dep[c] + 1]
    BY <1>5, Zenon DEF Extracted, Goto
  <2>a. dep[c] \in Dependencies
    BY <2>0
  <2>1. \/ others # {} /\ UNCHANGED deps_dir
        \/ deps_dir' = [deps_dir EXCEPT ![RunOf(c)][dep[c]] = "whole"]
        \/ (\E k \in Siblings(c) : outcome[k] = "raised") /\ UNCHANGED deps_dir
    BY <1>5 DEF Extracted, SetDep
  <2>2. deps_dir[RunOf(b)][e] = "whole" => deps_dir'[RunOf(b)][e] = "whole"
    BY <2>1
  \* Of the dependency that c has just extracted.
  <2>3. CASE RunOf(b) = RunOf(c) /\ e = dep[c]
    <3>1. CASE deps_dir' = [deps_dir EXCEPT ![RunOf(c)][dep[c]] = "whole"]
      BY <2>3, <3>1
    <3>2. ASSUME NEW k \in Siblings(c), outcome[k] = "raised"
          PROVE  k \in Siblings(b) /\ outcome'[k] = "raised"
      BY <2>0, <2>3, <3>2 DEF Siblings
    <3>3. ASSUME NEW k \in others
          PROVE  k \in Siblings(b) /\ at'[k] = "extract" /\ dep'[k] = e
      <4>1. k # b
        BY <2>0, <2>a, <2>3 DEF Siblings
      <4>2. QED
        BY <2>0, <2>3, <4>1 DEF Siblings
    <3>4. QED
      BY <2>1, <3>1, <3>2, <3>3
  \* Of another: whoever is extracting it is not c.
  <2>4. CASE ~ (RunOf(b) = RunOf(c) /\ e = dep[c])
    <3>1. e < dep[b]
      BY <2>0, <2>a, <2>4
    <3>2. ASSUME NEW k \in Siblings(b), at[k] = "extract" /\ dep[k] = e
          PROVE  at'[k] = "extract" /\ dep'[k] = e
      BY <2>0, <2>4, <3>2 DEF Siblings
    <3>3. deps_dir[RunOf(b)][e] = "whole" \/ \E k \in Siblings(b) : Disturbs(k, e)
      BY <2>0, <3>1 DEF PulledStays
    <3>4. QED
      BY <2>0, <2>2, <3>2, <3>3
  <2>5. QED
    BY <2>3, <2>4
<1>6. ASSUME NEW c \in Calls, RunJob(c)
      PROVE  PulledStays'
  <2>1. /\ UNCHANGED <<deps_dir, dep>>
        /\ \A k \in Calls :
             /\ at[k] = "extract" => at'[k] = "extract" \/ outcome'[k] = "raised"
             /\ outcome[k] = "raised" => outcome'[k] = "raised"
    BY <1>6 DEF RunJob, Goto
  <2>2. QED
    BY <2>1, PulledKept
<1>7. ASSUME NEW c \in Calls, NEW a \in Artifacts, StepOpens(c, a)
      PROVE  PulledStays'
  <2>1. /\ UNCHANGED <<deps_dir, dep>>
        /\ \A k \in Calls :
             /\ at[k] = "extract" => at'[k] = "extract" \/ outcome'[k] = "raised"
             /\ outcome[k] = "raised" => outcome'[k] = "raised"
    BY <1>7 DEF StepOpens, SetFile
  <2>2. QED
    BY <2>1, PulledKept
<1>8. ASSUME NEW c \in Calls, StepWrites(c)
      PROVE  PulledStays'
  <2>1. /\ UNCHANGED <<deps_dir, dep>>
        /\ \A k \in Calls :
             /\ at[k] = "extract" => at'[k] = "extract" \/ outcome'[k] = "raised"
             /\ outcome[k] = "raised" => outcome'[k] = "raised"
    BY <1>8 DEF StepWrites, SetFile
  <2>2. QED
    BY <2>1, PulledKept
<1>9. ASSUME NEW c \in Calls, JobFails(c)
      PROVE  PulledStays'
  <2>1. /\ UNCHANGED <<deps_dir, dep>>
        /\ \A k \in Calls :
             /\ at[k] = "extract" => at'[k] = "extract" \/ outcome'[k] = "raised"
             /\ outcome[k] = "raised" => outcome'[k] = "raised"
    BY <1>9 DEF JobFails, End, Goto
  <2>2. QED
    BY <2>1, PulledKept
<1>10. ASSUME NEW c \in Calls, JobExitsZero(c)
      PROVE  PulledStays'
  <2>1. /\ UNCHANGED <<deps_dir, dep>>
        /\ \A k \in Calls :
             /\ at[k] = "extract" => at'[k] = "extract" \/ outcome'[k] = "raised"
             /\ outcome[k] = "raised" => outcome'[k] = "raised"
    BY <1>10 DEF JobExitsZero, Goto
  <2>2. QED
    BY <2>1, PulledKept
<1>11. ASSUME NEW c \in Calls, NoSuchFile(c)
      PROVE  PulledStays'
  <2>1. /\ UNCHANGED <<deps_dir, dep>>
        /\ \A k \in Calls :
             /\ at[k] = "extract" => at'[k] = "extract" \/ outcome'[k] = "raised"
             /\ outcome[k] = "raised" => outcome'[k] = "raised"
    BY <1>11 DEF NoSuchFile
  <2>2. QED
    BY <2>1, PulledKept
<1>12. ASSUME NEW c \in Calls, ReadFile(c)
      PROVE  PulledStays'
  <2>1. /\ UNCHANGED <<deps_dir, dep>>
        /\ \A k \in Calls :
             /\ at[k] = "extract" => at'[k] = "extract" \/ outcome'[k] = "raised"
             /\ outcome[k] = "raised" => outcome'[k] = "raised"
    BY <1>12 DEF ReadFile, Goto
  <2>2. QED
    BY <2>1, PulledKept
<1>13. ASSUME NEW c \in Calls, PublishCreated(c)
      PROVE  PulledStays'
  <2>1. /\ UNCHANGED <<deps_dir, dep>>
        /\ \A k \in Calls :
             /\ at[k] = "extract" => at'[k] = "extract" \/ outcome'[k] = "raised"
             /\ outcome[k] = "raised" => outcome'[k] = "raised"
    BY <1>13 DEF PublishCreated, Return, Goto
  <2>2. QED
    BY <2>1, PulledKept
<1>14. ASSUME NEW c \in Calls, PublishConflict(c)
      PROVE  PulledStays'
  <2>1. /\ UNCHANGED <<deps_dir, dep>>
        /\ \A k \in Calls :
             /\ at[k] = "extract" => at'[k] = "extract" \/ outcome'[k] = "raised"
             /\ outcome[k] = "raised" => outcome'[k] = "raised"
    BY <1>14 DEF PublishConflict, Return, End, Goto
  <2>2. QED
    BY <2>1, PulledKept
<1>15. ASSUME NEW c \in Calls, ReturnResult(c)
      PROVE  PulledStays'
  <2>1. /\ UNCHANGED <<deps_dir, dep>>
        /\ \A k \in Calls :
             /\ at[k] = "extract" => at'[k] = "extract" \/ outcome'[k] = "raised"
             /\ outcome[k] = "raised" => outcome'[k] = "raised"
    BY <1>15 DEF ReturnResult, End, Goto
  <2>2. QED
    BY <2>1, PulledKept
<1>16. ASSUME NEW c \in Calls, Raises(c)
      PROVE  PulledStays'
  <2>1. /\ UNCHANGED <<deps_dir, dep>>
        /\ \A k \in Calls :
             /\ at[k] = "extract" => at'[k] = "extract" \/ outcome'[k] = "raised"
             /\ outcome[k] = "raised" => outcome'[k] = "raised"
    BY <1>16 DEF Raises, Fault, End, Goto
  <2>2. QED
    BY <2>1, PulledKept
<1>17. ASSUME NEW c \in Calls, PublishFails(c)
      PROVE  PulledStays'
  <2>1. /\ UNCHANGED <<deps_dir, dep>>
        /\ \A k \in Calls :
             /\ at[k] = "extract" => at'[k] = "extract" \/ outcome'[k] = "raised"
             /\ outcome[k] = "raised" => outcome'[k] = "raised"
    BY <1>17 DEF PublishFails, Return, Fault, End, Goto
  <2>2. QED
    BY <2>1, PulledKept
<1>18. CASE UNCHANGED vars
  <2>1. /\ UNCHANGED <<deps_dir, dep>>
        /\ \A k \in Calls :
             /\ at[k] = "extract" => at'[k] = "extract" \/ outcome'[k] = "raised"
             /\ outcome[k] = "raised" => outcome'[k] = "raised"
    BY <1>18 DEF vars
  <2>2. QED
    BY <2>1, PulledKept
<1>19. QED
  BY <1>1, <1>2, <1>3, <1>4, <1>5, <1>6, <1>7, <1>8, <1>9, <1>10, <1>11, <1>12, <1>13,
     <1>14, <1>15, <1>16, <1>17, <1>18
     DEF Next, execute_job, pull_deps, publish_artifact, Container

\* A file is left in the middle only by the job that makes it.
LEMMA StepPartial ==
  TypeOK /\ Progress /\ PartialHasMaker /\ [Next]_vars => PartialHasMaker'
<1> SUFFICES ASSUME TypeOK, Progress, PartialHasMaker, [Next]_vars PROVE PartialHasMaker'
  OBVIOUS
<1> USE DEF TypeOK, States, Rows, Progress, PartialHasMaker, Tears
<1>1. ASSUME NEW c \in Calls, Start(c)
      PROVE  PartialHasMaker'
  BY <1>1 DEF Start, Goto
<1>2. ASSUME NEW c \in Calls, Skip(c)
      PROVE  PartialHasMaker'
  BY <1>2 DEF Skip, End, Goto
<1>3. ASSUME NEW c \in Calls, PullVerified(c)
      PROVE  PartialHasMaker'
  BY <1>3 DEF PullVerified, SetDep, Goto
<1>4. ASSUME NEW c \in Calls, PullMismatch(c)
      PROVE  PartialHasMaker'
  BY <1>4 DEF PullMismatch, Fault, End, Goto
<1>5. ASSUME NEW c \in Calls, Extracted(c)
      PROVE  PartialHasMaker'
  BY <1>5 DEF Extracted, SetDep, Goto
<1>6. ASSUME NEW c \in Calls, RunJob(c)
      PROVE  PartialHasMaker'
  BY <1>6 DEF RunJob, Goto
<1>7. ASSUME NEW c \in Calls, NEW a \in Artifacts, StepOpens(c, a)
      PROVE  PartialHasMaker'
  <2>1. /\ a \in plan.jobs[JobOf(c)].makes /\ writing[c] = 0
        /\ workspace' = [workspace EXCEPT ![RunOf(c)][a] = "partial"]
        /\ writing' = [writing EXCEPT ![c] = a]
        /\ UNCHANGED <<plan, outcome, background>>
    BY <1>7 DEF StepOpens, SetFile
  <2>2. \A k \in Calls, b \in Artifacts : Tears(k, b) => Tears(k, b)'
    BY <2>1
  <2>3. Tears(c, a)'
    BY <2>1
  <2>4. QED
    <3> HIDE DEF Tears
    <3>1. QED
      BY <2>1, <2>2, <2>3
<1>8. ASSUME NEW c \in Calls, StepWrites(c)
      PROVE  PartialHasMaker'
  <2>1. /\ writing[c] \in Artifacts
        /\ workspace' = [workspace EXCEPT ![RunOf(c)][writing[c]] = "whole"]
        /\ writing' = [writing EXCEPT ![c] = 0]
        /\ UNCHANGED <<plan, outcome, background>>
    BY <1>8 DEF StepWrites, SetFile
  <2>2. ASSUME NEW k \in Calls, NEW b \in Artifacts, Tears(k, b), ~ (k = c /\ b = writing[c])
        PROVE  Tears(k, b)'
    BY <2>1, <2>2
  <2>3. QED
    <3> HIDE DEF Tears
    <3>1. QED
      BY <2>1, <2>2
<1>9. ASSUME NEW c \in Calls, JobFails(c)
      PROVE  PartialHasMaker'
  BY <1>9 DEF JobFails, End, Goto
<1>10. ASSUME NEW c \in Calls, JobExitsZero(c)
      PROVE  PartialHasMaker'
  <2>1. /\ background' = background \cup {<<c, a>> : a \in {writing[c]} \ {0}}
        /\ writing' = [writing EXCEPT ![c] = 0]
        /\ UNCHANGED <<plan, outcome, workspace>>
    BY <1>10 DEF JobExitsZero
  <2>2. ASSUME NEW k \in Calls, NEW b \in Artifacts, Tears(k, b)
        PROVE  Tears(k, b)'
    <3>1. CASE k = c /\ writing[c] = b
      <4>1. <<c, b>> \in background'
        BY <2>1, <3>1
      <4>2. QED
        BY <3>1, <4>1
    <3>2. CASE ~ (k = c /\ writing[c] = b)
      BY <2>1, <2>2, <3>2
    <3>3. QED
      BY <3>1, <3>2
  <2>3. QED
    <3> HIDE DEF Tears
    <3>1. QED
      BY <2>1, <2>2
<1>11. ASSUME NEW c \in Calls, NoSuchFile(c)
      PROVE  PartialHasMaker'
  <2>1. UNCHANGED <<plan, outcome, workspace, writing, background>>
    BY <1>11 DEF NoSuchFile
  <2>2. QED
    BY <2>1
<1>12. ASSUME NEW c \in Calls, ReadFile(c)
      PROVE  PartialHasMaker'
  BY <1>12 DEF ReadFile, Goto
<1>13. ASSUME NEW c \in Calls, PublishCreated(c)
      PROVE  PartialHasMaker'
  BY <1>13 DEF PublishCreated, Return, Goto
<1>14. ASSUME NEW c \in Calls, PublishConflict(c)
      PROVE  PartialHasMaker'
  BY <1>14 DEF PublishConflict, Return, End, Goto
<1>15. ASSUME NEW c \in Calls, ReturnResult(c)
      PROVE  PartialHasMaker'
  BY <1>15 DEF ReturnResult, End, Goto
<1>16. ASSUME NEW c \in Calls, Raises(c)
      PROVE  PartialHasMaker'
  BY <1>16 DEF Raises, Fault, End, Goto
<1>17. ASSUME NEW c \in Calls, PublishFails(c)
      PROVE  PartialHasMaker'
  BY <1>17 DEF PublishFails, Return, Fault, End, Goto
<1>18. CASE UNCHANGED vars
  BY <1>18 DEF vars
<1>19. QED
  BY <1>1, <1>2, <1>3, <1>4, <1>5, <1>6, <1>7, <1>8, <1>9, <1>10, <1>11, <1>12, <1>13,
     <1>14, <1>15, <1>16, <1>17, <1>18
     DEF Next, execute_job, pull_deps, publish_artifact, Container

-----------------------------------------------------------------------------

\* Before the first call nothing is pulled, written or published.
LEMMA InitInv == Init => IInv
<1> SUFFICES ASSUME Init PROVE IInv
  OBVIOUS
<1> USE DEF Init
<1>1. plan \in Documents
  BY DEF Plans, JobPlans, CoordinatePlans, Documents
<1>2. TypeOK
  BY <1>1 DEF TypeOK, States
<1>3. Progress
  BY DEF Progress
<1>4. ReportsAreTrue /\ OwnRows /\ RefusedAtRow
  BY DEF ReportsAreTrue, OwnRows, RefusedAtRow
<1>5. PulledStays
  BY DEF PulledStays, Pulled
<1>6. PartialHasMaker
  BY DEF PartialHasMaker
<1>7. QED
  BY <1>2, <1>3, <1>4, <1>5, <1>6 DEF IInv

\* The inductive invariant: execute_job (engine/main.py) in any number of runs
\* and jobs at once keeps all of its parts.
THEOREM Invariance == Spec => []IInv
<1>1. IInv /\ [Next]_vars => IInv'
  BY StepType, StepProgress, StepRows, StepPulled, StepPartial
     DEF IInv
<1>2. QED
  BY InitInv, <1>1, PTL DEF Spec

\* What a job reports as published is in the registry, and it is the job's own
\* upload (publish_artifact).
THEOREM ReportsHold == Spec => []ReportsAreTrue
<1>1. IInv => ReportsAreTrue
  BY DEF IInv
<1>2. QED
  BY <1>1, Invariance, PTL

\* A 409 that fails a job (publish_artifact) is another job's upload, or the
\* job's own of an earlier entry with the same coordinate: no lost answer and no
\* other step of the loop makes a job stand in its own way.
THEOREM RefusalsHaveReasons == Spec => []RefusedForAReason
<1>1. IInv => RefusedForAReason
  <2> SUFFICES ASSUME IInv, NEW c \in Calls, outcome[c] = "refused",
                      rows[Coordinate(c)].by = c
               PROVE  /\ rows[Coordinate(c)].entry < art[c]
                      /\ rows[Coordinate(c)].entry \in published[c]
    BY DEF RefusedForAReason
  <2>1. Coordinate(c) \in Coordinates /\ rows[Coordinate(c)] # NoRow
    BY DEF IInv, TypeOK, Documents, RefusedAtRow, Coordinate
  <2>2. QED
    BY <2>1 DEF IInv, OwnRows
<1>2. QED
  BY <1>1, Invariance, PTL

\* While the steps of a job run every locked dependency lies in the directory
\* the jobs of the run share (pull_deps), unless one of them is extracting or
\* has broken off.
THEOREM DependenciesLieThere == Spec => []DependenciesInPlace
<1>1. IInv => DependenciesInPlace
  <2> SUFFICES ASSUME IInv, NEW c \in Calls, at[c] = "steps",
                      \A k \in Siblings(c) : at[k] # "extract" /\ outcome[k] # "raised",
                      NEW d \in Dependencies
               PROVE  deps_dir[RunOf(c)][d] = "whole"
    BY DEF DependenciesInPlace
  <2>0. dep[c] \in Nat /\ dep[c] > DEPENDENCIES /\ outcome[c] = "none"
    BY DEF IInv, TypeOK, Progress
  <2>1. d < dep[c] /\ outcome[c] # "raised"
    BY <2>0
  <2>2. \A k \in Siblings(c) : ~ Disturbs(k, d)
    BY DEF Disturbs
  <2>3. QED
    BY <2>1, <2>2 DEF IInv, PulledStays, Pulled
<1>2. QED
  BY <1>1, Invariance, PTL

\* A torn artifact is read (execute_job) beside the job that makes it, after that
\* job was stopped, or after a job that left a process behind to write it; one
\* that closed what it wrote never reads its own artifact torn.
THEOREM TornHasACause == Spec => TornHasCause
<1>1. IInv /\ [Next]_vars =>
        [\A c \in Calls : data'[c] = "partial" /\ data[c] # "partial" =>
           \/ \E k \in Siblings(c) :
                /\ art[c] \in plan.jobs[JobOf(k)].makes
                /\ writing[k] = art[c] \/ outcome[k] \in {"failed", "raised"}
           \/ \E k \in Siblings(c) \cup {c} : <<k, art[c]>> \in background]_vars
  <2> SUFFICES ASSUME IInv, Next, NEW c \in Calls,
                      data'[c] = "partial", data[c] # "partial"
               PROVE  \/ \E k \in Siblings(c) :
                           /\ art[c] \in plan.jobs[JobOf(k)].makes
                           /\ writing[k] = art[c] \/ outcome[k] \in {"failed", "raised"}
                      \/ \E k \in Siblings(c) \cup {c} : <<k, art[c]>> \in background
    OBVIOUS
  \* Only reading a file makes a call hold half of one.
  <2>1. ReadFile(c)
    <3>1. PICK b \in Calls : data' = data \/ data' = [data EXCEPT ![b] = "absent"] \/ ReadFile(b)
      BY DEF Next, execute_job, pull_deps, publish_artifact, Container, Start, Skip,
             PullVerified, PullMismatch, Extracted, RunJob, StepOpens, StepWrites, JobFails,
             JobExitsZero, NoSuchFile, PublishCreated, PublishConflict, ReturnResult, Raises,
             PublishFails, Return
    <3>2. QED
      BY <3>1 DEF ReadFile, IInv, TypeOK
  <2>2. workspace[RunOf(c)][art[c]] = "partial" /\ art[c] \in Artifacts
    BY <2>1 DEF ReadFile, IInv, TypeOK
  <2>3. PICK k \in Calls : RunOf(k) = RunOf(c) /\ Tears(k, art[c])
    BY <2>2 DEF IInv, PartialHasMaker
  <2>4. CASE <<k, art[c]>> \in background
    BY <2>3, <2>4 DEF Siblings
  \* The reader is at "publish": it is not writing, and it has not ended.
  <2>5. CASE <<k, art[c]>> \notin background
    <3>1. writing[c] = 0 /\ outcome[c] = "none"
      BY <2>1 DEF ReadFile, IInv, TypeOK, Progress
    <3>2. k # c
      BY <2>2, <2>3, <2>5, <3>1 DEF Tears
    <3>3. QED
      BY <2>3, <2>5, <3>2 DEF Siblings, Tears
  <2>6. QED
    BY <2>4, <2>5
<1>2. QED
  BY <1>1, Invariance, PTL DEF Spec, TornHasCause
=============================================================================
