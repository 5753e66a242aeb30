---------------------------- MODULE SchedulerPlan ----------------------------
(***************************************************************************)
(* DAGScheduler.__init__ and get_execution_plan (engine/scheduler.py),     *)
(* statement by statement where the algorithms decide something: the depth *)
(* first search for cycles with its explicit call stack, Kahn's sort, and  *)
(* the grouping of the sorted jobs into levels.  PipelineRun takes from    *)
(* here that a plan exists exactly for acyclic pipelines and what its      *)
(* levels are.                                                             *)
(***************************************************************************)
EXTENDS Integers, Sequences, SequencesExt, FiniteSets

CONSTANTS
  N,         \* number of jobs; a job is its position in the jobs mapping
  MAX_NEEDS  \* bound on the length of a "needs" list, duplicates included

ASSUME SizeAssumption == N \in Nat \ {0} /\ MAX_NEEDS \in Nat

Jobs == 1..N

\* The parser lets through lists of existing other jobs, repeated ones too.
NeedsLists(j) == SeqOf(Jobs \ {j}, MAX_NEEDS)

VARIABLES
  needs,        \* JobNode.needs
  phase,        \* where the constructor or get_execution_plan is
  root,         \* the next job the loop of _detect_cycles looks at
  stack,        \* the active calls of dfs: node, position in its needs
  visiting, visited, cycles_found,
  in_degree, queue, sorted_jobs,
  levels, processed

dfs == <<root, stack, visiting, visited, cycles_found>>
kahn == <<in_degree, queue, sorted_jobs>>
plan == <<levels, processed>>
planVars == <<needs, phase, dfs, kahn, plan>>

NeedsOf(j) == Range(needs[j])

\* How often j lists the job d: also how often d lists j as a dependent.
Listed(j, d) == Cardinality({i \in DOMAIN needs[j] : needs[j][i] = d})

\* [x for x in s if x in kept]: SelectSeq, in a form that proofs can expand.
Filter(s, kept) ==
  LET places == {i \in DOMAIN s : s[i] \in kept}
      At(k) == CHOOSE i \in places : Cardinality({m \in places : m <= i}) = k
  IN [k \in 1..Cardinality(places) |-> s[At(k)]]

PlanInit ==
  /\ needs \in {f \in [Jobs -> UNION {NeedsLists(j) : j \in Jobs}] :
                  \A j \in Jobs : j \notin Range(f[j])}
  /\ phase = "dfs"
  /\ root = 1 /\ stack = <<>>
  /\ visiting = {} /\ visited = {} /\ cycles_found = <<>>
  /\ in_degree = [j \in Jobs |-> 0] /\ queue = <<>> /\ sorted_jobs = <<>>
  /\ levels = <<>> /\ processed = {}

-----------------------------------------------------------------------------
(* _detect_cycles *)

Frame(node) == [node |-> node, next |-> 1]
Path == [i \in DOMAIN stack |-> stack[i].node]
PlaceOnPath(dep) == SelectInSeq(Path, LAMBDA n : n = dep)

\* path[cycle_start:] + [node]
CycleAt(dep) == Append(SubSeq(Path, PlaceOnPath(dep), Len(Path)), dep)

\* Mutant: only jobs without needs are roots of the search.
StartSearchAtSources ==
  /\ phase = "dfs" /\ stack = <<>> /\ root \in Jobs
  /\ root' = root + 1
  /\ IF root \in visited \/ needs[root] # <<>>
       THEN UNCHANGED <<stack, visiting>>
       ELSE stack' = <<Frame(root)>> /\ visiting' = visiting \cup {root}
  /\ UNCHANGED <<needs, phase, visited, cycles_found, kahn, plan>>

\* Mutant: a job seen before does not move the loop on.
StartSearchStuck ==
  /\ phase = "dfs" /\ stack = <<>> /\ root \in Jobs
  /\ IF root \in visited
       THEN UNCHANGED <<root, stack, visiting>>
       ELSE /\ root' = root + 1
            /\ stack' = <<Frame(root)>>
            /\ visiting' = visiting \cup {root}
  /\ UNCHANGED <<needs, phase, visited, cycles_found, kahn, plan>>

StartSearch ==
  /\ phase = "dfs" /\ stack = <<>> /\ root \in Jobs
  /\ root' = root + 1
  /\ IF root \in visited
       THEN UNCHANGED <<stack, visiting>>
       ELSE stack' = <<Frame(root)>> /\ visiting' = visiting \cup {root}
  /\ UNCHANGED <<needs, phase, visited, cycles_found, kahn, plan>>

\* The call dfs(dep, path): a cycle, a job seen before, or a new job.
Descend ==
  /\ phase = "dfs" /\ stack # <<>>
  /\ LET top == Last(stack)
         rest == [stack EXCEPT ![Len(stack)].next = @ + 1]
     IN /\ top.next <= Len(needs[top.node])
        /\ LET dep == needs[top.node][top.next] IN
             \/ /\ dep \in visiting
                /\ stack' = rest
                /\ cycles_found' = Append(cycles_found, CycleAt(dep))
                /\ UNCHANGED visiting
             \/ /\ dep \in visited \ visiting
                /\ stack' = rest
                /\ UNCHANGED <<cycles_found, visiting>>
             \/ /\ dep \notin visited \cup visiting
                /\ stack' = Append(rest, Frame(dep))
                /\ visiting' = visiting \cup {dep}
                /\ UNCHANGED cycles_found
  /\ UNCHANGED <<needs, phase, root, visited, kahn, plan>>

ReturnFromNode ==
  /\ phase = "dfs" /\ stack # <<>>
  /\ LET top == Last(stack) IN
       /\ top.next > Len(needs[top.node])
       /\ stack' = Front(stack)
       /\ visiting' = visiting \ {top.node}
       /\ visited' = visited \cup {top.node}
  /\ UNCHANGED <<needs, phase, root, cycles_found, kahn, plan>>

InDegrees == [j \in Jobs |-> Len(needs[j])]

\* The ValueError of the constructor, or the start of _topological_sort.
SearchDone ==
  /\ phase = "dfs" /\ stack = <<>> /\ root \notin Jobs
  /\ IF cycles_found # <<>>
       THEN phase' = "cycle_error" /\ UNCHANGED kahn
       ELSE /\ phase' = "kahn"
            /\ in_degree' = InDegrees
            /\ queue' = Filter([j \in Jobs |-> j], {j \in Jobs : InDegrees[j] = 0})
            /\ UNCHANGED sorted_jobs
  /\ UNCHANGED <<needs, dfs, plan>>

-----------------------------------------------------------------------------
(* _topological_sort *)

\* One turn of the loop: the dependents are listed in the order of the jobs,
\* once per occurrence in their needs.
SortNext ==
  /\ phase = "kahn" /\ queue # <<>>
  /\ LET job == Head(queue)
         lowered == [d \in Jobs |-> in_degree[d] - Listed(d, job)]
     IN /\ sorted_jobs' = Append(sorted_jobs, job)
        /\ in_degree' = lowered
        /\ queue' = Tail(queue) \o
             Filter([d \in Jobs |-> d], {d \in Jobs : Listed(d, job) > 0 /\ lowered[d] = 0})
  /\ UNCHANGED <<needs, phase, dfs, plan>>

SortDone ==
  /\ phase = "kahn" /\ queue = <<>>
  /\ phase' = IF Len(sorted_jobs) = N THEN "plan" ELSE "sort_error"
  /\ UNCHANGED <<needs, dfs, kahn, plan>>

-----------------------------------------------------------------------------
(* get_execution_plan *)

\* Mutant: processed is extended while the level is being filled.
CurrentLevelEager == Filter(sorted_jobs, Jobs \ processed)

CurrentLevel ==
  Filter(sorted_jobs, {j \in Jobs \ processed : NeedsOf(j) \subseteq processed})

NextLevel ==
  /\ phase = "plan" /\ Cardinality(processed) < N
  /\ IF CurrentLevel = <<>>
       THEN phase' = "deadlock_error" /\ UNCHANGED plan
       ELSE /\ levels' = Append(levels, CurrentLevel)
            /\ processed' = processed \cup Range(CurrentLevel)
            /\ UNCHANGED phase
  /\ UNCHANGED <<needs, dfs, kahn>>

PlanDone ==
  /\ phase = "plan" /\ Cardinality(processed) = N
  /\ phase' = "ready"
  /\ UNCHANGED <<needs, dfs, kahn, plan>>

-----------------------------------------------------------------------------

Final == {"cycle_error", "sort_error", "deadlock_error", "ready"}

Step == \/ StartSearch \/ Descend \/ ReturnFromNode \/ SearchDone
        \/ SortNext \/ SortDone \/ NextLevel \/ PlanDone

PlanNext == Step \/ (phase \in Final /\ UNCHANGED planVars)

PlanSpec == PlanInit /\ [][PlanNext]_planVars

\* A sequential program that is not stopped.
FairPlanSpec == PlanSpec /\ WF_planVars(Step)

-----------------------------------------------------------------------------
(* Properties *)

\* As in PipelineRun: no set of jobs each of which needs one of the set.
Acyclic ==
  ~ \E S \in SUBSET Jobs : S # {} /\ \A j \in S : NeedsOf(j) \cap S # {}

\* The constructor raises for exactly the pipelines with a cycle, whatever
\* the order of the jobs and of their needs, repeated needs included; and what
\* the message calls a cycle is one: every job on it needs the next one, and it
\* ends where it begins.
RaisesExactlyOnCycles ==
  /\ phase = "cycle_error" => ~ Acyclic
  /\ phase \in {"kahn", "plan", "ready"} => Acyclic
  /\ \A c \in Range(cycles_found) :
       /\ Len(c) > 1 /\ Head(c) = Last(c)
       /\ \A i \in 1..(Len(c) - 1) : c[i + 1] \in NeedsOf(c[i])

\* A pipeline without a cycle gets a plan (scheduler.py:134 "should be caught
\* earlier" and :165 "shouldn't happen if DAG is valid": neither happens), which
\* holds every job in exactly one level, and as early as its needs allow: they
\* are all in earlier levels, one of them in the level before.
PlanIsGreedy ==
  /\ phase \notin {"sort_error", "deadlock_error"}
  /\ phase = "ready" =>
    /\ UNION {Range(levels[k]) : k \in DOMAIN levels} = Jobs
    /\ \A k, m \in DOMAIN levels : \A i \in DOMAIN levels[k], l \in DOMAIN levels[m] :
         levels[k][i] = levels[m][l] => k = m /\ i = l
    /\ \A k \in DOMAIN levels : \A j \in Range(levels[k]) :
         /\ NeedsOf(j) \subseteq UNION {Range(levels[m]) : m \in 1..(k - 1)}
         /\ k > 1 => NeedsOf(j) \cap Range(levels[k - 1]) # {}

\* The constructor and the plan come to an end for every pipeline.
Terminates == <>(phase \in Final)
=============================================================================
