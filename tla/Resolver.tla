------------------------------- MODULE Resolver -------------------------------
(***************************************************************************)
(* DependencyResolver.resolve (registry/resolver.py): the depth first walk *)
(* over the packages of a registry that chooses one version of each.  The  *)
(* recursion of resolve_name is a stack of frames; the answers of the      *)
(* registry are inputs, taken when the resolver asks, so that packages may *)
(* be published while it works.  A package is asked for at most once, so   *)
(* every registry and every moment of publication is among the behaviours. *)
(*                                                                         *)
(* A package is its place in alphabetical order and a version its place in *)
(* the order of version_key; a constraint is the set of the versions that  *)
(* satisfy it.                                                             *)
(***************************************************************************)
EXTENDS Integers, Sequences, FiniteSets

CONSTANTS
  Packages,     \* package names
  Versions,     \* versions of any package
  Constraints,  \* the constraints that occur
  MAX_DEPS,     \* bound on the dependencies of one version
  Pipeline      \* requirements of the pipeline itself come via it

ASSUME NamesAssumption ==
  /\ Packages \subseteq Nat
  /\ Versions \subseteq Nat
  /\ Constraints \subseteq SUBSET Versions
  /\ MAX_DEPS \in Nat
  /\ Pipeline \notin Packages

Deps == [name : Packages, constraint : Constraints]
DepSets == {D \in SUBSET Deps : Cardinality(D) <= MAX_DEPS}

VARIABLES
  requirements,  \* requirements[p]: what has been asked of p so far
  resolved,      \* the packages resolved so far, as functions of the name
  stack,         \* path_stack with the locals of each call; visiting is its range
  todo,          \* names the loop of _resolve_graph has not come to
  outcome,       \* running, locked, or how resolve raised
  listed,        \* what list_versions answered for p
  cycle,         \* CycleError.cycle
  conflicting    \* the package ConflictError names

vars == <<requirements, resolved, stack, todo, outcome, listed, cycle, conflicting>>

Frame(name) ==
  [name |-> name, at |-> "select", version |-> 0, deps |-> {}, pending |-> {}]

visiting == {stack[i].name : i \in DOMAIN stack}
Top == stack[Len(stack)]
Below == SubSeq(stack, 1, Len(stack) - 1)
Satisfies(v, reqs) == \A r \in reqs : v \in r.constraint

Init ==
  \E root_deps \in SUBSET Deps :
    /\ Cardinality(root_deps) <= MAX_DEPS
    /\ requirements = [p \in Packages |->
         {[constraint |-> d.constraint, via |-> Pipeline] :
            d \in {e \in root_deps : e.name = p}}]
    /\ todo = {d.name : d \in root_deps}
    /\ resolved = [p \in {} |-> 0]
    /\ stack = <<>>
    /\ outcome = "running"
    /\ listed = [p \in Packages |-> {}]
    /\ cycle = <<>>
    /\ conflicting = {}

-----------------------------------------------------------------------------

\* An exception leaves through every call; only what it carries remains.
Raise(kind) ==
  /\ outcome' = kind
  /\ stack' = <<>>
  /\ UNCHANGED <<resolved, todo>>

\* Mutant: a name that is resolved stays in the loop.
NextRootAgain ==
  /\ outcome = "running" /\ stack = <<>>
  /\ \E name \in todo :
       /\ \A n \in todo : name <= n
       /\ name \notin DOMAIN resolved
       /\ stack' = <<Frame(name)>>
  /\ UNCHANGED <<requirements, resolved, todo, outcome, listed, cycle, conflicting>>

\* The loop over sorted(requirements.keys()): the next name in the alphabet.
NextRoot ==
  /\ outcome = "running" /\ stack = <<>>
  /\ \E name \in todo :
       /\ \A n \in todo : name <= n
       /\ todo' = todo \ {name}
       /\ stack' = IF name \in DOMAIN resolved THEN <<>> ELSE <<Frame(name)>>
  /\ UNCHANGED <<requirements, resolved, outcome, listed, cycle, conflicting>>

\* The versions among the available ones that satisfy all requirements.
Candidates(available) ==
  {v \in available : Satisfies(v, requirements[Top.name])}

\* Mutant: the sort of the candidates is not reversed.
IsChosenLowest(v, candidates) == v \in candidates /\ \A w \in candidates : v <= w

\* candidates.sort(reverse=True); candidates[0]
IsChosen(v, candidates) == v \in candidates /\ \A w \in candidates : w <= v

\* _select_version, for the answer of list_versions.  A package without
\* constraints (resolver.py:517) cannot come here: Follow records first.
SelectVersion ==
  /\ outcome = "running" /\ stack # <<>> /\ Top.at = "select"
  /\ \E available \in SUBSET Versions :
       /\ listed' = [listed EXCEPT ![Top.name] = available]
       /\ \/ /\ available = {}
             /\ Raise("not_found")
             /\ UNCHANGED conflicting
          \/ /\ available # {} /\ Candidates(available) = {}
             /\ Raise("conflict")
             /\ conflicting' = {Top.name}
          \/ \E v \in available :
               /\ IsChosen(v, Candidates(available))
               /\ stack' = Append(Below, [Top EXCEPT !.at = "fetch", !.version = v])
               /\ UNCHANGED <<resolved, todo, outcome, conflicting>>
  /\ UNCHANGED <<requirements, cycle>>

\* get_metadata answers with the dependencies of the selected version.
GetMetadata ==
  /\ outcome = "running" /\ stack # <<>> /\ Top.at = "fetch"
  /\ \E deps \in DepSets :
       stack' = Append(Below,
                  [Top EXCEPT !.at = "deps", !.deps = deps, !.pending = deps])
  /\ UNCHANGED <<requirements, resolved, todo, outcome, listed, cycle, conflicting>>

\* get_metadata is answered 404: the version that was listed is not there.
MetadataNotFound ==
  /\ outcome = "running" /\ stack # <<>> /\ Top.at = "fetch"
  /\ Raise("not_found")
  /\ UNCHANGED <<requirements, listed, cycle, conflicting>>

\* An HTTP error or timeout (HttpRegistryClient): not a ResolutionError, and
\* nothing here catches it.  (Where Known lists the versions again for its
\* message, ConstraintUnreadable stands for this failure.)
RequestFails ==
  /\ outcome = "running" /\ stack # <<>>
  /\ Top.at \in {"select", "fetch"}
  /\ Raise("error")
  /\ UNCHANGED <<requirements, listed, cycle, conflicting>>

\* ConstraintSet.from_string cannot read a constraint, of the pipeline before
\* the walk or of a package within it: a ValueError, not caught either.
ConstraintUnreadable ==
  /\ outcome = "running"
  /\ \/ stack = <<>> /\ DOMAIN resolved = {} /\ todo # {}
     \/ stack # <<>> /\ Top.at = "deps" /\ Top.pending # {}
  /\ Raise("error")
  /\ UNCHANGED <<requirements, listed, cycle, conflicting>>

-----------------------------------------------------------------------------
(* The loop over the dependencies of the package on top of the stack *)

\* Mutant: the slice starts one package too late.
CycleAfter(name) ==
  LET start == CHOOSE i \in DOMAIN stack : stack[i].name = name
  IN [i \in 1..(Len(stack) - start) |-> stack[start + i].name]

\* path_stack[cycle_start:]
CycleTo(name) ==
  LET start == CHOOSE i \in DOMAIN stack : stack[i].name = name
  IN [i \in 1..(Len(stack) - start + 1) |-> stack[start + i - 1].name]

IsNext(dep) == dep \in Top.pending /\ \A d \in Top.pending : dep.name <= d.name

AddRequirement(dep) ==
  requirements' = [requirements EXCEPT ![dep.name] =
    @ \cup {[constraint |-> dep.constraint, via |-> Top.name]}]

\* The frame of the caller once dep is dealt with.
Past(dep) == Append(Below, [Top EXCEPT !.pending = @ \ {dep}])

Cyclic(dep) ==
  /\ dep.name \in visiting
  /\ Raise("cycle")
  /\ cycle' = CycleTo(dep.name)
  /\ UNCHANGED conflicting

\* Mutant: a package that is resolved is taken as it is.
KnownUnchecked(dep) ==
  /\ dep.name \in DOMAIN resolved
  /\ stack' = Past(dep)
  /\ UNCHANGED <<resolved, todo, outcome, cycle, conflicting>>

\* Mutant: only a requirement that was there before passes.
KnownRefused(dep) ==
  /\ dep.name \in DOMAIN resolved \ visiting
  /\ UNCHANGED cycle
  /\ \/ /\ requirements'[dep.name] = requirements[dep.name]
        /\ stack' = Past(dep)
        /\ UNCHANGED <<resolved, todo, outcome, conflicting>>
     \/ /\ requirements'[dep.name] # requirements[dep.name]
        /\ Raise("conflict")
        /\ conflicting' = {dep.name}

\* resolve_name of a package that has its version: every requirement again.
Known(dep) ==
  /\ dep.name \in DOMAIN resolved \ visiting
  /\ UNCHANGED cycle
  /\ \/ /\ Satisfies(resolved[dep.name].version, requirements'[dep.name])
        /\ stack' = Past(dep)
        /\ UNCHANGED <<resolved, todo, outcome, conflicting>>
     \/ /\ ~Satisfies(resolved[dep.name].version, requirements'[dep.name])
        /\ Raise("conflict")
        /\ conflicting' = {dep.name}

Fresh(dep) ==
  /\ dep.name \notin DOMAIN resolved \cup visiting
  /\ stack' = Append(Past(dep), Frame(dep.name))
  /\ UNCHANGED <<resolved, todo, outcome, cycle, conflicting>>

Follow ==
  /\ outcome = "running" /\ stack # <<>> /\ Top.at = "deps"
  /\ \E dep \in Top.pending :
       /\ IsNext(dep)
       /\ AddRequirement(dep)
       /\ Cyclic(dep) \/ Known(dep) \/ Fresh(dep)
  /\ UNCHANGED listed

\* All dependencies resolved: the package joins them and resolve_name returns.
ReturnResolved ==
  /\ outcome = "running" /\ stack # <<>> /\ Top.at = "deps" /\ Top.pending = {}
  /\ resolved' = [p \in DOMAIN resolved \cup {Top.name} |->
       IF p = Top.name THEN [version |-> Top.version, deps |-> Top.deps]
                       ELSE resolved[p]]
  /\ stack' = Below
  /\ UNCHANGED <<requirements, todo, outcome, listed, cycle, conflicting>>

\* _build_lockfile: the packages resolved, with their versions.
BuildLockfile ==
  /\ outcome = "running" /\ stack = <<>> /\ todo = {}
  /\ outcome' = "locked"
  /\ UNCHANGED <<requirements, resolved, stack, todo, listed, cycle, conflicting>>

Next ==
  \/ NextRoot \/ SelectVersion \/ GetMetadata
  \/ MetadataNotFound \/ RequestFails \/ ConstraintUnreadable
  \/ Follow \/ ReturnResolved \/ BuildLockfile

\* One thread runs resolve to its end: every request has a timeout of 30 s.
Spec == Init /\ [][Next]_vars /\ WF_vars(Next)

-----------------------------------------------------------------------------
(* Properties *)

\* A lockfile is complete and consistent (resolve): every package the pipeline
\* names is locked, so is every dependency of a locked package, and each locked
\* version satisfies the constraint of the pipeline and of every locked package
\* that depends on it, whatever the order in which the walk met them.  Nothing
\* else is locked: a package only for the pipeline or for a package that is
\* locked at a version with that dependency.
LockfileSound ==
  outcome = "locked" =>
    \A p \in Packages :
      /\ \A r \in requirements[p] : r.via = Pipeline =>
           p \in DOMAIN resolved /\ resolved[p].version \in r.constraint
      /\ p \in DOMAIN resolved =>
           \A d \in resolved[p].deps :
             /\ d.name \in DOMAIN resolved
             /\ resolved[d.name].version \in d.constraint
      /\ p \in DOMAIN resolved =>
           \E r \in requirements[p] :
             \/ r.via = Pipeline
             \/ /\ r.via \in DOMAIN resolved \ {p}
                /\ [name |-> p, constraint |-> r.constraint] \in resolved[r.via].deps

\* "Highest version wins" (_select_version): of the versions the registry
\* listed, none above the chosen one meets all requirements, the ones that came
\* after the choice included.
LockedIsHighest ==
  outcome \in {"running", "locked"} =>
    \A p \in DOMAIN resolved :
      /\ resolved[p].version \in listed[p]
      /\ \A v \in listed[p] :
           Satisfies(v, requirements[p]) => v <= resolved[p].version

\* The cycle that resolve names is one, and all of it: each package was selected
\* at a version that depends on the next, and the last on the first.
CyclesAreReal ==
  [][outcome' = "cycle" =>
       /\ cycle' # <<>>
       /\ \A i \in DOMAIN cycle' :
            LET next == cycle'[IF i = Len(cycle') THEN 1 ELSE i + 1] IN
            \E f \in {stack[k] : k \in DOMAIN stack} :
              f.name = cycle'[i] /\ \E d \in f.deps : d.name = next]_vars

\* resolve returns or raises, whatever the registry answers (_resolve_graph).
Terminates == <>(outcome # "running")

\* A conflict (resolver.py:479, "no single version satisfies all constraints") is
\* raised only where choosing the highest version and never going back leaves
\* none: for one of the requirements of the package, each listed version that
\* meets it and all others is below another that met the others.
ConflictsAreGreedy ==
  [][outcome' = "conflict" =>
       \A p \in conflicting' : \E r \in requirements'[p] :
         LET others == {v \in listed'[p] : Satisfies(v, requirements'[p] \ {r})} IN
         \A v \in others : v \in r.constraint => \E w \in others : w > v]_vars
=============================================================================
