--------------------------- MODULE Resolver_proofs ---------------------------
(***************************************************************************)
(* The resolver's walk: the inductive invariant of Resolver and what       *)
(* follows from it of the lockfile and of the errors, for any packages,    *)
(* versions and constraints and whatever the registry answers.             *)
(***************************************************************************)
EXTENDS Resolver, TLAPS, SequenceTheorems

Frames ==
  [name : Packages, at : {"select", "fetch", "deps"}, version : Nat,
   deps : SUBSET Deps, pending : SUBSET Deps]
Locks == [version : Nat, deps : SUBSET Deps]
Requirements == [constraint : Constraints, via : Packages \cup {Pipeline}]

TypeOK ==
  /\ requirements \in [Packages -> SUBSET Requirements]
  /\ resolved \in [DOMAIN resolved -> Locks] /\ DOMAIN resolved \subseteq Packages
  /\ stack \in Seq(Frames)
  /\ todo \in SUBSET Packages
  /\ outcome \in {"running", "locked", "not_found", "conflict", "cycle", "error"}
  /\ listed \in [Packages -> SUBSET Versions]

\* The calls under way: each is in its loop, at the dependency that the next
\* one resolves.
Calls ==
  /\ \A i \in DOMAIN stack :
       /\ stack[i].at # "deps" => stack[i].deps = {}
       /\ stack[i].pending \subseteq stack[i].deps
       /\ stack[i].name \notin DOMAIN resolved
       /\ i < Len(stack) =>
            /\ stack[i].at = "deps"
            /\ \E d \in stack[i].deps : d.name = stack[i + 1].name
  /\ \A i, k \in DOMAIN stack : stack[i].name = stack[k].name => i = k
  /\ outcome # "running" => stack = <<>>
  /\ outcome = "locked" => todo = {}

Goes == outcome \in {"running", "locked"}

\* A version that was chosen stays the highest that all requirements allow.
Chosen(v, p) ==
  /\ v \in listed[p] /\ Satisfies(v, requirements[p])
  /\ \A w \in listed[p] : Satisfies(w, requirements[p]) => w <= v

Choices ==
  Goes =>
    /\ \A p \in DOMAIN resolved : Chosen(resolved[p].version, p)
    /\ \A i \in DOMAIN stack :
         stack[i].at # "select" => Chosen(stack[i].version, stack[i].name)

\* A dependency that was dealt with has left its requirement and is resolved,
\* or is being resolved by the next call.
Recorded(d, p) == [constraint |-> d.constraint, via |-> p] \in requirements[d.name]

Edges ==
  Goes =>
    /\ \A p \in DOMAIN resolved : \A d \in resolved[p].deps :
         d.name \in DOMAIN resolved /\ Recorded(d, p)
    /\ \A i \in DOMAIN stack : \A d \in stack[i].deps \ stack[i].pending :
         /\ Recorded(d, stack[i].name)
         /\ \/ d.name \in DOMAIN resolved
            \/ i < Len(stack) /\ d.name = stack[i + 1].name

\* Where a requirement comes from, and that it is or will be met.
Needs(deps, p, r) == [name |-> p, constraint |-> r.constraint] \in deps

Origin(r, p) ==
  \/ r.via = Pipeline /\ p \in todo \cup DOMAIN resolved \cup visiting
  \/ r.via \in DOMAIN resolved \ {p} /\ Needs(resolved[r.via].deps, p, r)
  \/ \E i \in DOMAIN stack :
       stack[i].name = r.via /\ r.via # p /\ Needs(stack[i].deps, p, r)

Origins ==
  Goes =>
    /\ \A p \in Packages : \A r \in requirements[p] : Origin(r, p)
    /\ \A p \in todo \cup DOMAIN resolved \cup visiting : requirements[p] # {}

IInv == TypeOK /\ Calls /\ Choices /\ Edges /\ Origins

-----------------------------------------------------------------------------
(* The stack *)

\* The call on top and those below it.
LEMMA StackParts ==
  ASSUME stack \in Seq(Frames), stack # <<>>
  PROVE  /\ Len(stack) \in Nat \ {0} /\ DOMAIN stack = 1..Len(stack)
         /\ Top \in Frames /\ Top = stack[Len(stack)] /\ Len(stack) \in DOMAIN stack
         /\ Below \in Seq(Frames) /\ Len(Below) = Len(stack) - 1
         /\ DOMAIN Below = 1..(Len(stack) - 1)
         /\ \A i \in 1..(Len(stack) - 1) : Below[i] = stack[i]
<1>1. /\ Len(stack) \in Nat \ {0} /\ DOMAIN stack = 1..Len(stack)
      /\ Top = stack[Len(stack)] /\ Len(stack) \in DOMAIN stack
      /\ \A i \in 1..Len(stack) : stack[i] \in Frames
  BY DEF Top
<1>2. /\ Below \in Seq(Frames) /\ Len(Below) = Len(stack) - 1
      /\ \A i \in 1..(Len(stack) - 1) : Below[i] = stack[i]
  BY <1>1, SubSeqProperties DEF Below
<1>3. DOMAIN Below = 1..(Len(stack) - 1)
  BY <1>1, <1>2
<1>4. QED
  BY <1>1, <1>2, <1>3

\* The frame on top becomes another one.
TopBecomes(x) ==
  /\ stack' \in Seq(Frames) /\ DOMAIN stack' = DOMAIN stack /\ Len(stack') = Len(stack)
  /\ stack'[Len(stack)] = x
  /\ \A i \in 1..(Len(stack) - 1) : stack'[i] = stack[i]

\* A frame in the place of the one on top.
LEMMA PutTop ==
  ASSUME stack \in Seq(Frames), stack # <<>>, NEW x \in Frames, stack' = Append(Below, x)
  PROVE  TopBecomes(x)
<1>0. /\ Below \in Seq(Frames) /\ Len(Below) = Len(stack) - 1
      /\ Len(stack) \in Nat \ {0} /\ DOMAIN stack = 1..Len(stack)
      /\ \A i \in 1..(Len(stack) - 1) : Below[i] = stack[i]
  BY StackParts
<1>1. Len(Below) \in Nat /\ Len(Below) + 1 = Len(stack)
  BY <1>0
<1>2. /\ stack' \in Seq(Frames) /\ Len(stack') = Len(Below) + 1
      /\ stack'[Len(Below) + 1] = x
      /\ \A i \in 1..Len(Below) : stack'[i] = Below[i]
  BY <1>0, AppendProperties
<1>3. QED
  BY <1>0, <1>1, <1>2 DEF TopBecomes

\* A frame for another call is put upon it.
Calling(x, y) ==
  /\ stack' \in Seq(Frames) /\ Len(stack') = Len(stack) + 1
  /\ DOMAIN stack' = 1..(Len(stack) + 1)
  /\ stack'[Len(stack)] = x /\ stack'[Len(stack) + 1] = y
  /\ \A i \in 1..(Len(stack) - 1) : stack'[i] = stack[i]

\* A frame in the place of the one on top, and another upon it.
LEMMA PutCall ==
  ASSUME stack \in Seq(Frames), stack # <<>>, NEW x \in Frames, NEW y \in Frames,
         stack' = Append(Append(Below, x), y)
  PROVE  Calling(x, y)
<1> DEFINE s == Append(Below, x)
<1>0. /\ Below \in Seq(Frames) /\ Len(Below) = Len(stack) - 1
      /\ Len(stack) \in Nat \ {0}
      /\ \A i \in 1..(Len(stack) - 1) : Below[i] = stack[i]
  BY StackParts
<1>1. Len(Below) \in Nat /\ Len(Below) + 1 = Len(stack)
  BY <1>0
<1>2. /\ s \in Seq(Frames) /\ Len(s) = Len(Below) + 1
      /\ s[Len(Below) + 1] = x
      /\ \A i \in 1..Len(Below) : s[i] = Below[i]
  BY <1>0, AppendProperties
<1>3. stack' = Append(s, y)
  OBVIOUS
<1> HIDE DEF s
<1>4. /\ stack' \in Seq(Frames) /\ Len(stack') = Len(s) + 1
      /\ stack'[Len(s) + 1] = y
      /\ \A i \in 1..Len(s) : stack'[i] = s[i]
  BY <1>2, <1>3, AppendProperties
<1>5. QED
  BY <1>0, <1>1, <1>2, <1>4 DEF Calling

\* A call begins with nothing selected.
LEMMA FrameParts ==
  ASSUME NEW name \in Packages
  PROVE  /\ Frame(name) \in Frames /\ Frame(name).name = name
         /\ Frame(name).at = "select" /\ Frame(name).deps = {} /\ Frame(name).pending = {}
BY DEF Frame, Frames

-----------------------------------------------------------------------------
(* The steps *)

USE NamesAssumption

\* An exception.
Raised ==
  /\ outcome' \in {"not_found", "conflict", "cycle", "error"}
  /\ stack' = <<>>
  /\ UNCHANGED <<resolved, todo>>

\* A root is passed over, or its call begins.
Skipped(name) == stack' = <<>> /\ name \in DOMAIN resolved

Rooted(name) ==
  /\ name \notin DOMAIN resolved
  /\ stack' \in Seq(Frames) /\ Len(stack') = 1 /\ DOMAIN stack' = {1}
  /\ stack'[1] = Frame(name)

\* NextRoot takes the name from todo; its call begins unless it is resolved.
LEMMA RootEffect ==
  ASSUME TypeOK, NextRoot
  PROVE  \E name \in todo :
           /\ name \in Packages /\ todo' = todo \ {name}
           /\ outcome = "running" /\ stack = <<>>
           /\ Skipped(name) \/ Rooted(name)
           /\ UNCHANGED <<requirements, resolved, outcome, listed>>
<1>1. PICK name \in todo :
        /\ todo' = todo \ {name}
        /\ stack' = IF name \in DOMAIN resolved THEN <<>> ELSE <<Frame(name)>>
  BY DEF NextRoot
<1>2. name \in Packages /\ Frame(name) \in Frames
  BY FrameParts DEF TypeOK
<1>3. CASE name \in DOMAIN resolved
  BY <1>1, <1>2, <1>3 DEF NextRoot, Skipped
<1>4. CASE name \notin DOMAIN resolved
  <2>1. stack' = <<Frame(name)>>
    BY <1>1, <1>4
  <2>2. Rooted(name)
    BY <1>2, <1>4, <2>1 DEF Rooted
  <2>3. QED
    BY <1>1, <1>2, <2>2 DEF NextRoot
<1>5. QED
  BY <1>3, <1>4

Selected(x, available) ==
  /\ TopBecomes(x) /\ x \in Frames
  /\ x.name = Top.name /\ x.at = "fetch" /\ x.deps = Top.deps /\ x.pending = Top.pending
  /\ x.version \in available
  /\ Satisfies(x.version, requirements[Top.name])
  /\ \A w \in available : Satisfies(w, requirements[Top.name]) => w <= x.version

\* SelectVersion raises, or the frame on top has the highest suitable version.
LEMMA SelectEffect ==
  ASSUME TypeOK, SelectVersion
  PROVE  /\ outcome = "running" /\ stack # <<>> /\ Top.at = "select"
         /\ requirements' = requirements
         /\ \E available \in SUBSET Versions :
              /\ listed' = [listed EXCEPT ![Top.name] = available]
              /\ \/ Raised
                 \/ \E x \in Frames : Selected(x, available) /\ UNCHANGED <<resolved, todo, outcome>>
<1>1. PICK available \in SUBSET Versions :
        /\ listed' = [listed EXCEPT ![Top.name] = available]
        /\ \/ available = {} /\ Raise("not_found") /\ UNCHANGED conflicting
           \/ /\ available # {} /\ Candidates(available) = {}
              /\ Raise("conflict")
              /\ conflicting' = {Top.name}
           \/ \E v \in available :
               /\ IsChosen(v, Candidates(available))
               /\ stack' = Append(Below, [Top EXCEPT !.at = "fetch", !.version = v])
               /\ UNCHANGED <<resolved, todo, outcome, conflicting>>
  BY DEF SelectVersion
<1>2. Raise("not_found") \/ Raise("conflict") => Raised
  BY DEF Raise, Raised
<1>3. ASSUME NEW v \in available, IsChosen(v, Candidates(available)),
             stack' = Append(Below, [Top EXCEPT !.at = "fetch", !.version = v])
      PROVE  \E x \in Frames : Selected(x, available)
  <2> DEFINE x == [Top EXCEPT !.at = "fetch", !.version = v]
             t == Top
  <2>0. stack # <<>> /\ stack \in Seq(Frames)
    BY DEF TypeOK, SelectVersion
  <2>1. t \in Frames
    BY <2>0, StackParts
  <2>2. v \in Nat /\ x = [t EXCEPT !.at = "fetch", !.version = v]
    OBVIOUS
  <2>3. stack' = Append(Below, x)
    BY <1>3
  <2> HIDE DEF x, t
  <2>4. /\ x \in Frames /\ x.name = t.name /\ x.at = "fetch" /\ x.version = v
        /\ x.deps = t.deps /\ x.pending = t.pending
    BY <2>1, <2>2 DEF Frames
  <2>5. TopBecomes(x)
    BY <2>0, <2>3, <2>4, PutTop
  <2>6. QED
    BY <1>3, <2>4, <2>5 DEF Selected, IsChosen, Candidates, t
<1>4. QED
  BY <1>1, <1>2, <1>3 DEF SelectVersion

Fetched(x) ==
  /\ TopBecomes(x) /\ x \in Frames
  /\ x.name = Top.name /\ x.at = "deps" /\ x.version = Top.version /\ x.pending = x.deps

\* GetMetadata gives the frame on top its dependencies.
LEMMA FetchEffect ==
  ASSUME TypeOK, GetMetadata
  PROVE  /\ outcome = "running" /\ stack # <<>> /\ Top.at = "fetch"
         /\ UNCHANGED <<requirements, resolved, todo, outcome, listed>>
         /\ \E x \in Frames : Fetched(x)
<1>1. PICK ds \in DepSets :
        stack' = Append(Below, [Top EXCEPT !.at = "deps", !.deps = ds, !.pending = ds])
  BY DEF GetMetadata
<1> DEFINE x == [Top EXCEPT !.at = "deps", !.deps = ds, !.pending = ds]
           t == Top
<1>0. stack # <<>> /\ stack \in Seq(Frames)
  BY DEF TypeOK, GetMetadata
<1>2. t \in Frames
  BY <1>0, StackParts
<1>3. ds \in SUBSET Deps /\ x = [t EXCEPT !.at = "deps", !.deps = ds, !.pending = ds]
  BY DEF DepSets
<1>4. stack' = Append(Below, x)
  BY <1>1
<1> HIDE DEF x, t
<1>5. /\ x \in Frames /\ x.name = t.name /\ x.at = "deps" /\ x.version = t.version
      /\ x.deps = ds /\ x.pending = ds
  BY <1>2, <1>3 DEF Frames
<1>6. TopBecomes(x)
  BY <1>0, <1>4, <1>5, PutTop
<1>7. Fetched(x)
  BY <1>5, <1>6 DEF Fetched, t
<1>8. QED
  BY <1>5, <1>7 DEF GetMetadata

\* The frame whose loop has dealt with dep.
Passed(x, dep) ==
  /\ x \in Frames /\ dep \in Deps /\ dep \in Top.pending
  /\ x.name = Top.name /\ x.at = "deps" /\ x.version = Top.version /\ x.deps = Top.deps
  /\ x.pending = Top.pending \ {dep}

\* Follow raises, passes over a dependency that has its version, or calls.
LEMMA FollowEffect ==
  ASSUME TypeOK, Follow
  PROVE  /\ outcome = "running" /\ stack # <<>> /\ Top.at = "deps"
         /\ listed' = listed
         /\ \E dep \in Top.pending :
              /\ dep \in Deps
              /\ AddRequirement(dep)
              /\ \/ Raised
                 \/ \E x \in Frames :
                      /\ Passed(x, dep)
                      /\ UNCHANGED <<resolved, todo, outcome>>
                      /\ dep.name \notin visiting
                      /\ \/ /\ dep.name \in DOMAIN resolved
                            /\ TopBecomes(x)
                            /\ Satisfies(resolved[dep.name].version, requirements'[dep.name])
                         \/ /\ dep.name \notin DOMAIN resolved
                            /\ Calling(x, Frame(dep.name))
<1>1. PICK dep \in Top.pending : AddRequirement(dep) /\ (Cyclic(dep) \/ Known(dep) \/ Fresh(dep))
  BY DEF Follow
<1> DEFINE x == [Top EXCEPT !.pending = @ \ {dep}]
           t == Top
<1>0. stack # <<>> /\ stack \in Seq(Frames)
  BY DEF TypeOK, Follow
<1>2. t \in Frames /\ t.at = "deps"
  BY <1>0, StackParts DEF Follow
<1>3. dep \in t.pending /\ x = [t EXCEPT !.pending = @ \ {dep}]
  OBVIOUS
<1>4. Past(dep) = Append(Below, x)
  BY DEF Past
<1> HIDE DEF x, t
<1>5. dep \in Deps /\ dep.name \in Packages
  BY <1>2, <1>3 DEF Frames, Deps
<1>6. /\ x \in Frames /\ x.name = t.name /\ x.at = t.at /\ x.version = t.version
      /\ x.deps = t.deps /\ x.pending = t.pending \ {dep}
  BY <1>2, <1>3, <1>5 DEF Frames
<1>7. Passed(x, dep)
  BY <1>2, <1>3, <1>5, <1>6 DEF Passed, t
<1>8. CASE Cyclic(dep)
  <2>1. Raised
    BY <1>8 DEF Cyclic, Raise, Raised
  <2>2. QED
    BY <1>1, <1>5, <2>1 DEF Follow
<1>9. CASE Known(dep)
  <2>1. CASE Raised
    BY <1>1, <1>5, <2>1 DEF Follow
  <2>2. CASE ~ Raised
    <3>1. /\ stack' = Append(Below, x)
          /\ UNCHANGED <<resolved, todo, outcome>>
          /\ dep.name \in DOMAIN resolved \ visiting
          /\ Satisfies(resolved[dep.name].version, requirements'[dep.name])
      BY <1>4, <1>9, <2>2 DEF Known, Raise, Raised
    <3>2. TopBecomes(x)
      BY <1>0, <1>6, <3>1, PutTop
    <3>3. QED
      BY <1>1, <1>5, <1>6, <1>7, <3>1, <3>2 DEF Follow
  <2>3. QED
    BY <2>1, <2>2
<1>10. CASE Fresh(dep)
  <2>1. /\ stack' = Append(Append(Below, x), Frame(dep.name))
        /\ UNCHANGED <<resolved, todo, outcome>>
        /\ dep.name \notin DOMAIN resolved /\ dep.name \notin visiting
    BY <1>4, <1>10 DEF Fresh
  <2>2. Calling(x, Frame(dep.name))
    BY <1>0, <1>5, <1>6, <2>1, PutCall, FrameParts
  <2>3. QED
    BY <1>1, <1>5, <1>6, <1>7, <2>1, <2>2 DEF Follow
<1>11. QED
  BY <1>1, <1>8, <1>9, <1>10

\* ReturnResolved moves the package on top to those resolved.
LEMMA ReturnEffect ==
  ASSUME TypeOK, ReturnResolved
  PROVE  /\ outcome = "running" /\ stack # <<>> /\ Top.at = "deps" /\ Top.pending = {}
         /\ UNCHANGED <<requirements, todo, outcome, listed>>
         /\ stack' \in Seq(Frames) /\ Len(stack') = Len(stack) - 1
         /\ DOMAIN stack' = 1..(Len(stack) - 1)
         /\ \A i \in 1..(Len(stack) - 1) : stack'[i] = stack[i]
         /\ DOMAIN resolved' = DOMAIN resolved \cup {Top.name}
         /\ resolved'[Top.name].version = Top.version
         /\ resolved'[Top.name].deps = Top.deps
         /\ \A p \in DOMAIN resolved \ {Top.name} : resolved'[p] = resolved[p]
         /\ resolved' \in [DOMAIN resolved' -> Locks]
<1>1. /\ outcome = "running" /\ stack # <<>> /\ Top.at = "deps" /\ Top.pending = {}
      /\ UNCHANGED <<requirements, todo, outcome, listed>>
      /\ stack' = Below
      /\ resolved' = [p \in DOMAIN resolved \cup {Top.name} |->
           IF p = Top.name THEN [version |-> Top.version, deps |-> Top.deps]
                           ELSE resolved[p]]
  BY DEF ReturnResolved
<1>2. stack \in Seq(Frames) /\ resolved \in [DOMAIN resolved -> Locks]
  BY DEF TypeOK
<1>3. /\ stack' \in Seq(Frames) /\ Len(stack') = Len(stack) - 1
      /\ DOMAIN stack' = 1..(Len(stack) - 1)
      /\ \A i \in 1..(Len(stack) - 1) : stack'[i] = stack[i]
      /\ Top \in Frames
  <2>1. /\ Below \in Seq(Frames) /\ Len(Below) = Len(stack) - 1
        /\ DOMAIN Below = 1..(Len(stack) - 1)
        /\ \A i \in 1..(Len(stack) - 1) : Below[i] = stack[i]
        /\ Top \in Frames
    BY <1>1, <1>2, StackParts
  <2>2. QED
    BY <1>1, <2>1
<1> DEFINE t == Top
           l == [version |-> t.version, deps |-> t.deps]
<1>4. l \in Locks /\ l.version = t.version /\ l.deps = t.deps
  BY <1>3 DEF Frames, Locks
<1>5. resolved' = [p \in DOMAIN resolved \cup {t.name} |-> IF p = t.name THEN l ELSE resolved[p]]
  BY <1>1
<1> HIDE DEF l, t
<1>6. /\ DOMAIN resolved' = DOMAIN resolved \cup {t.name}
      /\ resolved'[t.name] = l
      /\ \A p \in DOMAIN resolved \ {t.name} : resolved'[p] = resolved[p]
      /\ resolved' \in [DOMAIN resolved' -> Locks]
  BY <1>2, <1>4, <1>5
<1>7. QED
  BY <1>1, <1>3, <1>4, <1>6 DEF t

\* The exceptions that nothing here catches.
LEMMA FailEffect ==
  ASSUME MetadataNotFound \/ RequestFails \/ ConstraintUnreadable
  PROVE  Raised /\ UNCHANGED <<requirements, listed>>
BY DEF MetadataNotFound, RequestFails, ConstraintUnreadable, Raise, Raised

\* What an adding of a requirement changes.
LEMMA AddEffect ==
  ASSUME TypeOK, NEW dep \in Deps, AddRequirement(dep), NEW via, via = Top.name,
         via \in Packages
  PROVE  /\ dep.name \in Packages
         /\ requirements' \in [Packages -> SUBSET Requirements]
         /\ requirements'[dep.name] =
              requirements[dep.name] \cup {[constraint |-> dep.constraint, via |-> via]}
         /\ \A p \in Packages \ {dep.name} : requirements'[p] = requirements[p]
<1> DEFINE q == [constraint |-> dep.constraint, via |-> via]
<1>1. dep.name \in Packages /\ q \in Requirements
  BY DEF Deps, Requirements
<1>2. requirements' = [requirements EXCEPT ![dep.name] = @ \cup {q}]
  BY DEF AddRequirement
<1> HIDE DEF q
<1>3. /\ requirements' \in [Packages -> SUBSET Requirements]
      /\ requirements'[dep.name] = requirements[dep.name] \cup {q}
      /\ \A p \in Packages \ {dep.name} : requirements'[p] = requirements[p]
  BY <1>1, <1>2 DEF TypeOK
<1>4. QED
  BY <1>1, <1>3 DEF q

\* The frame on top is of a package.
LEMMA TopName ==
  ASSUME TypeOK, stack # <<>>
  PROVE  Top.name \in Packages /\ Top = stack[Len(stack)] /\ Top \in Frames
<1>1. Top \in Frames /\ Top = stack[Len(stack)]
  BY StackParts DEF TypeOK
<1>2. QED
  BY <1>1 DEF Frames

\* Every step keeps the types.
LEMMA StepType ==
  ASSUME TypeOK, Next \/ UNCHANGED vars
  PROVE  TypeOK'
<1> <<>> \in Seq(Frames)
  OBVIOUS
<1>1. CASE NextRoot
  BY <1>1, RootEffect DEF TypeOK, Skipped, Rooted
<1>2. CASE SelectVersion
  <2>1. PICK available \in SUBSET Versions :
          /\ listed' = [listed EXCEPT ![Top.name] = available]
          /\ \/ Raised
             \/ \E x \in Frames : Selected(x, available) /\ UNCHANGED <<resolved, todo, outcome>>
    BY <1>2, SelectEffect
  <2>2. requirements' = requirements
    BY <1>2, SelectEffect
  <2>3. listed' \in [Packages -> SUBSET Versions]
    BY <2>1 DEF TypeOK
  <2>4. CASE Raised
    BY <2>2, <2>3, <2>4 DEF TypeOK, Raised
  <2>5. CASE \E x \in Frames : Selected(x, available) /\ UNCHANGED <<resolved, todo, outcome>>
    BY <2>2, <2>3, <2>5 DEF TypeOK, Selected, TopBecomes
  <2>6. QED
    BY <2>1, <2>4, <2>5
<1>3. CASE GetMetadata
  BY <1>3, FetchEffect DEF TypeOK, Fetched, TopBecomes
<1>4. CASE MetadataNotFound \/ RequestFails \/ ConstraintUnreadable
  BY <1>4, FailEffect DEF TypeOK, Raised
<1>5. CASE Follow
  <2>1. PICK dep \in Top.pending :
          /\ dep \in Deps
          /\ AddRequirement(dep)
          /\ \/ Raised
             \/ \E x \in Frames :
                  /\ UNCHANGED <<resolved, todo, outcome>>
                  /\ TopBecomes(x) \/ Calling(x, Frame(dep.name))
    BY <1>5, FollowEffect
  <2>2. listed' = listed /\ stack # <<>>
    BY <1>5, FollowEffect
  <2>3. requirements' \in [Packages -> SUBSET Requirements]
    BY <2>1, <2>2, AddEffect, TopName
  <2>4. CASE Raised
    BY <2>2, <2>3, <2>4 DEF TypeOK, Raised
  <2>5. CASE ~ Raised
    BY <2>1, <2>2, <2>3, <2>5 DEF TypeOK, TopBecomes, Calling
  <2>6. QED
    BY <2>4, <2>5
<1>6. CASE ReturnResolved
  <2>1. /\ UNCHANGED <<requirements, todo, outcome, listed>>
        /\ stack' \in Seq(Frames) /\ stack # <<>>
        /\ DOMAIN resolved' = DOMAIN resolved \cup {Top.name}
        /\ resolved' \in [DOMAIN resolved' -> Locks]
    BY <1>6, ReturnEffect
  <2>2. Top.name \in Packages
    BY <2>1, TopName
  <2>3. QED
    BY <2>1, <2>2 DEF TypeOK
<1>7. CASE BuildLockfile
  BY <1>7 DEF BuildLockfile, TypeOK
<1>8. CASE UNCHANGED vars
  BY <1>8 DEF vars, TypeOK
<1>9. QED
  BY <1>1, <1>2, <1>3, <1>4, <1>5, <1>6, <1>7, <1>8 DEF Next

\* A frame on top that keeps its name and, below the top, everything.
LEMMA SameNames ==
  ASSUME TypeOK, stack # <<>>, NEW x, TopBecomes(x), x.name = Top.name
  PROVE  /\ \A i \in DOMAIN stack : stack'[i].name = stack[i].name
         /\ visiting' = visiting
<1>1. /\ Len(stack) \in Nat \ {0} /\ DOMAIN stack = 1..Len(stack)
      /\ Top = stack[Len(stack)]
  BY StackParts DEF TypeOK
<1>2. \A i \in DOMAIN stack : stack'[i].name = stack[i].name
  BY <1>1 DEF TopBecomes
<1>3. QED
  BY <1>2 DEF visiting, TopBecomes

\* The calls under way stay a path of dependencies without a repetition.
LEMMA StepCalls ==
  ASSUME IInv, Next \/ UNCHANGED vars
  PROVE  Calls'
<1> USE DEF IInv
<1>0. ASSUME stack # <<>>
      PROVE  /\ Len(stack) \in Nat \ {0} /\ DOMAIN stack = 1..Len(stack)
             /\ Top = stack[Len(stack)] /\ Len(stack) \in DOMAIN stack
  BY <1>0, StackParts DEF TypeOK
<1>a. ASSUME Raised PROVE Calls'
  BY <1>a DEF Raised, Calls
<1>1. CASE NextRoot
  <2>1. PICK name \in todo :
          /\ outcome = "running" /\ outcome' = outcome /\ resolved' = resolved
          /\ Skipped(name) \/ Rooted(name)
          /\ name \in Packages
    BY <1>1, RootEffect
  <2>2. CASE Skipped(name)
    BY <2>1, <2>2 DEF Skipped, Calls
  <2>3. CASE Rooted(name)
    BY <2>1, <2>3, FrameParts DEF Rooted, Calls
  <2>4. QED
    BY <2>1, <2>2, <2>3
<1>2. CASE SelectVersion
  <2>1. PICK available \in SUBSET Versions :
          \/ Raised
          \/ \E x \in Frames : Selected(x, available) /\ UNCHANGED <<resolved, todo, outcome>>
    BY <1>2, SelectEffect
  <2>2. stack # <<>> /\ Top.at = "select" /\ outcome = "running"
    BY <1>2, SelectEffect
  <2>3. ASSUME NEW x \in Frames, Selected(x, available), UNCHANGED <<resolved, todo, outcome>>
        PROVE  Calls'
    <3>1. \A i \in DOMAIN stack : stack'[i].name = stack[i].name
      BY <2>2, <2>3, SameNames DEF Selected
    <3>2. x.deps = {} /\ x.pending = {}
      BY <1>0, <2>2, <2>3 DEF Selected, Calls
    <3>3. QED
      BY <1>0, <2>2, <2>3, <3>1, <3>2 DEF Calls, Selected, TopBecomes
  <2>4. QED
    BY <1>a, <2>1, <2>3
<1>3. CASE GetMetadata
  <2>1. PICK x \in Frames : Fetched(x)
    BY <1>3, FetchEffect
  <2>2. /\ outcome = "running" /\ stack # <<>> /\ Top.at = "fetch"
        /\ UNCHANGED <<resolved, todo, outcome>>
    BY <1>3, FetchEffect
  <2>3. \A i \in DOMAIN stack : stack'[i].name = stack[i].name
    BY <2>1, <2>2, SameNames DEF Fetched
  <2>4. QED
    BY <1>0, <2>1, <2>2, <2>3 DEF Calls, Fetched, TopBecomes
<1>4. CASE MetadataNotFound \/ RequestFails \/ ConstraintUnreadable
  BY <1>a, <1>4, FailEffect
<1>5. CASE Follow
  <2>1. PICK dep \in Top.pending :
          /\ dep \in Deps
          /\ \/ Raised
             \/ \E x \in Frames :
                  /\ Passed(x, dep)
                  /\ UNCHANGED <<resolved, todo, outcome>>
                  /\ dep.name \notin visiting
                  /\ \/ TopBecomes(x)
                     \/ dep.name \notin DOMAIN resolved /\ Calling(x, Frame(dep.name))
    BY <1>5, FollowEffect
  <2>2. outcome = "running" /\ stack # <<>> /\ Top.at = "deps"
    BY <1>5, FollowEffect
  <2>3. ASSUME NEW x \in Frames, Passed(x, dep), TopBecomes(x),
               UNCHANGED <<resolved, todo, outcome>>
        PROVE  Calls'
    <3>1. \A i \in DOMAIN stack : stack'[i].name = stack[i].name
      BY <2>2, <2>3, SameNames DEF Passed
    <3>2. QED
      BY <1>0, <2>2, <2>3, <3>1 DEF Calls, Passed, TopBecomes
  <2>4. ASSUME NEW x \in Frames, Passed(x, dep), Calling(x, Frame(dep.name)),
               UNCHANGED <<resolved, todo, outcome>>,
               dep.name \notin visiting, dep.name \notin DOMAIN resolved
        PROVE  Calls'
    <3> DEFINE f == Frame(dep.name)
               m == Len(stack)
    <3>1. f.name = dep.name /\ f.at = "select" /\ f.deps = {} /\ f.pending = {}
      BY <2>1, FrameParts DEF Deps
    <3>2. Calling(x, f) /\ dep \in x.deps
      BY <1>0, <2>2, <2>4 DEF Passed, Calls
    <3>3. m \in Nat \ {0} /\ DOMAIN stack = 1..m /\ Top = stack[m] /\ m = Len(stack)
      BY <1>0, <2>2
    <3> HIDE DEF f, m
    <3>4. /\ DOMAIN stack' = 1..(m + 1) /\ Len(stack') = m + 1
          /\ stack'[m] = x /\ stack'[m + 1] = f
          /\ \A i \in 1..(m - 1) : stack'[i] = stack[i]
      BY <3>2, <3>3 DEF Calling
    <3>5. \A i \in 1..m : stack'[i].name = stack[i].name /\ stack[i].name # f.name
      <4>1. \A i \in 1..m : stack[i].name # f.name
        BY <2>4, <3>1, <3>3 DEF visiting
      <4>2. stack'[m].name = stack[m].name
        BY <2>4, <3>3, <3>4 DEF Passed
      <4>3. QED
        BY <3>3, <3>4, <4>1, <4>2
    <3>6. \A i, k \in 1..m : stack[i].name = stack[k].name => i = k
      BY <3>3 DEF Calls
    <3>7. \A i, k \in DOMAIN stack' : stack'[i].name = stack'[k].name => i = k
      BY <3>3, <3>4, <3>5, <3>6
    <3>8. ASSUME NEW i \in DOMAIN stack'
          PROVE  /\ stack'[i].at # "deps" => stack'[i].deps = {}
                 /\ stack'[i].pending \subseteq stack'[i].deps
                 /\ stack'[i].name \notin DOMAIN resolved
                 /\ i < m + 1 =>
                      /\ stack'[i].at = "deps"
                      /\ \E d \in stack'[i].deps : d.name = stack'[i + 1].name
      <4>1. CASE i = m + 1
        BY <2>4, <3>1, <3>3, <3>4, <4>1
      <4>2. CASE i = m
        BY <2>4, <3>1, <3>2, <3>3, <3>4, <4>2 DEF Calls, Passed
      <4>3. CASE i \in 1..(m - 1)
        BY <3>3, <3>4, <3>5, <4>3 DEF Calls
      <4>4. QED
        BY <3>3, <3>4, <4>1, <4>2, <4>3
    <3>9. QED
      BY <2>2, <2>4, <3>4, <3>7, <3>8 DEF Calls
  <2>5. QED
    BY <1>a, <2>1, <2>3, <2>4
<1>6. CASE ReturnResolved
  <2>1. /\ outcome' = outcome /\ outcome = "running" /\ stack # <<>>
        /\ Len(stack') = Len(stack) - 1
        /\ DOMAIN stack' = 1..(Len(stack) - 1)
        /\ \A i \in 1..(Len(stack) - 1) : stack'[i] = stack[i]
        /\ DOMAIN resolved' = DOMAIN resolved \cup {Top.name}
    BY <1>6, ReturnEffect
  <2>2. \A i \in 1..(Len(stack) - 1) : stack[i].name # Top.name
    BY <1>0, <2>1 DEF Calls
  <2> DEFINE m == Len(stack)
  <2>3. m \in Nat \ {0} /\ DOMAIN stack = 1..m /\ m = Len(stack)
    BY <1>0, <2>1
  <2> HIDE DEF m
  <2>4. ASSUME NEW i \in DOMAIN stack'
        PROVE  /\ stack'[i].at # "deps" => stack'[i].deps = {}
               /\ stack'[i].pending \subseteq stack'[i].deps
               /\ stack'[i].name \notin DOMAIN resolved'
               /\ i < m - 1 =>
                    /\ stack'[i].at = "deps"
                    /\ \E d \in stack'[i].deps : d.name = stack'[i + 1].name
    <3>1. i \in 1..(m - 1) /\ i \in DOMAIN stack /\ stack'[i] = stack[i]
      BY <2>1, <2>3
    <3>2. stack[i].name \notin DOMAIN resolved'
      BY <2>1, <2>2, <2>3, <3>1 DEF Calls
    <3>3. i < m - 1 => stack'[i + 1] = stack[i + 1] /\ i < m
      BY <2>1, <2>3, <3>1
    <3>4. QED
      BY <2>3, <3>1, <3>2, <3>3 DEF Calls
  <2>5. \A i, k \in DOMAIN stack' : stack'[i].name = stack'[k].name => i = k
    BY <2>1, <2>3 DEF Calls
  <2>6. QED
    BY <2>1, <2>3, <2>4, <2>5 DEF Calls
<1>7. CASE BuildLockfile
  BY <1>7 DEF BuildLockfile, Calls
<1>8. CASE UNCHANGED vars
  BY <1>8 DEF vars, Calls
<1>9. QED
  BY <1>1, <1>2, <1>3, <1>4, <1>5, <1>6, <1>7, <1>8 DEF Next

\* Chosen of the state after the step.
NowChosen(v, p) ==
  /\ v \in listed'[p] /\ Satisfies(v, requirements'[p])
  /\ \A w \in listed'[p] : Satisfies(w, requirements'[p]) => w <= v

\* What a new requirement leaves of an earlier choice.
LEMMA StillChosen ==
  ASSUME TypeOK, NEW dep \in Deps, AddRequirement(dep), Top.name \in Packages,
         listed' = listed, NEW v, NEW p \in Packages, Chosen(v, p),
         p # dep.name \/ Satisfies(v, requirements'[p])
  PROVE  NowChosen(v, p)
<1>1. requirements[p] \subseteq requirements'[p]
      /\ (p # dep.name => requirements'[p] = requirements[p])
  BY AddEffect
<1>2. \A w : Satisfies(w, requirements'[p]) => Satisfies(w, requirements[p])
  BY <1>1 DEF Satisfies
<1>3. Satisfies(v, requirements'[p])
  BY <1>1 DEF Chosen
<1>4. QED
  BY <1>2, <1>3 DEF Chosen, NowChosen

\* The call on top is of a package, not yet resolved, and of no other call.
LEMMA TopCall ==
  ASSUME TypeOK, Calls, stack # <<>>
  PROVE  /\ Len(stack) \in Nat \ {0} /\ DOMAIN stack = 1..Len(stack)
         /\ Top = stack[Len(stack)] /\ Len(stack) \in DOMAIN stack
         /\ Top.name \in Packages /\ Top.name \notin DOMAIN resolved
         /\ \A i \in 1..(Len(stack) - 1) : stack[i].name # Top.name
<1>1. /\ Len(stack) \in Nat \ {0} /\ DOMAIN stack = 1..Len(stack)
      /\ Top = stack[Len(stack)] /\ Len(stack) \in DOMAIN stack
  BY StackParts DEF TypeOK
<1>2. Top.name \in Packages
  BY TopName
<1>3. QED
  BY <1>1, <1>2 DEF Calls

\* The versions chosen stay the highest that all requirements allow.
LEMMA StepChoices ==
  ASSUME IInv, Next \/ UNCHANGED vars
  PROVE  Choices'
<1> USE DEF IInv
<1>0. ASSUME stack # <<>>
      PROVE  /\ Len(stack) \in Nat \ {0} /\ DOMAIN stack = 1..Len(stack)
             /\ Top = stack[Len(stack)] /\ Len(stack) \in DOMAIN stack
             /\ Top.name \in Packages /\ Top.name \notin DOMAIN resolved
             /\ \A i \in 1..(Len(stack) - 1) : stack[i].name # Top.name
  BY <1>0, TopCall
<1>n. \A i \in DOMAIN stack : stack[i].name \in Packages
  <2>1. \A i \in DOMAIN stack : stack[i] \in Frames
    BY DEF TypeOK
  <2>2. QED
    BY <2>1 DEF Frames
<1>q. ASSUME \A p \in DOMAIN resolved' : NowChosen(resolved'[p].version, p),
             \A i \in DOMAIN stack' :
               stack'[i].at # "select" => NowChosen(stack'[i].version, stack'[i].name)
      PROVE  Choices'
  BY <1>q DEF Choices, Chosen, NowChosen
<1>p. ASSUME Goes
      PROVE  /\ \A p \in DOMAIN resolved : p \in Packages /\ Chosen(resolved[p].version, p)
             /\ \A i \in DOMAIN stack :
                  stack[i].at # "select" => Chosen(stack[i].version, stack[i].name)
  BY <1>p DEF Choices, TypeOK
<1>a. ASSUME Raised PROVE Choices'
  BY <1>a DEF Raised, Choices, Goes
<1>1. CASE NextRoot
  <2>1. PICK name \in todo :
          /\ UNCHANGED <<requirements, resolved, outcome, listed>>
          /\ Skipped(name) \/ Rooted(name)
          /\ name \in Packages
    BY <1>1, RootEffect
  <2>2. \A i \in DOMAIN stack' : stack'[i].at = "select"
    BY <2>1, FrameParts DEF Skipped, Rooted
  <2>3. QED
    BY <2>1, <2>2 DEF Choices, Goes, Chosen
<1>2. CASE SelectVersion
  <2>1. PICK available \in SUBSET Versions :
          /\ listed' = [listed EXCEPT ![Top.name] = available]
          /\ \/ Raised
             \/ \E x \in Frames : Selected(x, available) /\ UNCHANGED <<resolved, todo, outcome>>
    BY <1>2, SelectEffect
  <2>2. /\ stack # <<>> /\ Top.at = "select" /\ outcome = "running"
        /\ requirements' = requirements
    BY <1>2, SelectEffect
  <2>3. /\ listed'[Top.name] = available
        /\ \A p \in Packages \ {Top.name} : listed'[p] = listed[p]
    BY <1>0, <2>1, <2>2 DEF TypeOK
  <2>4. ASSUME NEW x \in Frames, Selected(x, available), UNCHANGED <<resolved, todo, outcome>>
        PROVE  Choices'
    <3>1. \A p \in Packages : \A v : p # Top.name /\ Chosen(v, p) => NowChosen(v, p)
      BY <2>2, <2>3 DEF Chosen, NowChosen
    <3>2. NowChosen(x.version, x.name)
      BY <2>2, <2>3, <2>4 DEF NowChosen, Selected
    <3>3. \A p \in DOMAIN resolved' : NowChosen(resolved'[p].version, p)
      BY <1>0, <1>p, <2>2, <2>4, <3>1 DEF Goes
    <3>4. \A i \in DOMAIN stack' :
            stack'[i].at # "select" => NowChosen(stack'[i].version, stack'[i].name)
      <4>1. TAKE i \in DOMAIN stack'
      <4>2. CASE i = Len(stack)
        BY <1>0, <2>2, <2>4, <3>2, <4>2 DEF Selected, TopBecomes
      <4>3. CASE i # Len(stack)
        <5>1. i \in 1..(Len(stack) - 1) /\ stack'[i] = stack[i] /\ i \in DOMAIN stack
          BY <1>0, <2>2, <2>4, <4>3 DEF Selected, TopBecomes
        <5>2. QED
          BY <1>0, <1>n, <1>p, <2>2, <3>1, <5>1 DEF Goes
      <4>4. QED
        BY <4>2, <4>3
    <3>5. QED
      BY <1>q, <3>3, <3>4
  <2>5. QED
    BY <1>a, <2>1, <2>4
<1>3. CASE GetMetadata
  <2>1. PICK x \in Frames : Fetched(x)
    BY <1>3, FetchEffect
  <2>2. /\ outcome = "running" /\ stack # <<>> /\ Top.at = "fetch"
        /\ UNCHANGED <<requirements, resolved, todo, outcome, listed>>
    BY <1>3, FetchEffect
  <2>3. \A i \in DOMAIN stack' :
          stack'[i].at # "select" =>
            /\ stack[i].at # "select" /\ i \in DOMAIN stack
            /\ stack'[i].version = stack[i].version /\ stack'[i].name = stack[i].name
    BY <1>0, <2>1, <2>2 DEF Fetched, TopBecomes
  <2>4. QED
    BY <2>2, <2>3 DEF Choices, Goes, Chosen
<1>4. CASE MetadataNotFound \/ RequestFails \/ ConstraintUnreadable
  BY <1>a, <1>4, FailEffect
<1>5. CASE Follow
  <2>1. PICK dep \in Top.pending :
          /\ dep \in Deps
          /\ AddRequirement(dep)
          /\ \/ Raised
             \/ \E x \in Frames :
                  /\ Passed(x, dep)
                  /\ UNCHANGED <<resolved, todo, outcome>>
                  /\ dep.name \notin visiting
                  /\ \/ /\ dep.name \in DOMAIN resolved
                        /\ TopBecomes(x)
                        /\ Satisfies(resolved[dep.name].version, requirements'[dep.name])
                     \/ /\ dep.name \notin DOMAIN resolved
                        /\ Calling(x, Frame(dep.name))
    BY <1>5, FollowEffect
  <2>2. /\ outcome = "running" /\ stack # <<>> /\ Top.at = "deps"
        /\ listed' = listed
    BY <1>5, FollowEffect
  <2>3. ASSUME NEW x \in Frames, Passed(x, dep), UNCHANGED <<resolved, todo, outcome>>,
               dep.name \notin visiting,
               \/ Satisfies(resolved[dep.name].version, requirements'[dep.name])
               \/ dep.name \notin DOMAIN resolved,
               TopBecomes(x) \/ Calling(x, Frame(dep.name))
        PROVE  Choices'
    <3>1. \A p \in Packages : \A v :
            Chosen(v, p) /\ (p # dep.name \/ Satisfies(v, requirements'[p])) => NowChosen(v, p)
      BY <1>0, <2>1, <2>2, StillChosen
    <3>2. \A p \in DOMAIN resolved' : NowChosen(resolved'[p].version, p)
      BY <1>p, <2>2, <2>3, <3>1 DEF Goes
    <3>3. \A i \in DOMAIN stack :
            stack[i].at # "select" => NowChosen(stack[i].version, stack[i].name)
      BY <1>n, <1>p, <2>2, <2>3, <3>1 DEF Goes, visiting
    <3>4. \A i \in DOMAIN stack' :
            stack'[i].at # "select" =>
              /\ i \in DOMAIN stack /\ stack[i].at # "select"
              /\ stack'[i].version = stack[i].version /\ stack'[i].name = stack[i].name
      <4>1. CASE TopBecomes(x)
        BY <1>0, <2>2, <2>3, <4>1 DEF Passed, TopBecomes
      <4>2. CASE Calling(x, Frame(dep.name))
        <5>1. Frame(dep.name).at = "select"
          BY <2>1, FrameParts DEF Deps
        <5>2. QED
          BY <1>0, <2>2, <2>3, <4>2, <5>1 DEF Passed, Calling
      <4>3. QED
        BY <2>3, <4>1, <4>2
    <3>5. QED
      BY <1>q, <3>2, <3>3, <3>4
  <2>4. QED
    BY <1>a, <2>1, <2>3
<1>6. CASE ReturnResolved
  <2>1. /\ outcome' = outcome /\ outcome = "running" /\ stack # <<>>
        /\ Top.at = "deps"
        /\ UNCHANGED <<requirements, listed>>
        /\ DOMAIN stack' = 1..(Len(stack) - 1)
        /\ \A i \in 1..(Len(stack) - 1) : stack'[i] = stack[i]
        /\ DOMAIN resolved' = DOMAIN resolved \cup {Top.name}
        /\ resolved'[Top.name].version = Top.version
        /\ \A p \in DOMAIN resolved \ {Top.name} : resolved'[p] = resolved[p]
    BY <1>6, ReturnEffect
  <2>2. \A v, p : Chosen(v, p) => NowChosen(v, p)
    BY <2>1 DEF Chosen, NowChosen
  <2>3. \A p \in DOMAIN resolved' : NowChosen(resolved'[p].version, p)
    BY <1>0, <1>p, <2>1, <2>2 DEF Goes
  <2>4. \A i \in DOMAIN stack' : stack'[i] = stack[i] /\ i \in DOMAIN stack
    BY <1>0, <2>1
  <2>5. QED
    BY <1>p, <1>q, <2>1, <2>2, <2>3, <2>4 DEF Goes
<1>7. CASE BuildLockfile
  BY <1>7 DEF BuildLockfile, Choices, Goes, Chosen
<1>8. CASE UNCHANGED vars
  BY <1>8 DEF vars, Choices, Goes, Chosen
<1>9. QED
  BY <1>1, <1>2, <1>3, <1>4, <1>5, <1>6, <1>7, <1>8 DEF Next

\* Recorded of the state after the step.
NowRecorded(d, p) == [constraint |-> d.constraint, via |-> p] \in requirements'[d.name]

\* What the loops have dealt with stays recorded and resolved, or under way.
LEMMA StepEdges ==
  ASSUME IInv, Next \/ UNCHANGED vars
  PROVE  Edges'
<1> USE DEF IInv
<1>0. ASSUME stack # <<>>
      PROVE  /\ Len(stack) \in Nat \ {0} /\ DOMAIN stack = 1..Len(stack)
             /\ Top = stack[Len(stack)] /\ Len(stack) \in DOMAIN stack
             /\ Top.name \in Packages /\ Top.name \notin DOMAIN resolved
             /\ \A i \in 1..(Len(stack) - 1) : stack[i].name # Top.name
  BY <1>0, TopCall
<1>d. /\ \A p \in DOMAIN resolved : resolved[p].deps \subseteq Deps
      /\ \A i \in DOMAIN stack : stack[i].deps \subseteq Deps
  <2>1. /\ \A p \in DOMAIN resolved : resolved[p] \in Locks
        /\ \A i \in DOMAIN stack : stack[i] \in Frames
    BY DEF TypeOK
  <2>2. QED
    BY <2>1 DEF Frames, Locks
<1>p. ASSUME Goes
      PROVE  /\ \A p \in DOMAIN resolved : \A d \in resolved[p].deps :
                  d.name \in DOMAIN resolved /\ Recorded(d, p)
             /\ \A i \in DOMAIN stack : \A d \in stack[i].deps \ stack[i].pending :
                  /\ Recorded(d, stack[i].name)
                  /\ \/ d.name \in DOMAIN resolved
                     \/ i < Len(stack) /\ d.name = stack[i + 1].name
  BY <1>p DEF Edges
<1>q. ASSUME \A p \in DOMAIN resolved' : \A d \in resolved'[p].deps :
               d.name \in DOMAIN resolved' /\ NowRecorded(d, p),
             \A i \in DOMAIN stack' : \A d \in stack'[i].deps \ stack'[i].pending :
               /\ NowRecorded(d, stack'[i].name)
               /\ \/ d.name \in DOMAIN resolved'
                  \/ i < Len(stack') /\ d.name = stack'[i + 1].name
      PROVE  Edges'
  BY <1>q DEF Edges, Recorded, NowRecorded
<1>r. ASSUME requirements' = requirements
      PROVE  \A d, p : Recorded(d, p) => NowRecorded(d, p)
  BY <1>r DEF Recorded, NowRecorded
<1>a. ASSUME Raised PROVE Edges'
  BY <1>a DEF Raised, Edges, Goes
<1>1. CASE NextRoot
  <2>1. PICK name \in todo :
          /\ UNCHANGED <<requirements, resolved, outcome, listed>>
          /\ outcome = "running"
          /\ Skipped(name) \/ Rooted(name)
          /\ name \in Packages
    BY <1>1, RootEffect
  <2>2. \A i \in DOMAIN stack' : stack'[i].deps = {}
    BY <2>1, FrameParts DEF Skipped, Rooted
  <2>3. QED
    BY <1>p, <1>q, <1>r, <2>1, <2>2 DEF Goes
<1>2. CASE SelectVersion
  <2>1. PICK available \in SUBSET Versions :
          \/ Raised
          \/ \E x \in Frames : Selected(x, available) /\ UNCHANGED <<resolved, todo, outcome>>
    BY <1>2, SelectEffect
  <2>2. /\ stack # <<>> /\ Top.at = "select" /\ outcome = "running"
        /\ requirements' = requirements
    BY <1>2, SelectEffect
  <2>3. ASSUME NEW x \in Frames, Selected(x, available), UNCHANGED <<resolved, todo, outcome>>
        PROVE  Edges'
    <3>1. x.deps = {}
      BY <1>0, <2>2, <2>3 DEF Selected, Calls
    <3>2. \A i \in DOMAIN stack : stack'[i].name = stack[i].name
      BY <2>2, <2>3, SameNames DEF Selected
    <3>3. \A i \in DOMAIN stack' : \A d \in stack'[i].deps \ stack'[i].pending :
            /\ NowRecorded(d, stack'[i].name)
            /\ \/ d.name \in DOMAIN resolved'
               \/ i < Len(stack') /\ d.name = stack'[i + 1].name
      <4>1. TAKE i \in DOMAIN stack'
      <4>2. CASE i = Len(stack)
        BY <2>3, <3>1, <4>2 DEF Selected, TopBecomes
      <4>3. CASE i # Len(stack)
        <5>1. /\ i \in 1..(Len(stack) - 1) /\ stack'[i] = stack[i] /\ i \in DOMAIN stack
              /\ i + 1 \in DOMAIN stack /\ Len(stack') = Len(stack)
          BY <1>0, <2>2, <2>3, <4>3 DEF Selected, TopBecomes
        <5>2. QED
          BY <1>p, <1>r, <2>2, <2>3, <3>2, <5>1 DEF Goes
      <4>4. QED
        BY <4>2, <4>3
    <3>4. QED
      BY <1>p, <1>q, <1>r, <2>2, <2>3, <3>3 DEF Goes
  <2>4. QED
    BY <1>a, <2>1, <2>3
<1>3. CASE GetMetadata
  <2>1. PICK x \in Frames : Fetched(x)
    BY <1>3, FetchEffect
  <2>2. /\ outcome = "running" /\ stack # <<>> /\ Top.at = "fetch"
        /\ UNCHANGED <<requirements, resolved, todo, outcome, listed>>
    BY <1>3, FetchEffect
  <2>3. \A i \in DOMAIN stack : stack'[i].name = stack[i].name
    BY <2>1, <2>2, SameNames DEF Fetched
  <2>4. \A i \in DOMAIN stack' : \A d \in stack'[i].deps \ stack'[i].pending :
          /\ NowRecorded(d, stack'[i].name)
          /\ \/ d.name \in DOMAIN resolved'
             \/ i < Len(stack') /\ d.name = stack'[i + 1].name
    <3>1. TAKE i \in DOMAIN stack'
    <3>2. CASE i = Len(stack)
      BY <2>1, <3>2 DEF Fetched, TopBecomes
    <3>3. CASE i # Len(stack)
      <4>1. /\ i \in 1..(Len(stack) - 1) /\ stack'[i] = stack[i] /\ i \in DOMAIN stack
            /\ i + 1 \in DOMAIN stack /\ Len(stack') = Len(stack)
        BY <1>0, <2>1, <2>2, <3>3 DEF Fetched, TopBecomes
      <4>2. QED
        BY <1>p, <1>r, <2>2, <2>3, <4>1 DEF Goes
    <3>4. QED
      BY <3>2, <3>3
  <2>5. QED
    BY <1>p, <1>q, <1>r, <2>2, <2>4 DEF Goes
<1>4. CASE MetadataNotFound \/ RequestFails \/ ConstraintUnreadable
  BY <1>a, <1>4, FailEffect
<1>5. CASE Follow
  <2>1. PICK dep \in Top.pending :
          /\ dep \in Deps
          /\ AddRequirement(dep)
          /\ \/ Raised
             \/ \E x \in Frames :
                  /\ Passed(x, dep)
                  /\ UNCHANGED <<resolved, todo, outcome>>
                  /\ \/ dep.name \in DOMAIN resolved /\ TopBecomes(x)
                     \/ Calling(x, Frame(dep.name))
    BY <1>5, FollowEffect
  <2>2. outcome = "running" /\ stack # <<>> /\ Top.at = "deps"
    BY <1>5, FollowEffect
  <2>3. ASSUME NEW x \in Frames, Passed(x, dep), UNCHANGED <<resolved, todo, outcome>>,
               \/ dep.name \in DOMAIN resolved /\ TopBecomes(x)
               \/ Calling(x, Frame(dep.name))
        PROVE  Edges'
    <3>1. /\ requirements'[dep.name] =
               requirements[dep.name] \cup {[constraint |-> dep.constraint, via |-> Top.name]}
          /\ \A p \in Packages \ {dep.name} : requirements'[p] = requirements[p]
      BY <1>0, <2>1, <2>2, AddEffect
    <3>2. \A d \in Deps : \A p : Recorded(d, p) => NowRecorded(d, p)
      BY <3>1 DEF Recorded, NowRecorded, Deps
    <3>3. NowRecorded(dep, Top.name)
      BY <3>1 DEF NowRecorded
    <3>4. \A d \in x.deps \ x.pending :
            /\ NowRecorded(d, x.name)
            /\ d = dep \/ d.name \in DOMAIN resolved
      <4>1. TAKE d \in x.deps \ x.pending
      <4>2. CASE d = dep
        BY <2>3, <3>3, <4>2 DEF Passed
      <4>3. CASE d # dep
        <5>1. /\ d \in stack[Len(stack)].deps \ stack[Len(stack)].pending
              /\ x.name = stack[Len(stack)].name
          BY <1>0, <2>2, <2>3, <4>3 DEF Passed
        <5>2. Len(stack) \in DOMAIN stack /\ ~ (Len(stack) < Len(stack)) /\ d \in Deps
          BY <1>0, <1>d, <2>2, <5>1
        <5>3. QED
          BY <1>p, <2>2, <3>2, <5>1, <5>2 DEF Goes
      <4>4. QED
        BY <4>2, <4>3
    <3> DEFINE f == Frame(dep.name)
    <3>5. f.deps = {} /\ f.name = dep.name
      BY <2>1, FrameParts DEF Deps
    <3>6. \/ dep.name \in DOMAIN resolved /\ TopBecomes(x)
          \/ Calling(x, f)
      BY <2>3
    <3> HIDE DEF f
    <3>7. /\ \A i \in 1..(Len(stack) - 1) : stack'[i] = stack[i]
          /\ stack'[Len(stack)] = x /\ x.name = stack[Len(stack)].name
          /\ DOMAIN stack' \subseteq 1..(Len(stack) + 1) /\ Len(stack') \in Nat
          /\ Len(stack') >= Len(stack)
          /\ Len(stack) + 1 \in DOMAIN stack' =>
               stack'[Len(stack) + 1] = f /\ Len(stack) < Len(stack')
          /\ dep.name \in DOMAIN resolved \/ Len(stack) + 1 \in DOMAIN stack'
      BY <1>0, <2>2, <2>3, <3>6 DEF TopBecomes, Calling, Passed
    <3>8. \A i \in DOMAIN stack' : \A d \in stack'[i].deps \ stack'[i].pending :
            /\ NowRecorded(d, stack'[i].name)
            /\ \/ d.name \in DOMAIN resolved'
               \/ i < Len(stack') /\ d.name = stack'[i + 1].name
      <4>1. TAKE i \in DOMAIN stack'
      <4>2. CASE i = Len(stack) + 1
        BY <3>5, <3>7, <4>2
      <4>3. CASE i = Len(stack)
        BY <2>3, <3>4, <3>5, <3>7, <4>3
      <4>4. CASE i \in 1..(Len(stack) - 1)
        <5>1. /\ stack'[i] = stack[i] /\ i \in DOMAIN stack /\ i < Len(stack')
              /\ stack'[i + 1].name = stack[i + 1].name
          BY <1>0, <2>2, <3>7, <4>4
        <5>2. QED
          BY <1>d, <1>p, <2>2, <2>3, <3>2, <5>1 DEF Goes
      <4>5. QED
        BY <1>0, <2>2, <3>7, <4>2, <4>3, <4>4
    <3>9. QED
      BY <1>d, <1>p, <1>q, <2>2, <2>3, <3>2, <3>8 DEF Goes
  <2>4. QED
    BY <1>a, <2>1, <2>3
<1>6. CASE ReturnResolved
  <2>1. /\ outcome' = outcome /\ outcome = "running" /\ stack # <<>>
        /\ Top.at = "deps" /\ Top.pending = {}
        /\ requirements' = requirements
        /\ Len(stack') = Len(stack) - 1
        /\ DOMAIN stack' = 1..(Len(stack) - 1)
        /\ \A i \in 1..(Len(stack) - 1) : stack'[i] = stack[i]
        /\ DOMAIN resolved' = DOMAIN resolved \cup {Top.name}
        /\ resolved'[Top.name].deps = Top.deps
        /\ \A p \in DOMAIN resolved \ {Top.name} : resolved'[p] = resolved[p]
    BY <1>6, ReturnEffect
  <2>2. \A d \in Top.deps : d.name \in DOMAIN resolved /\ NowRecorded(d, Top.name)
    <3>1. \A d \in Top.deps : d \in stack[Len(stack)].deps \ stack[Len(stack)].pending
      BY <1>0, <2>1
    <3>2. Len(stack) \in DOMAIN stack /\ ~ (Len(stack) < Len(stack))
          /\ Top.name = stack[Len(stack)].name
      BY <1>0, <2>1
    <3>3. QED
      BY <1>p, <1>r, <2>1, <3>1, <3>2 DEF Goes
  <2>3. \A p \in DOMAIN resolved' : \A d \in resolved'[p].deps :
          d.name \in DOMAIN resolved' /\ NowRecorded(d, p)
    BY <1>0, <1>p, <1>r, <2>1, <2>2 DEF Goes
  <2>4. \A i \in DOMAIN stack' : \A d \in stack'[i].deps \ stack'[i].pending :
          /\ NowRecorded(d, stack'[i].name)
          /\ \/ d.name \in DOMAIN resolved'
             \/ i < Len(stack') /\ d.name = stack'[i + 1].name
    <3>1. TAKE i \in DOMAIN stack'
    <3>2. TAKE d \in stack'[i].deps \ stack'[i].pending
    <3>3. /\ stack'[i] = stack[i] /\ i \in DOMAIN stack
          /\ i < Len(stack') \/ i + 1 = Len(stack)
          /\ i < Len(stack') => stack'[i + 1] = stack[i + 1]
      BY <1>0, <2>1
    <3>4. /\ Recorded(d, stack[i].name)
          /\ d.name \in DOMAIN resolved \/ d.name = stack[i + 1].name
      BY <1>p, <2>1, <3>3 DEF Goes
    <3>5. QED
      BY <1>0, <1>r, <2>1, <3>3, <3>4
  <2>5. QED
    BY <1>q, <2>3, <2>4
<1>7. CASE BuildLockfile
  BY <1>7 DEF BuildLockfile, Edges, Goes, Recorded
<1>8. CASE UNCHANGED vars
  BY <1>8 DEF vars, Edges, Goes, Recorded
<1>9. QED
  BY <1>1, <1>2, <1>3, <1>4, <1>5, <1>6, <1>7, <1>8 DEF Next

\* Origin of the state after the step.
NowOrigin(r, p) ==
  \/ r.via = Pipeline /\ p \in todo' \cup DOMAIN resolved' \cup visiting'
  \/ r.via \in DOMAIN resolved' \ {p} /\ Needs(resolved'[r.via].deps, p, r)
  \/ \E i \in DOMAIN stack' :
       stack'[i].name = r.via /\ r.via # p /\ Needs(stack'[i].deps, p, r)

\* Where the requirements come from stays there until the walk raises.
LEMMA StepOrigins ==
  ASSUME IInv, Next \/ UNCHANGED vars
  PROVE  Origins'
<1> USE DEF IInv
<1>0. ASSUME stack # <<>>
      PROVE  /\ Len(stack) \in Nat \ {0} /\ DOMAIN stack = 1..Len(stack)
             /\ Top = stack[Len(stack)] /\ Len(stack) \in DOMAIN stack
             /\ Top.name \in Packages /\ Top.name \notin DOMAIN resolved
             /\ \A i \in 1..(Len(stack) - 1) : stack[i].name # Top.name
  BY <1>0, TopCall
<1>t. todo \subseteq Packages /\ DOMAIN resolved \subseteq Packages
  BY DEF TypeOK
<1>p. ASSUME Goes
      PROVE  /\ \A p \in Packages : \A r \in requirements[p] : Origin(r, p)
             /\ \A p \in todo \cup DOMAIN resolved \cup visiting : requirements[p] # {}
  BY <1>p DEF Origins
<1>q. ASSUME \A p \in Packages : \A r \in requirements'[p] : NowOrigin(r, p),
             \A p \in todo' \cup DOMAIN resolved' \cup visiting' : requirements'[p] # {}
      PROVE  Origins'
  BY <1>q DEF Origins, Origin, NowOrigin
<1>a. ASSUME Raised PROVE Origins'
  BY <1>a DEF Raised, Origins, Goes
\* The calls that stay keep their names, and their dependencies if they have any.
<1>k. ASSUME stack # <<>>, todo' = todo, resolved' = resolved,
             visiting \subseteq visiting',
             \A i \in DOMAIN stack :
               /\ i \in DOMAIN stack'
               /\ stack'[i].name = stack[i].name
               /\ stack[i].deps = {} \/ stack'[i].deps = stack[i].deps,
             NEW r, NEW p, Origin(r, p)
      PROVE  NowOrigin(r, p)
  <2>1. ASSUME NEW i \in DOMAIN stack, Needs(stack[i].deps, p, r)
        PROVE  stack'[i].deps = stack[i].deps
    BY <1>k, <2>1 DEF Needs
  <2>2. QED
    BY <1>k, <2>1 DEF Origin, NowOrigin
<1>1. CASE NextRoot
  <2>1. PICK name \in todo :
          /\ UNCHANGED <<requirements, resolved, outcome, listed>>
          /\ outcome = "running" /\ stack = <<>> /\ todo' = todo \ {name}
          /\ Skipped(name) \/ Rooted(name)
          /\ name \in Packages
    BY <1>1, RootEffect
  <2>2. DOMAIN stack = {} /\ visiting = {}
    BY <2>1 DEF visiting
  <2>3. visiting' \subseteq {name} /\ (name \in DOMAIN resolved \/ name \in visiting')
    <3>1. CASE Skipped(name)
      BY <3>1 DEF Skipped, visiting
    <3>2. CASE Rooted(name)
      <4>1. DOMAIN stack' = {1} /\ stack'[1].name = name
        BY <2>1, <3>2, FrameParts DEF Rooted
      <4>2. QED
        BY <4>1 DEF visiting
    <3>3. QED
      BY <2>1, <3>1, <3>2
  <2>4. \A r, p : Origin(r, p) => NowOrigin(r, p)
    BY <2>1, <2>2, <2>3 DEF Origin, NowOrigin
  <2>5. QED
    BY <1>p, <1>q, <2>1, <2>3, <2>4 DEF Goes
<1>2. CASE SelectVersion
  <2>1. PICK available \in SUBSET Versions :
          \/ Raised
          \/ \E x \in Frames : Selected(x, available) /\ UNCHANGED <<resolved, todo, outcome>>
    BY <1>2, SelectEffect
  <2>2. /\ stack # <<>> /\ Top.at = "select" /\ outcome = "running"
        /\ requirements' = requirements
    BY <1>2, SelectEffect
  <2>3. ASSUME NEW x \in Frames, Selected(x, available), UNCHANGED <<resolved, todo, outcome>>
        PROVE  Origins'
    <3>1. (\A i \in DOMAIN stack : stack'[i].name = stack[i].name) /\ visiting' = visiting
      BY <2>2, <2>3, SameNames DEF Selected
    <3>2. \A i \in DOMAIN stack : i \in DOMAIN stack' /\ stack'[i].deps = stack[i].deps
      BY <1>0, <2>2, <2>3 DEF Selected, TopBecomes
    <3>3. \A r, p : Origin(r, p) => NowOrigin(r, p)
      BY <1>k, <2>2, <2>3, <3>1, <3>2
    <3>4. QED
      BY <1>p, <1>q, <2>2, <2>3, <3>1, <3>3 DEF Goes
  <2>4. QED
    BY <1>a, <2>1, <2>3
<1>3. CASE GetMetadata
  <2>1. PICK x \in Frames : Fetched(x)
    BY <1>3, FetchEffect
  <2>2. /\ outcome = "running" /\ stack # <<>> /\ Top.at = "fetch"
        /\ UNCHANGED <<requirements, resolved, todo, outcome, listed>>
    BY <1>3, FetchEffect
  <2>3. (\A i \in DOMAIN stack : stack'[i].name = stack[i].name) /\ visiting' = visiting
    BY <2>1, <2>2, SameNames DEF Fetched
  <2>4. \A i \in DOMAIN stack :
          i \in DOMAIN stack' /\ (stack[i].deps = {} \/ stack'[i].deps = stack[i].deps)
    <3>1. stack[Len(stack)].deps = {}
      BY <1>0, <2>2 DEF Calls
    <3>2. QED
      BY <1>0, <2>1, <2>2, <3>1 DEF Fetched, TopBecomes
  <2>5. \A r, p : Origin(r, p) => NowOrigin(r, p)
    BY <1>k, <2>2, <2>3, <2>4
  <2>6. QED
    BY <1>p, <1>q, <2>2, <2>3, <2>5 DEF Goes
<1>4. CASE MetadataNotFound \/ RequestFails \/ ConstraintUnreadable
  BY <1>a, <1>4, FailEffect
<1>5. CASE Follow
  <2>1. PICK dep \in Top.pending :
          /\ dep \in Deps
          /\ AddRequirement(dep)
          /\ \/ Raised
             \/ \E x \in Frames :
                  /\ Passed(x, dep)
                  /\ UNCHANGED <<resolved, todo, outcome>>
                  /\ dep.name \notin visiting
                  /\ TopBecomes(x) \/ Calling(x, Frame(dep.name))
    BY <1>5, FollowEffect
  <2>2. outcome = "running" /\ stack # <<>> /\ Top.at = "deps"
    BY <1>5, FollowEffect
  <2>3. ASSUME NEW x \in Frames, Passed(x, dep), UNCHANGED <<resolved, todo, outcome>>,
               dep.name \notin visiting,
               TopBecomes(x) \/ Calling(x, Frame(dep.name))
        PROVE  Origins'
    <3> DEFINE f == Frame(dep.name)
               q == [constraint |-> dep.constraint, via |-> Top.name]
    <3>1. /\ requirements'[dep.name] = requirements[dep.name] \cup {q}
          /\ \A p \in Packages \ {dep.name} : requirements'[p] = requirements[p]
          /\ dep.name \in Packages
      BY <1>0, <2>1, <2>2, AddEffect
    <3>2. f.name = dep.name
      BY <2>1, FrameParts DEF Deps
    <3>3. TopBecomes(x) \/ Calling(x, f)
      BY <2>3
    <3>4. /\ q.via = Top.name /\ q.constraint = dep.constraint
          /\ dep = [name |-> dep.name, constraint |-> q.constraint]
      BY <2>1 DEF Deps
    <3> HIDE DEF f, q
    <3>5. /\ \A i \in 1..(Len(stack) - 1) : stack'[i] = stack[i]
          /\ stack'[Len(stack)] = x
          /\ x.name = stack[Len(stack)].name /\ x.deps = stack[Len(stack)].deps
          /\ \/ DOMAIN stack' = DOMAIN stack
             \/ /\ DOMAIN stack' = 1..(Len(stack) + 1)
                /\ stack'[Len(stack) + 1] = f
      BY <1>0, <2>2, <2>3, <3>3 DEF TopBecomes, Calling, Passed
    <3>6. \A i \in DOMAIN stack :
            /\ i \in DOMAIN stack'
            /\ stack'[i].name = stack[i].name /\ stack'[i].deps = stack[i].deps
      BY <1>0, <2>2, <3>5
    <3>7. visiting \subseteq visiting'
      BY <3>6 DEF visiting
    <3>8. visiting' \subseteq visiting \cup {dep.name}
      <4>1. \A i \in DOMAIN stack' : i \in DOMAIN stack \/ stack'[i].name = dep.name
        BY <1>0, <2>2, <3>2, <3>5
      <4>2. QED
        BY <3>6, <4>1 DEF visiting
    <3>9. \A r, p : Origin(r, p) => NowOrigin(r, p)
      BY <1>k, <2>2, <2>3, <3>6, <3>7
    <3>10. NowOrigin(q, dep.name)
      <4>1. Top.name # dep.name
        BY <1>0, <2>2, <2>3 DEF visiting
      <4>2. dep \in x.deps
        BY <1>0, <2>2, <2>3 DEF Passed, Calls
      <4>3. Needs(x.deps, dep.name, q)
        BY <3>4, <4>2 DEF Needs
      <4>4. Len(stack) \in DOMAIN stack' /\ x.name = Top.name
        BY <1>0, <2>2, <2>3, <3>6 DEF Passed
      <4>5. QED
        BY <3>4, <3>5, <4>1, <4>3, <4>4 DEF NowOrigin
    <3>11. \A p \in Packages : \A r \in requirements'[p] : NowOrigin(r, p)
      BY <1>p, <2>2, <3>1, <3>9, <3>10 DEF Goes
    <3>12. \A p \in todo' \cup DOMAIN resolved' \cup visiting' : requirements'[p] # {}
      <4>1. visiting \subseteq Packages
        <5>1. \A i \in DOMAIN stack : stack[i] \in Frames
          BY DEF TypeOK
        <5>2. QED
          BY <5>1 DEF visiting, Frames
      <4>2. QED
        BY <1>p, <1>t, <2>2, <2>3, <3>1, <3>8, <4>1 DEF Goes
    <3>13. QED
      BY <1>q, <3>11, <3>12
  <2>4. QED
    BY <1>a, <2>1, <2>3
<1>6. CASE ReturnResolved
  <2>1. /\ outcome' = outcome /\ outcome = "running" /\ stack # <<>>
        /\ todo' = todo
        /\ requirements' = requirements
        /\ DOMAIN stack' = 1..(Len(stack) - 1)
        /\ \A i \in 1..(Len(stack) - 1) : stack'[i] = stack[i]
        /\ DOMAIN resolved' = DOMAIN resolved \cup {Top.name}
        /\ resolved'[Top.name].deps = Top.deps
        /\ \A p \in DOMAIN resolved \ {Top.name} : resolved'[p] = resolved[p]
    BY <1>6, ReturnEffect
  <2>2. \A i \in DOMAIN stack : i = Len(stack) \/ (i \in DOMAIN stack' /\ stack'[i] = stack[i])
    BY <1>0, <2>1
  <2>3. visiting \subseteq visiting' \cup {Top.name}
    BY <1>0, <2>1, <2>2 DEF visiting
  <2>4. visiting' \subseteq visiting /\ Top.name \in visiting
    BY <1>0, <2>1 DEF visiting
  <2>5. ASSUME NEW r, NEW p, Origin(r, p)
        PROVE  NowOrigin(r, p)
    <3>1. CASE r.via = Pipeline /\ p \in todo \cup DOMAIN resolved \cup visiting
      BY <2>1, <2>3, <3>1 DEF NowOrigin
    <3>2. CASE r.via \in DOMAIN resolved \ {p} /\ Needs(resolved[r.via].deps, p, r)
      BY <1>0, <2>1, <3>2 DEF NowOrigin
    <3>3. CASE \E i \in DOMAIN stack :
                 stack[i].name = r.via /\ r.via # p /\ Needs(stack[i].deps, p, r)
      BY <1>0, <2>1, <2>2, <3>3 DEF NowOrigin
    <3>4. QED
      BY <2>5, <3>1, <3>2, <3>3 DEF Origin
  <2>6. QED
    BY <1>p, <1>q, <2>1, <2>4, <2>5 DEF Goes
<1>7. CASE BuildLockfile
  <2>1. outcome = "running" /\ UNCHANGED <<requirements, resolved, stack, todo>>
    BY <1>7 DEF BuildLockfile
  <2>2. visiting' = visiting
    BY <2>1 DEF visiting
  <2>3. \A r, p : Origin(r, p) => NowOrigin(r, p)
    BY <2>1, <2>2 DEF Origin, NowOrigin
  <2>4. QED
    BY <1>p, <1>q, <2>1, <2>2, <2>3 DEF Goes
<1>8. CASE UNCHANGED vars
  <2>1. UNCHANGED <<requirements, resolved, stack, todo, outcome>>
    BY <1>8 DEF vars
  <2>2. visiting' = visiting
    BY <2>1 DEF visiting
  <2>3. \A r, p : Origin(r, p) => NowOrigin(r, p)
    BY <2>1, <2>2 DEF Origin, NowOrigin
  <2>4. CASE Goes
    BY <1>p, <1>q, <2>1, <2>2, <2>3, <2>4
  <2>5. CASE ~ Goes
    BY <2>1, <2>5 DEF Goes, Origins
  <2>6. QED
    BY <2>4, <2>5
<1>9. QED
  BY <1>1, <1>2, <1>3, <1>4, <1>5, <1>6, <1>7, <1>8 DEF Next

-----------------------------------------------------------------------------
(* The theorems *)

\* The pipeline's requirements are those of todo, which nothing has met yet.
LEMMA InitInv ==
  ASSUME Init
  PROVE  IInv
<1>1. PICK root_deps \in SUBSET Deps :
        /\ requirements = [p \in Packages |->
             {[constraint |-> d.constraint, via |-> Pipeline] :
                d \in {e \in root_deps : e.name = p}}]
        /\ todo = {d.name : d \in root_deps}
  BY DEF Init
<1>2. /\ DOMAIN resolved = {} /\ stack = <<>> /\ outcome = "running"
      /\ listed = [p \in Packages |-> {}] /\ DOMAIN stack = {}
      /\ resolved = [p \in {} |-> 0] /\ <<>> \in Seq(Frames)
  BY DEF Init
<1>3. todo \subseteq Packages /\ visiting = {}
  BY <1>1, <1>2 DEF Deps, visiting
<1>4. requirements \in [Packages -> SUBSET Requirements]
  BY <1>1 DEF Requirements, Deps
<1>5. TypeOK
  BY <1>2, <1>3, <1>4 DEF TypeOK
<1>6. Calls /\ Choices /\ Edges
  BY <1>2 DEF Calls, Choices, Edges
<1>7. \A p \in Packages : \A r \in requirements[p] : r.via = Pipeline /\ p \in todo
  BY <1>1
<1>8. \A p \in todo : requirements[p] # {}
  <2>1. TAKE p \in todo
  <2>2. PICK d \in root_deps : d.name = p
    BY <1>1
  <2>3. [constraint |-> d.constraint, via |-> Pipeline] \in requirements[p]
    BY <1>1, <1>3, <2>2
  <2>4. QED
    BY <2>3
<1>9. Origins
  BY <1>2, <1>3, <1>7, <1>8 DEF Origins, Origin
<1>10. QED
  BY <1>5, <1>6, <1>9 DEF IInv

\* The walk's invariant: its types, the path of the calls, the choices that
\* stand, the dependencies dealt with and the origin of every requirement.
THEOREM Invariance == Spec => []IInv
<1>1. IInv /\ [Next]_vars => IInv'
  BY StepType, StepCalls, StepChoices, StepEdges, StepOrigins DEF IInv
<1>2. QED
  BY InitInv, <1>1, PTL DEF Spec

\* A lockfile is complete, consistent and names nothing that is not needed,
\* whatever packages, versions and constraints there are.
THEOREM LocksSoundly == Spec => []LockfileSound
<1>1. ASSUME IInv, outcome = "locked", NEW p \in Packages
      PROVE  /\ \A r \in requirements[p] : r.via = Pipeline =>
                  p \in DOMAIN resolved /\ resolved[p].version \in r.constraint
             /\ p \in DOMAIN resolved =>
                  \A d \in resolved[p].deps :
                    /\ d.name \in DOMAIN resolved
                    /\ resolved[d.name].version \in d.constraint
             /\ p \in DOMAIN resolved =>
                  \E r \in requirements[p] :
                    \/ r.via = Pipeline
                    \/ /\ r.via \in DOMAIN resolved \ {p}
                       /\ [name |-> p, constraint |-> r.constraint] \in resolved[r.via].deps
  <2>1. Goes /\ DOMAIN stack = {} /\ visiting = {} /\ todo = {}
    BY <1>1 DEF IInv, Goes, Calls, visiting
  <2>2. \A n \in DOMAIN resolved : \A r \in requirements[n] : resolved[n].version \in r.constraint
    BY <1>1, <2>1 DEF IInv, Choices, Chosen, Satisfies
  <2>3. \A r \in requirements[p] :
          \/ r.via = Pipeline /\ p \in DOMAIN resolved
          \/ r.via \in DOMAIN resolved \ {p} /\ Needs(resolved[r.via].deps, p, r)
    BY <1>1, <2>1 DEF IInv, Origins, Origin
  <2>4. \A r \in requirements[p] : r.via = Pipeline => p \in DOMAIN resolved
    BY <1>1, <2>3, NamesAssumption DEF IInv, TypeOK
  <2>5. \A d \in resolved[p].deps : p \in DOMAIN resolved =>
          d.name \in DOMAIN resolved /\ Recorded(d, p)
    BY <1>1, <2>1 DEF IInv, Edges
  <2>6. \A d \in resolved[p].deps : p \in DOMAIN resolved =>
          resolved[d.name].version \in d.constraint
    BY <2>2, <2>5 DEF Recorded
  <2>7. p \in DOMAIN resolved => requirements[p] # {}
    BY <1>1, <2>1 DEF IInv, Origins
  <2>8. QED
    BY <2>2, <2>3, <2>4, <2>5, <2>6, <2>7 DEF Needs
<1>2. IInv => LockfileSound
  BY <1>1 DEF LockfileSound
<1>3. QED
  BY Invariance, <1>2, PTL

\* No version the registry listed above the locked one meets all requirements,
\* those that came after the choice included.
THEOREM LocksHighest == Spec => []LockedIsHighest
<1>1. IInv => LockedIsHighest
  BY DEF IInv, Choices, Chosen, Goes, LockedIsHighest
<1>2. QED
  BY Invariance, <1>1, PTL

-----------------------------------------------------------------------------
(* The errors *)

\* What CyclesAreReal says of a step.
CycleIsReal ==
  outcome' = "cycle" =>
    /\ cycle' # <<>>
    /\ \A i \in DOMAIN cycle' :
         LET next == cycle'[IF i = Len(cycle') THEN 1 ELSE i + 1] IN
         \E f \in {stack[k] : k \in DOMAIN stack} :
           f.name = cycle'[i] /\ \E d \in f.deps : d.name = next

\* What ConflictsAreGreedy says of a step.
ConflictIsGreedy ==
  outcome' = "conflict" =>
    \A p \in conflicting' : \E r \in requirements'[p] :
      LET others == {v \in listed'[p] : Satisfies(v, requirements'[p] \ {r})} IN
      \A v \in others : v \in r.constraint => \E w \in others : w > v

\* The part of the path that a cycle names is one: from the call of the package
\* to the one on top, whose dependency it is.
LEMMA CyclicIsReal ==
  ASSUME IInv, stack # <<>>, NEW dep \in Top.pending, Cyclic(dep)
  PROVE  CycleIsReal
<1> DEFINE m == Len(stack)
           start == CHOOSE i \in DOMAIN stack : stack[i].name = dep.name
           n == m - start + 1
<1>1. /\ m \in Nat \ {0} /\ DOMAIN stack = 1..m /\ Top = stack[m] /\ m = Len(stack)
  BY TopCall DEF IInv
<1>2. \E i \in DOMAIN stack : stack[i].name = dep.name
  BY DEF Cyclic, visiting
<1>3. start \in DOMAIN stack /\ stack[start].name = dep.name
  BY <1>2
<1>4. cycle' = [i \in 1..(m - start + 1) |-> stack[start + i - 1].name]
  BY DEF Cyclic, CycleTo
<1> HIDE DEF start, m
<1>5. n \in Nat \ {0} /\ start \in 1..m /\ start + n - 1 = m
  BY <1>1, <1>3
<1>6. /\ cycle' = [i \in 1..n |-> stack[start + i - 1].name]
      /\ \A i \in 1..n : start + i - 1 \in 1..m
  BY <1>1, <1>4, <1>5
<1> HIDE DEF n
<1>7. DOMAIN cycle' = 1..n /\ Len(cycle') = n
      /\ \A i \in 1..n : cycle'[i] = stack[start + i - 1].name
  <2>1. DOMAIN cycle' = 1..n /\ \A i \in 1..n : cycle'[i] = stack[start + i - 1].name
    BY <1>6
  <2>2. \A i \in 1..m : stack[i].name \in Packages
    <3>1. \A i \in 1..m : stack[i] \in Frames
      BY <1>1 DEF IInv, TypeOK
    <3>2. QED
      BY <3>1 DEF Frames
  <2>3. cycle' \in [1..n -> Packages]
    BY <1>6, <2>2
  <2>4. Len(cycle') = n
    BY <1>5, <2>3, LenProperties
  <2>5. QED
    BY <2>1, <2>4
<1>8. ASSUME NEW i \in 1..n
      PROVE  \E k \in DOMAIN stack :
               /\ stack[k].name = cycle'[i]
               /\ \E d \in stack[k].deps : d.name = cycle'[IF i = n THEN 1 ELSE i + 1]
  <2> DEFINE k == start + i - 1
  <2>1. k \in DOMAIN stack /\ stack[k].name = cycle'[i]
    BY <1>1, <1>6, <1>7
  <2>2. CASE i = n
    <3>1. k = m /\ 1 \in 1..n /\ start + 1 - 1 = start
      BY <1>5, <2>2
    <3>2. cycle'[1] = dep.name
      BY <1>3, <1>7, <3>1
    <3>3. dep \in stack[k].deps
      BY <1>1, <2>1, <3>1 DEF IInv, Calls
    <3>4. QED
      BY <2>1, <2>2, <3>2, <3>3
  <2>3. CASE i # n
    <3>1. k < m /\ i + 1 \in 1..n /\ start + (i + 1) - 1 = k + 1
      BY <1>5, <2>3
    <3>2. cycle'[i + 1] = stack[k + 1].name
      BY <1>7, <3>1
    <3> HIDE DEF k
    <3>3. \E d \in stack[k].deps : d.name = stack[k + 1].name
      BY <1>1, <2>1, <3>1 DEF IInv, Calls
    <3>4. QED
      BY <2>1, <2>3, <3>2, <3>3
  <2>4. QED
    BY <2>2, <2>3
<1>9. cycle' # <<>>
  BY <1>5, <1>7
<1>10. QED
  BY <1>7, <1>8, <1>9 DEF CycleIsReal

\* No version listed meets what is asked of the package: any requirement, of
\* which there is one, leaves none of those the others allow.
LEMMA NoCandidateIsGreedy ==
  ASSUME IInv, SelectVersion
  PROVE  ConflictIsGreedy
<1>1. PICK available \in SUBSET Versions :
        /\ listed' = [listed EXCEPT ![Top.name] = available]
        /\ outcome' = "conflict" =>
             Candidates(available) = {} /\ conflicting' = {Top.name}
  BY DEF SelectVersion, Raise
<1>2. outcome = "running" /\ stack # <<>> /\ requirements' = requirements
  BY DEF SelectVersion
<1>3. Top.name \in Packages /\ Top.name \in visiting
  BY <1>2, TopCall DEF IInv, visiting
<1>4. listed'[Top.name] = available
  BY <1>1, <1>3 DEF IInv, TypeOK
<1>5. PICK r \in requirements[Top.name] : TRUE
  BY <1>2, <1>3 DEF IInv, Origins, Goes
<1>6. \A v : Satisfies(v, requirements[Top.name] \ {r}) /\ v \in r.constraint =>
        Satisfies(v, requirements[Top.name])
  BY DEF Satisfies
<1>7. ASSUME outcome' = "conflict", NEW v \in available, v \in r.constraint,
             Satisfies(v, requirements[Top.name] \ {r})
      PROVE  FALSE
  BY <1>1, <1>6, <1>7 DEF Candidates
<1>8. QED
  BY <1>1, <1>2, <1>4, <1>5, <1>7 DEF ConflictIsGreedy

\* The package has its version and the new requirement excludes it: it was the
\* highest for all the others.
LEMMA KnownIsGreedy ==
  ASSUME IInv, Follow, NEW dep \in Top.pending, AddRequirement(dep), Known(dep)
  PROVE  ConflictIsGreedy
<1>1. outcome = "running" /\ stack # <<>> /\ listed' = listed
  BY DEF Follow
<1>2. dep \in Deps /\ Top.name \in Packages
  <2>1. Top \in Frames
    BY <1>1, TopName DEF IInv
  <2>2. QED
    BY <2>1 DEF Frames
<1> DEFINE q == [constraint |-> dep.constraint, via |-> Top.name]
           p == dep.name
           c == resolved[p].version
<1>3. requirements'[p] = requirements[p] \cup {q} /\ p \in DOMAIN resolved
  BY <1>2, AddEffect DEF IInv, Known
<1>4. /\ c \in listed[p] /\ Satisfies(c, requirements[p])
      /\ \A w \in listed[p] : Satisfies(w, requirements[p]) => w <= c
  BY <1>1, <1>3 DEF IInv, Choices, Chosen, Goes
<1>5. \A v \in listed[p] : v \in Nat
  BY <1>1, <1>3, NamesAssumption DEF IInv, TypeOK
<1>6. outcome' = "conflict" => ~ Satisfies(c, requirements'[p]) /\ conflicting' = {p}
  BY <1>1 DEF Known, Raise
<1> HIDE DEF q, p, c
<1>7. ASSUME outcome' = "conflict"
      PROVE  \E r \in requirements'[p] :
               \A v \in listed'[p] :
                 Satisfies(v, requirements'[p] \ {r}) /\ v \in r.constraint =>
                   \E w \in listed'[p] : Satisfies(w, requirements'[p] \ {r}) /\ w > v
  <2>1. ~ Satisfies(c, requirements'[p])
    BY <1>6, <1>7
  <2>2. q \notin requirements[p] /\ c \notin q.constraint
    BY <1>3, <1>4, <2>1 DEF Satisfies
  <2>3. requirements'[p] \ {q} = requirements[p] /\ q \in requirements'[p]
    BY <1>3, <2>2
  <2>4. ASSUME NEW v \in listed[p], Satisfies(v, requirements[p]), v \in q.constraint
        PROVE  c > v
    BY <1>4, <1>5, <2>2, <2>4
  <2>5. QED
    BY <1>1, <1>4, <2>3, <2>4
<1>8. QED
  BY <1>6, <1>7 DEF ConflictIsGreedy

\* A cycle error names a cycle: every package in it was selected at a version that
\* depends on the next (_resolve_graph, path_stack).
THEOREM CyclesReal == Spec => CyclesAreReal
<1>1. ASSUME IInv, Next
      PROVE  CycleIsReal
  <2>1. CASE \/ NextRoot \/ SelectVersion \/ GetMetadata \/ MetadataNotFound
             \/ RequestFails \/ ConstraintUnreadable \/ ReturnResolved
             \/ BuildLockfile
    <3>1. outcome = "running" /\ outcome' # "cycle"
      BY <2>1 DEF NextRoot, SelectVersion, GetMetadata, MetadataNotFound,
                  RequestFails, ConstraintUnreadable, ReturnResolved,
                  BuildLockfile, Raise
    <3>2. QED
      BY <3>1 DEF CycleIsReal
  <2>2. CASE Follow
    <3>1. PICK dep \in Top.pending :
            AddRequirement(dep) /\ (Cyclic(dep) \/ Known(dep) \/ Fresh(dep))
      BY <2>2 DEF Follow
    <3>2. stack # <<>> /\ outcome = "running"
      BY <2>2 DEF Follow
    <3>3. CASE Cyclic(dep)
      BY <1>1, <3>2, <3>3, CyclicIsReal
    <3>4. CASE Known(dep) \/ Fresh(dep)
      BY <3>2, <3>4 DEF Known, Fresh, Raise, CycleIsReal
    <3>5. QED
      BY <3>1, <3>3, <3>4
  <2>3. QED
    BY <1>1, <2>1, <2>2 DEF Next
<1>2. IInv /\ [Next]_vars => [CycleIsReal]_vars
  BY <1>1
<1>3. QED
  BY Invariance, <1>2, PTL DEF Spec, CyclesAreReal, CycleIsReal

\* A conflict error is raised only where the choice of the highest version, never
\* taken back, leaves none: whichever version meets the other requirements and the
\* one that failed, a higher one met the others (resolve_name, _select_version).
THEOREM ConflictsOfGreed == Spec => ConflictsAreGreedy
<1>1. ASSUME IInv, Next
      PROVE  ConflictIsGreedy
  <2>1. CASE \/ NextRoot \/ GetMetadata \/ MetadataNotFound \/ RequestFails
             \/ ConstraintUnreadable \/ ReturnResolved \/ BuildLockfile
    <3>1. outcome = "running" /\ outcome' # "conflict"
      BY <2>1 DEF NextRoot, GetMetadata, MetadataNotFound, RequestFails,
                  ConstraintUnreadable, ReturnResolved, BuildLockfile, Raise
    <3>2. QED
      BY <3>1 DEF ConflictIsGreedy
  <2>2. CASE SelectVersion
    BY <1>1, <2>2, NoCandidateIsGreedy
  <2>3. CASE Follow
    <3>1. PICK dep \in Top.pending :
            AddRequirement(dep) /\ (Cyclic(dep) \/ Known(dep) \/ Fresh(dep))
      BY <2>3 DEF Follow
    <3>2. outcome = "running"
      BY <2>3 DEF Follow
    <3>3. CASE Known(dep)
      BY <1>1, <2>3, <3>1, <3>3, KnownIsGreedy
    <3>4. CASE Cyclic(dep) \/ Fresh(dep)
      BY <3>2, <3>4 DEF Cyclic, Fresh, Raise, ConflictIsGreedy
    <3>5. QED
      BY <3>1, <3>3, <3>4
  <2>4. QED
    BY <1>1, <2>1, <2>2, <2>3 DEF Next
<1>2. IInv /\ [Next]_vars => [ConflictIsGreedy]_vars
  BY <1>1
<1>3. QED
  BY Invariance, <1>2, PTL DEF Spec, ConflictsAreGreedy, ConflictIsGreedy
=============================================================================
