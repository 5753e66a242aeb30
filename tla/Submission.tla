------------------------------ MODULE Submission ------------------------------
(***************************************************************************)
(* The way of one pipeline document through the stages that read it: the   *)
(* parser (engine/parser.py), the resolver's choice of a version for its   *)
(* dependency (registry/resolver.py), the scheduler's graph, the limits of *)
(* its job's container (engine/runner.py) and the search for the files of  *)
(* its artifacts (engine/main.py).  The parser checks a document once;     *)
(* every later stage reads the same fields with code of its own.           *)
(*                                                                         *)
(* A document has one dependency, jobs with the same resources, and        *)
(* artifacts, each with the path of a file, under a name with a dot before *)
(* it or without, that a step of the jobs names and writes, names only, or *)
(* does not name.  What is missing, unknown or of another type in it makes *)
(* one of its parts malformed.                                             *)
(***************************************************************************)
EXTENDS SemVer, FiniteSets

CONSTANTS
  Documents,  \* what is submitted
  Versions    \* versions that may be published of the dependency

\* What the YAML reader and SemVer.parse make of a text: every document has its
\* fields, whatever their values.
ASSUME SubmissionAssumption ==
  /\ Versions \subseteq SemVers
  /\ \A d \in Documents :
       /\ d.constraint \in Seq(Words)
       /\ d.cpu.micro \in Nat
       /\ d.memory.tenths \in Nat /\ d.memory.unit \in Nat
       /\ Len(d.artifacts) \in Nat /\ DOMAIN d.artifacts = 1..Len(d.artifacts)

VARIABLES
  doc,         \* the document
  pc,          \* the stage it is at, or how it ended
  available,   \* what the registry lists
  chosen,      \* the version in the lockfile, as a set of at most one
  limits,      \* the limits of the container: CPU quota, bytes of memory
  found        \* the artifacts, by their index, with the file found for each

vars == <<doc, pc, available, chosen, limits, found>>

NoLimits == [quota |-> -1, bytes |-> -1]

Init ==
  /\ doc \in Documents
  /\ pc = "parse"
  /\ available = {} /\ chosen = {}
  /\ limits = NoLimits
  /\ found = {}

-----------------------------------------------------------------------------
(* PipelineParser.parse_and_validate *)

\* Mutant: the check of needs looks for the job itself only.
NeedsAcceptedInPart(needs) == \A j \in DOMAIN needs : j \notin needs[j]

\* The loop over the jobs' needs, once all jobs are known.
NeedsAccepted(needs) ==
  \A j \in DOMAIN needs : needs[j] \subseteq DOMAIN needs \ {j}

\* _validate_cpu: float() reads "nan" and "inf", and neither is <= 0.
CpuAccepted(cpu) ==
  cpu.kind \in {"nan", "inf"} \/ (cpu.kind = "number" /\ cpu.micro > 0)

\* MEMORY_PATTERN: digits, a fraction or none, a unit or none.
MemoryAccepted(memory) == memory.kind = "number"

\* _validate_relative_path
PathAccepted(path) == path \notin {"absolute", "parent"}

\* _validate_artifact_paths: the name of the file occurs in a step's command.
ProducedByStep(path) == path # "unmentioned"

DependenciesAccepted ==
  /\ doc.malformed # "dependency"
  /\ is_valid_semver_constraint(doc.constraint)

JobsAccepted ==
  /\ doc.malformed # "job"
  /\ CpuAccepted(doc.cpu) /\ MemoryAccepted(doc.memory)
  /\ NeedsAccepted(doc.needs)

\* A step name that occurs twice in a job is one of the malformed steps.
StepsAccepted == doc.malformed # "step"

ArtifactsAccepted ==
  /\ doc.malformed # "artifact"
  /\ \A i \in DOMAIN doc.artifacts : PathAccepted(doc.artifacts[i].path)

Accepted ==
  /\ doc.malformed # "pipeline"
  /\ DependenciesAccepted
  /\ JobsAccepted /\ StepsAccepted
  /\ ArtifactsAccepted
  /\ \A i \in DOMAIN doc.artifacts : ProducedByStep(doc.artifacts[i].path)

Accept ==
  /\ pc = "parse" /\ Accepted
  /\ pc' = "resolve"
  /\ UNCHANGED <<doc, available, chosen, limits, found>>

\* ParseError: 400
Refuse ==
  /\ pc = "parse" /\ ~ Accepted
  /\ pc' = "refused"
  /\ UNCHANGED <<doc, available, chosen, limits, found>>

-----------------------------------------------------------------------------
(* DependencyResolver: from_string, list_versions, _select_version *)

Unreadable ==
  /\ pc = "resolve" /\ ~ Readable(doc.constraint)
  /\ pc' = "unreadable"
  /\ UNCHANGED <<doc, available, chosen, limits, found>>

Candidates(versions) == {v \in versions : Satisfied(doc.constraint, v)}

\* candidates.sort(key=version_key, reverse=True); candidates[0]
IsChosen(v, candidates) ==
  v \in candidates /\ \A w \in candidates \ {v} : KeyBelow(w, v)

Resolve ==
  /\ pc = "resolve" /\ Readable(doc.constraint)
  /\ available' \in SUBSET Versions
  /\ \/ /\ Candidates(available') = {}
        /\ pc' = "no_version"
        /\ UNCHANGED chosen
     \/ \E v \in available' :
          /\ IsChosen(v, Candidates(available'))
          /\ chosen' = {v}
          /\ pc' = "schedule"
  /\ UNCHANGED <<doc, limits, found>>

-----------------------------------------------------------------------------
(* DAGScheduler: its check of the needs (scheduler.py:58) finds nothing that *)
(* the parser has let through; its cycles are SchedulerPlan's matter.        *)

BuildGraph ==
  /\ pc = "schedule"
  /\ pc' = "run"
  /\ UNCHANGED <<doc, available, chosen, limits, found>>

-----------------------------------------------------------------------------
(* run_job, as far as it reads the resources *)

\* int(nan) and int(inf) raise; so does int() of a fraction without a unit.
CpuRaises == doc.cpu.kind \in {"nan", "inf"}
MemoryRaises == doc.memory.unit = 1 /\ doc.memory.fraction

LimitsRaise ==
  /\ pc = "run" /\ (CpuRaises \/ MemoryRaises)
  /\ pc' = "limits_unreadable"
  /\ UNCHANGED <<doc, available, chosen, limits, found>>

\* Mutant: the number is cut before it is multiplied.
parse_memory_cut(memory) == (memory.tenths \div 10) * memory.unit

\* _parse_memory: the number times its unit, cut to bytes.
parse_memory(memory) == (memory.tenths * memory.unit) \div 10

\* int(cpu_limit * 100000)
cpu_quota(cpu) == cpu.micro \div 10

CreateContainer ==
  /\ pc = "run" /\ ~ CpuRaises /\ ~ MemoryRaises
  /\ limits' = [quota |-> cpu_quota(doc.cpu), bytes |-> parse_memory(doc.memory)]
  /\ pc' = "publish"
  /\ UNCHANGED <<doc, available, chosen, found>>

-----------------------------------------------------------------------------
(* The artifacts' files, after the job (execute_job).  What is found is then *)
(* published, or refused: that is JobExecution's matter.                     *)

\* The file that an artifact's path names.
File(i) ==
  [dotted |-> doc.artifacts[i].path = "dotted", name |-> doc.artifacts[i].name]

Written == {File(i) : i \in {k \in DOMAIN doc.artifacts :
                               doc.artifacts[k].path \in {"plain", "dotted"}}}

\* lstrip("./") takes the dot of a file's name for the one of "./".
LookedFor(i) == [dotted |-> FALSE, name |-> doc.artifacts[i].name]

FindArtifacts ==
  /\ pc = "publish"
  /\ found' = {<<i, LookedFor(i)>> : i \in {k \in DOMAIN doc.artifacts :
                                              LookedFor(k) \in Written}}
  /\ pc' = "found"
  /\ UNCHANGED <<doc, available, chosen, limits>>

-----------------------------------------------------------------------------

Next ==
  \/ Accept \/ Refuse
  \/ Unreadable \/ Resolve
  \/ BuildGraph
  \/ LimitsRaise \/ CreateContainer
  \/ FindArtifacts

Spec == Init /\ [][Next]_vars

-----------------------------------------------------------------------------
(* The order of semver.org, written down a second time: versions are compared *)
(* as sequences of pairs, of which the first difference decides.  The end of a *)
(* prerelease is below its identifiers, numbers are below other identifiers,   *)
(* and a release is above them all.                                            *)

IdentifierWeight(id) == IF id.numeric THEN <<1, id.int>> ELSE <<2, id.text>>

Weights(v) ==
  [i \in 1..3 |-> <<0, v.core[i]>>]
  \o (IF v.prerelease = <<>> THEN << <<3, 0>> >>
      ELSE [i \in DOMAIN v.prerelease |-> IdentifierWeight(v.prerelease[i])]
           \o << <<0, 0>> >>)

Precedes(a, b) ==
  LET s == Weights(a)
      t == Weights(b)
  IN \E i \in DOMAIN s \cap DOMAIN t :
       TupleBelow(s[i], t[i]) /\ \A k \in 1..(i - 1) : s[k] = t[k]

\* The versions between base and the next that may break it: the numbers up to
\* a place are those of base.  The prereleases of that next version come before
\* it and are among them.
Near(v, base, place) ==
  \/ \A i \in 1..place : v.core[i] = base.core[i]
  \/ /\ v.prerelease # <<>>
     /\ v.core = [i \in 1..3 |-> IF i < place THEN base.core[i]
                                 ELSE IF i = place THEN base.core[i] + 1 ELSE 0]

FirstNonzero(base) ==
  IF base.core = <<0, 0, 0>> THEN 3 ELSE Least({i \in 1..3 : base.core[i] # 0})

\* One word of a constraint, with the version it stands for.
Means(op, base, v) ==
  CASE op = "^" -> ~ Precedes(v, base) /\ Near(v, base, FirstNonzero(base))
    [] op = "~" -> /\ ~ Precedes(v, base)
                   /\ Near(v, base, IF FirstNonzero(base) = 3 THEN 3 ELSE 2)
    [] op \in {"none", "="} -> ~ Precedes(v, base) /\ ~ Precedes(base, v)
    [] op = "!=" -> Precedes(v, base) \/ Precedes(base, v)
    [] op = ">=" -> ~ Precedes(v, base)
    [] op = "<=" -> ~ Precedes(base, v)
    [] op = ">" -> Precedes(base, v)
    [] op = "<" -> Precedes(v, base)

\* A version after an operator that stands alone is that operator's.
Meant(text, v) ==
  \A i \in DOMAIN text : text[i].kind # "none" =>
    Means(IF text[i].op = "none" /\ i > 1 THEN text[i - 1].op ELSE text[i].op,
          text[i].version, v)

-----------------------------------------------------------------------------
(* Properties *)

\* A version is locked only if the constraint, as it is written in the
\* document, means it; and of these there is none to be locked that the
\* resolver takes for unsuitable (from_string, compare_versions).
CandidatesMeant ==
  pc \notin {"parse", "refused", "resolve", "unreadable"} =>
    Candidates(available) = {v \in available : Meant(doc.constraint, v)}

\* The locked version is the highest that fits (_select_version), as long as
\* none that fits is a prerelease; with prereleases at least its numbers are.
ChosenHighest ==
  \A v \in chosen : \A w \in Candidates(available) :
    /\ ~ TupleBelow(v.core, w.core)
    /\ Precedes(v, w) => \E u \in Candidates(available) : u.prerelease # <<>>

\* What the parser lets through the later stages can read, but for three gaps:
\* a constraint of "=" words only, a cpu that is not a finite number, and a
\* fraction of bytes (from_string, _parse_memory).  The needs that reach the
\* scheduler are other jobs of the document (_build_graph).  The file of an
\* artifact is the one its path names, found if it was written, but for a name
\* that begins with a dot (execute_job).
StagesAgree ==
  /\ pc = "unreadable" => \A i \in DOMAIN doc.constraint : doc.constraint[i].op = "="
  /\ pc = "schedule" =>
       \A j \in DOMAIN doc.needs : doc.needs[j] \subseteq DOMAIN doc.needs \ {j}
  /\ pc = "limits_unreadable" =>
       doc.cpu.kind # "number" \/ (doc.memory.fraction /\ doc.memory.unit = 1)
  /\ pc = "found" =>
       \A i \in DOMAIN doc.artifacts : doc.artifacts[i].path # "dotted" =>
         {e[2] : e \in {x \in found : x[1] = i}} = {File(i)} \cap Written

\* A job runs within the limits of its document, and with a limit at all unless
\* the document asks for less than a byte or a hundred thousandth of a CPU
\* (run_job: a quota or a size of 0 is none to Docker).
LimitsAsWritten ==
  limits # NoLimits =>
    /\ 10 * limits.bytes <= doc.memory.tenths * doc.memory.unit
    /\ 10 * limits.quota <= doc.cpu.micro
    /\ limits.bytes = 0 => doc.memory.tenths * doc.memory.unit < 10
    /\ limits.quota = 0 => doc.cpu.micro < 10

\* README.md:67, the resolver "selects the **highest** version satisfying all
\* constraints".
SelectedHighest ==
  \A v \in chosen : \A w \in Candidates(available) : ~ Precedes(v, w)
=============================================================================
