------------------------------ MODULE FollowRun ------------------------------
(***************************************************************************)
(* Runs and those who watch them.  `forge run --follow` (cli/forge.py)     *)
(* submits a pipeline, follows its log and turns the run's status into an  *)
(* exit code; other clients follow a log or ask for the status of a run    *)
(* (engine/main.py).  The check of a submitter's token, the pipelines'     *)
(* background tasks and the followers' generators (engine/logs.py) compete *)
(* for the threads of one pool, and a restart of the engine forgets all    *)
(* runs.                                                                   *)
(*                                                                         *)
(* Of a run there is its thread, its log as a number of lines, its status  *)
(* and its entries; PipelineRun and LogStream have the details of both.    *)
(* The pool is external: it hands its threads out in the order in which    *)
(* they are asked for.                                                     *)
(***************************************************************************)
EXTENDS Integers, Sequences, SequencesExt, FiniteSets

CONSTANTS
  Runs,       \* runs; also the `forge run --follow` that submits each
  Watchers,   \* other clients, each of which makes one request,
  watched,    \*   and the run that each asks about
  Jobs,       \* the jobs of each pipeline
  LINES,      \* bound: lines in the log of a run
  POOL,       \* threads of the server's pool
  MAX_FAULTS  \* bound: restarts, lost answers and clients that go away

ASSUME ClientsAssumption == Runs \cap Watchers = {}
ASSUME WatchedAssumption == watched \in [Watchers -> Runs]
ASSUME BoundsAssumption ==
  LINES \in Nat /\ POOL \in Nat \ {0} /\ MAX_FAULTS \in Nat

VARIABLES
  status,    \* RunState.status, "none" before the submission
  entries,   \* the keys of RunState.jobs
  known,     \* run_storage
  checker,   \* is the run's status checker registered
  lines,     \* lines of combined.jsonl
  queue,     \* the claims that wait for a thread
  holders,   \* the claims that have one
  client,    \* where each client is, and what it has seen
  stream,    \* each follower's generator
  faults

engine == <<status, entries, known, checker>>
pool == <<queue, holders>>
vars == <<engine, lines, pool, client, stream, faults>>

Clients == Runs \cup Watchers
Of(c) == IF c \in Runs THEN c ELSE watched[c]

AuthClaim(r) == <<"auth", r>>
RunClaim(r) == <<"run", r>>
StreamClaim(c) == <<"stream", c>>
Claims == {AuthClaim(r) : r \in Runs} \cup {RunClaim(r) : r \in Runs}
            \cup {StreamClaim(c) : c \in Clients}

Live == {"queued", "running"}
Verdicts == {"succeeded", "failed"}

NoAnswer == [code |-> 0, status |-> "none", listed |-> {}]

Init ==
  /\ status = [r \in Runs |-> "none"]
  /\ entries = [r \in Runs |-> {}]
  /\ known = {} /\ checker = {}
  /\ lines = [r \in Runs |-> 0]
  /\ queue = <<>> /\ holders = {}
  /\ client = [c \in Clients |-> [at |-> "idle", answer |-> NoAnswer, exit |-> -1]]
  /\ stream = [c \in Clients |-> [at |-> "read", offset |-> 0, pending |-> 0]]
  /\ faults = 0

-----------------------------------------------------------------------------
(* The pool *)

Claim(k) == queue' = Append(queue, k) /\ UNCHANGED holders

Release(k) == holders' = holders \ {k} /\ UNCHANGED queue

\* Mutant: whoever comes first.
GrantAny ==
  /\ Cardinality(holders) < POOL
  /\ \E i \in DOMAIN queue :
       /\ holders' = holders \cup {queue[i]}
       /\ queue' = RemoveAt(queue, i)
  /\ UNCHANGED <<engine, lines, client, stream, faults>>

Grant ==
  /\ Cardinality(holders) < POOL /\ queue # <<>>
  /\ holders' = holders \cup {Head(queue)}
  /\ queue' = Tail(queue)
  /\ UNCHANGED <<engine, lines, client, stream, faults>>

-----------------------------------------------------------------------------
(* execute_pipeline, on its thread *)

Works(r) == RunClaim(r) \in holders

SetStatus(r, s) == status' = [status EXCEPT ![r] = s]

Begin(r) ==
  /\ Works(r) /\ status[r] = "queued"
  /\ SetStatus(r, "running")
  /\ UNCHANGED <<entries, known, checker, lines, pool, client, stream, faults>>

\* A job writes to the log before its entry is made.
Log(r) ==
  /\ Works(r) /\ status[r] = "running" /\ entries[r] # Jobs
  /\ lines[r] < LINES
  /\ lines' = [lines EXCEPT ![r] = @ + 1]
  /\ UNCHANGED <<engine, pool, client, stream, faults>>

Record(r) ==
  /\ Works(r) /\ status[r] = "running"
  /\ \E j \in Jobs \ entries[r] : entries' = [entries EXCEPT ![r] = @ \cup {j}]
  /\ UNCHANGED <<status, known, checker, lines, pool, client, stream, faults>>

Verdict(r) ==
  /\ Works(r) /\ status[r] = "running" /\ entries[r] = Jobs
  /\ \E s \in Verdicts : SetStatus(r, s)
  /\ UNCHANGED <<entries, known, checker, lines, pool, client, stream, faults>>

\* The dependencies do not resolve, or an exception ends the run.
Raises(r) ==
  /\ Works(r) /\ status[r] \in Live
  /\ SetStatus(r, "failed")
  /\ UNCHANGED <<entries, known, checker, lines, pool, client, stream, faults>>

\* Mutant: the checker is removed when the jobs have ended.
UnregisterEarly(r) ==
  /\ Works(r) /\ r \in checker
  /\ status[r] \in Verdicts \/ entries[r] = Jobs
  /\ checker' = checker \ {r}
  /\ IF status[r] \in Verdicts THEN Release(RunClaim(r)) ELSE UNCHANGED pool
  /\ UNCHANGED <<status, entries, known, lines, client, stream, faults>>

\* The alerts are posted; finally: unregister_status_checker.
Unregister(r) ==
  /\ Works(r) /\ status[r] \in Verdicts
  /\ checker' = checker \ {r}
  /\ Release(RunClaim(r))
  /\ UNCHANGED <<status, entries, known, lines, client, stream, faults>>

execute_pipeline(r) ==
  Begin(r) \/ Log(r) \/ Record(r) \/ Verdict(r) \/ Raises(r) \/ Unregister(r)

-----------------------------------------------------------------------------
(* Requests *)

Goto(c, label) == client' = [client EXCEPT ![c].at = label]

Left(seen, code) == [seen EXCEPT !.at = "exit", !.exit = code]

Exit(c, code) == client' = [client EXCEPT ![c] = Left(@, code)]

\* _auth is a dependency without async: it is called on a thread of the pool.
PostRun(r) ==
  /\ client[r].at = "idle"
  /\ Goto(r, "posted")
  /\ Claim(AuthClaim(r))
  /\ UNCHANGED <<engine, lines, stream, faults>>

\* The answer, if the command still waits for one.
Reply(r, seen) ==
  client' = IF client[r].at = "posted" THEN [client EXCEPT ![r] = seen] ELSE client

\* submit_pipeline.  The task asks for a thread as soon as the answer is
\* written, so before any request that names the run.
Submit(r) ==
  /\ AuthClaim(r) \in holders
  /\ SetStatus(r, "queued")
  /\ known' = known \cup {r}
  /\ checker' = checker \cup {r}
  /\ holders' = holders \ {AuthClaim(r)}
  /\ queue' = Append(queue, RunClaim(r))
  /\ Reply(r, [client[r] EXCEPT !.at = "submitted"])
  /\ UNCHANGED <<entries, lines, stream, faults>>

\* 400 or 401, before anything is created.
SubmitRefused(r) ==
  /\ AuthClaim(r) \in holders
  /\ Release(AuthClaim(r))
  /\ Reply(r, Left(client[r], 1))
  /\ UNCHANGED <<engine, lines, stream, faults>>

submit_pipeline(r) == Submit(r) \/ SubmitRefused(r)

MayFollow(c) ==
  \/ c \in Runs /\ client[c].at = "submitted"
  \/ c \in Watchers /\ client[c].at = "idle" /\ status[Of(c)] # "none"

\* stream_logs: the generator is called on threads of the pool.
OpenStream(c) ==
  /\ MayFollow(c) /\ Of(c) \in known
  /\ Goto(c, "streaming")
  /\ Claim(StreamClaim(c))
  /\ UNCHANGED <<engine, lines, stream, faults>>

RunNotFound(c) ==
  /\ MayFollow(c) /\ Of(c) \notin known
  /\ Exit(c, 1)
  /\ UNCHANGED <<engine, lines, pool, stream, faults>>

MayAsk(c) ==
  \/ c \in Runs /\ client[c].at = "ended"
  \/ c \in Watchers /\ client[c].at = "idle" /\ status[Of(c)] # "none"

\* get_run_status, to_dict: the status as it is now, the jobs by reference.
AskStatus(c) ==
  /\ MayAsk(c) /\ Of(c) \in known
  /\ client' = [client EXCEPT ![c].at = "asked",
       ![c].answer.status = status[Of(c)]]
  /\ UNCHANGED <<engine, lines, pool, stream, faults>>

Receive(c, code, exit) ==
  client' = [client EXCEPT ![c] =
    [at |-> "exit", answer |-> [@.answer EXCEPT !.code = code], exit |-> exit]]

\* 404: the command takes the status for "unknown".
StatusNotFound(c) ==
  /\ MayAsk(c) /\ Of(c) \notin known
  /\ Receive(c, 404, 1)
  /\ UNCHANGED <<engine, lines, pool, stream, faults>>

\* The encoder begins to iterate over the jobs ...
ListJobs(c) ==
  /\ client[c].at = "asked"
  /\ client' = [client EXCEPT ![c].at = "listing",
       ![c].answer.listed = entries[Of(c)]]
  /\ UNCHANGED <<engine, lines, pool, stream, faults>>

\* Mutant: the entries are copied first, and the status is read last.
AnswerStatusLast(c) ==
  /\ client[c].at = "listing"
  /\ LET now == status[Of(c)] IN
       client' = [client EXCEPT ![c].at = "exit",
         ![c].answer.code = 200, ![c].answer.status = now,
         ![c].exit = IF now = "succeeded" \/ c \in Watchers THEN 0 ELSE 1]
  /\ UNCHANGED <<engine, lines, pool, stream, faults>>

\* ... and comes to their end, if none has been added in the meantime.
AnswerStatus(c) ==
  /\ client[c].at = "listing"
  /\ LET whole == client[c].answer.listed = entries[Of(c)]
         good == whole /\ client[c].answer.status = "succeeded" IN
       Receive(c, IF whole THEN 200 ELSE 500,
                  IF good \/ (whole /\ c \in Watchers) THEN 0 ELSE 1)
  /\ UNCHANGED <<engine, lines, pool, stream, faults>>

-----------------------------------------------------------------------------
(* stream_sse: each next() of the generator is a call on a thread           *)

Reads(c, next) ==
  LET log == lines[Of(c)] IN
  stream' = [stream EXCEPT ![c].at = next, ![c].offset = log,
                           ![c].pending = log - stream[c].offset]

Running(c, label) == StreamClaim(c) \in holders /\ stream[c].at = label

Read(c) ==
  /\ Running(c, "read")
  /\ Reads(c, "send")
  /\ UNCHANGED <<engine, lines, pool, client, faults>>

\* The thread is given back; the next event takes its turn.  Nobody asks for
\* one when the client is gone.
SendEvent(c) ==
  /\ Running(c, "send") \/ Running(c, "send_last")
  /\ stream[c].pending > 0
  /\ stream' = [stream EXCEPT ![c].pending = @ - 1]
  /\ holders' = holders \ {StreamClaim(c)}
  /\ queue' = IF client[c].at = "streaming" THEN Append(queue, StreamClaim(c)) ELSE queue
  /\ UNCHANGED <<engine, lines, client, faults>>

\* Mutant: the checker is not asked whether the run is over.
CheckStatusRegistered(c) ==
  /\ Running(c, "send") /\ stream[c].pending = 0
  /\ stream' = [stream EXCEPT ![c].at = "read"]
  /\ UNCHANGED <<engine, lines, pool, client, faults>>

\* Sleeping before it reads again, the generator keeps its thread.
CheckStatus(c) ==
  /\ Running(c, "send") /\ stream[c].pending = 0
  /\ stream' = [stream EXCEPT ![c].at =
       IF Of(c) \in checker /\ status[Of(c)] \in Live
         THEN "read" ELSE "drain"]
  /\ UNCHANGED <<engine, lines, pool, client, faults>>

Drain(c) ==
  /\ Running(c, "drain")
  /\ Reads(c, "send_last")
  /\ UNCHANGED <<engine, lines, pool, client, faults>>

StreamEnds(c) ==
  /\ Running(c, "send_last") /\ stream[c].pending = 0
  /\ Release(StreamClaim(c))
  /\ IF client[c].at # "streaming" THEN UNCHANGED client
     ELSE IF c \in Runs THEN Goto(c, "ended") ELSE Exit(c, 0)
  /\ UNCHANGED <<engine, lines, stream, faults>>

stream_sse(c) == Read(c) \/ SendEvent(c) \/ CheckStatus(c) \/ Drain(c) \/ StreamEnds(c)

-----------------------------------------------------------------------------
(* What may go wrong *)

Fault == faults < MAX_FAULTS /\ faults' = faults + 1

\* The command stops waiting for an answer; the request goes on.
SubmitUnanswered(r) ==
  /\ Fault
  /\ client[r].at = "posted"
  /\ Exit(r, 1)
  /\ UNCHANGED <<engine, lines, pool, stream>>

\* A follower's connection ends.  A call that waits for a thread is given up,
\* one that has a thread goes on to its next event.
Disconnect(c) ==
  /\ Fault
  /\ client[c].at = "streaming"
  /\ Exit(c, 1)
  /\ queue' = RemoveFirst(queue, StreamClaim(c))
  /\ UNCHANGED <<engine, lines, holders, stream>>

\* The engine starts anew; requests under way get no answer.
Restart ==
  /\ Fault
  /\ known # {} \/ queue # <<>> \/ holders # {}   \* otherwise nothing is lost
  /\ known' = {} /\ checker' = {}
  /\ queue' = <<>> /\ holders' = {}
  /\ client' = [c \in Clients |->
       IF client[c].at \in {"posted", "streaming", "asked", "listing"}
         THEN Left(client[c], 1) ELSE client[c]]
  /\ UNCHANGED <<status, entries, lines, stream>>

-----------------------------------------------------------------------------

get_run_status(c) == AskStatus(c) \/ StatusNotFound(c) \/ ListJobs(c) \/ AnswerStatus(c)

logs(c) == OpenStream(c) \/ RunNotFound(c)

Next ==
  \/ Grant
  \/ \E r \in Runs :
       execute_pipeline(r) \/ PostRun(r) \/ submit_pipeline(r) \/ SubmitUnanswered(r)
  \/ \E c \in Clients : logs(c) \/ stream_sse(c) \/ get_run_status(c) \/ Disconnect(c)
  \/ Restart

Spec == Init /\ [][Next]_vars

\* Every thread runs and the commands go on by themselves.  Nothing is asked of
\* the jobs: a step may take for ever (JobRunner), and so may its run.
Fairness ==
  /\ WF_vars(Grant)
  /\ \A r \in Runs :
       /\ WF_vars(submit_pipeline(r)) /\ WF_vars(Begin(r) \/ Verdict(r) \/ Unregister(r))
       /\ WF_vars(logs(r)) /\ WF_vars(get_run_status(r))
  /\ \A c \in Clients : WF_vars(stream_sse(c))

FairSpec == Spec /\ Fairness

-----------------------------------------------------------------------------
(* Properties *)

\* The exit code of `forge run --follow` tells the truth: 0 only for a run that
\* has succeeded and whose whole log was shown, and another code for a run that
\* has succeeded only when a connection or the engine broke.
ExitHonest ==
  \A r \in Runs :
    /\ client[r].exit = 0 =>
         /\ status[r] = "succeeded"
         /\ stream[r].offset = lines[r] /\ stream[r].pending = 0
    /\ client[r].exit = 1 /\ status[r] = "succeeded" => faults > 0

\* What GET /runs/{run_id} answers hangs together although it is put together
\* while the run goes on: with a terminal status come all the entries the run
\* ever has, and only an answer that was begun before may turn into a 500.
AnswersConsistent ==
  \A c \in Clients :
    LET answer == client[c].answer IN
    /\ answer.code = 200 /\ answer.status \in Verdicts =>
         /\ answer.status = status[Of(c)]
         /\ answer.listed = entries[Of(c)]
         /\ answer.status = "succeeded" => answer.listed = Jobs
    /\ answer.code = 500 => answer.status \in Live /\ c \in Watchers

\* A follower gets a thread of the pool only when its run has had one, so that
\* followers never keep the run that they wait for from starting.
RunGoesFirst ==
  \A c \in Clients :
    StreamClaim(c) \in holders => RunClaim(Of(c)) \notin ToSet(queue)

\* A job of the run never ends.
Hangs(r) == <>[](Works(r) /\ status[r] = "running" /\ entries[r] # Jobs)

RunOf(k) == IF k[1] = "stream" THEN Of(k[2]) ELSE k[2]

\* Everyone is served, but for runs that hang: no thread of the pool stays with
\* a request, a run or a follower, be its client gone or not, unless a job of
\* just that run hangs; and `forge run --follow` comes back unless some job
\* does, of its own run or of one whose followers fill the pool.
EveryoneServed ==
  /\ \A k \in Claims : (k \in holders ~> k \notin holders) \/ Hangs(RunOf(k))
  /\ \A r \in Runs :
       \/ client[r].at # "idle" ~> client[r].at = "exit"
       \/ \E q \in Runs : Hangs(q)
=============================================================================
