------------------------------ MODULE LogStream ------------------------------
(***************************************************************************)
(* The log of one run (engine/logs.py): the jobs' threads that append to   *)
(* it, the status checker the run registers, and the followers that read   *)
(* combined.jsonl from their own offsets and stop by the run's status.     *)
(*                                                                         *)
(* A line is written in two pieces, so that a reader may see a part of it  *)
(* and a full disk may leave a part of it; two appends do not mix, the     *)
(* kernel serialises them.  The newline ends the second piece.             *)
(***************************************************************************)
EXTENDS Integers, Sequences, SequencesExt, FiniteSets

CONSTANTS
  Jobs,        \* the jobs that log, each by one thread at a time
  LINES,       \* lines per job
  Followers,   \* GET /runs/{run_id}/logs?follow=true
  MAX_FAULTS   \* bound: failed writes

ASSUME LinesAssumption == LINES \in Nat /\ MAX_FAULTS \in Nat

VARIABLES
  job_log,    \* {job}.log: the numbers of the lines in it
  combined,   \* combined.jsonl, as pieces
  writer,     \* where each job's write() is, and the line it is at
  status,     \* is RunState.status queued or running, or terminal
  checker,    \* is the status checker registered
  reader,     \* each follower: statement, offset, pieces read, pieces sent
  faults

files == <<job_log, combined>>
vars == <<files, writer, status, checker, reader, faults>>

Piece(j, h) == [job |-> j, line |-> writer[j].line, half |-> h]

Init ==
  /\ job_log = [j \in Jobs |-> <<>>]
  /\ combined = <<>>
  /\ writer = [j \in Jobs |-> [at |-> "idle", line |-> 1]]
  /\ status = "running"
  /\ checker = TRUE
  /\ reader = [f \in Followers |->
       [at |-> "start", offset |-> 0, chunk |-> <<>>, sent |-> <<>>]]
  /\ faults = 0

-----------------------------------------------------------------------------
(* write *)

WritesLeft(j) == writer[j].line <= LINES

AppendJobLog(j) ==
  /\ writer[j].at = "idle" /\ WritesLeft(j)
  /\ job_log' = [job_log EXCEPT ![j] = Append(@, writer[j].line)]
  /\ writer' = [writer EXCEPT ![j].at = "combined"]
  /\ UNCHANGED <<combined, status, checker, reader, faults>>

\* The inode is locked while another thread's append is under way.
AppendCombined(j) ==
  /\ writer[j].at = "combined"
  /\ \A k \in Jobs : writer[k].at # "halfway"
  /\ combined' = Append(combined, Piece(j, 1))
  /\ writer' = [writer EXCEPT ![j].at = "halfway"]
  /\ UNCHANGED <<job_log, status, checker, reader, faults>>

AppendRest(j) ==
  /\ writer[j].at = "halfway"
  /\ combined' = Append(combined, Piece(j, 2))
  /\ writer' = [writer EXCEPT ![j] = [at |-> "idle", line |-> @.line + 1]]
  /\ UNCHANGED <<job_log, status, checker, reader, faults>>

\* open or write raises, of either file: the job ends with the exception, its
\* line where it is.
WriteFails(j) ==
  /\ faults < MAX_FAULTS
  /\ faults' = faults + 1
  /\ writer[j].at # "idle" \/ WritesLeft(j)
  /\ writer' = [writer EXCEPT ![j] = [at |-> "idle", line |-> LINES + 1]]
  /\ UNCHANGED <<files, status, checker, reader>>

-----------------------------------------------------------------------------
(* The run: execute_pipeline sets the status once its pool is drained, then  *)
(* removes the checker.                                                      *)

\* Mutant: the status is set before the jobs have ended.
RunEndsEarly ==
  /\ status = "running"
  /\ status' = "terminal"
  /\ UNCHANGED <<files, writer, checker, reader, faults>>

RunEnds ==
  /\ status = "running"
  /\ \A j \in Jobs : writer[j].at = "idle" /\ ~ WritesLeft(j)
  /\ status' = "terminal"
  /\ UNCHANGED <<files, writer, checker, reader, faults>>

unregister_status_checker ==
  /\ status = "terminal" /\ checker
  /\ checker' = FALSE
  /\ UNCHANGED <<files, writer, status, reader, faults>>

-----------------------------------------------------------------------------
(* stream_sse with follow *)

\* Mutant: the offset is the number of complete lines.
ReadFromLines(f, next) ==
  reader' = [reader EXCEPT ![f].at = next,
    ![f].chunk = SubSeq(combined, reader[f].offset + 1, Len(combined)),
    ![f].offset = Len(SelectSeq(combined, LAMBDA p : p.half = 2))]

\* _iter_file_from: everything from the offset to the end of the file.
ReadFrom(f, next) ==
  reader' = [reader EXCEPT ![f].at = next,
    ![f].chunk = SubSeq(combined, reader[f].offset + 1, Len(combined)),
    ![f].offset = Len(combined)]

Poll(f) ==
  /\ reader[f].at = "start"
  /\ ReadFrom(f, "send")
  /\ UNCHANGED <<files, writer, status, checker, faults>>

Drain(f) ==
  /\ reader[f].at = "drain"
  /\ ReadFrom(f, "send_last")
  /\ UNCHANGED <<files, writer, status, checker, faults>>

\* splitlines: the text up to the next newline, or all of it.
FirstLine(chunk) ==
  LET ends == {i \in DOMAIN chunk : chunk[i].half = 2} IN
  IF ends = {} THEN Len(chunk)
  ELSE CHOOSE i \in ends : \A k \in ends : i <= k

\* One event per line, or per part of one that a read came upon.
SendEvent(f) ==
  /\ reader[f].at \in {"send", "send_last"} /\ reader[f].chunk # <<>>
  /\ LET chunk == reader[f].chunk
         n == FirstLine(chunk)
         text == SubSeq(chunk, 1, n) IN
       reader' = [reader EXCEPT
         ![f].sent = @ \o text,
         ![f].chunk = SubSeq(chunk, n + 1, Len(chunk))]
  /\ UNCHANGED <<files, writer, status, checker, faults>>

\* Without a checker the status is "unknown", which is not queued or running.
CheckStatus(f) ==
  /\ reader[f].at = "send" /\ reader[f].chunk = <<>>
  /\ reader' = [reader EXCEPT ![f].at =
       IF checker /\ status = "running" THEN "start" ELSE "drain"]
  /\ UNCHANGED <<files, writer, status, checker, faults>>

Close(f) ==
  /\ reader[f].at = "send_last" /\ reader[f].chunk = <<>>
  /\ reader' = [reader EXCEPT ![f].at = "closed"]
  /\ UNCHANGED <<files, writer, status, checker, faults>>

-----------------------------------------------------------------------------

write(j) == AppendJobLog(j) \/ AppendCombined(j) \/ AppendRest(j)

stream_sse(f) == Poll(f) \/ SendEvent(f) \/ CheckStatus(f) \/ Drain(f) \/ Close(f)

Run == RunEnds \/ unregister_status_checker

Next ==
  \/ \E j \in Jobs : write(j) \/ WriteFails(j)
  \/ Run
  \/ \E f \in Followers : stream_sse(f)

Spec == Init /\ [][Next]_vars

-----------------------------------------------------------------------------
(* Properties *)

\* A follower sends every byte of the log once and in order (stream_sse): what
\* it has sent and what it has yet to send are the file up to its offset, torn
\* lines included.
SentOnceInOrder ==
  \A f \in Followers :
    reader[f].sent \o reader[f].chunk = SubSeq(combined, 1, reader[f].offset)

\* The places of combined.jsonl where a line of the job begins.
Begun(j) == {i \in DOMAIN combined : combined[i].job = j /\ combined[i].half = 1}

\* The job's own log holds them at these places.
PlaceOf(j, i) == {n \in DOMAIN job_log[j] : job_log[j][n] = combined[i].line}

\* A follower does not stop before the last line of the run: the status is read
\* before the final drain, and is terminal only after the last write.  What it
\* has sent of a job then is what the job's own log holds, in that order, but
\* for a last line that failed between the two files (write).
NothingMissed ==
  \A f \in Followers : reader[f].at = "closed" =>
    /\ reader[f].sent = combined
    /\ \A j \in Jobs :
         /\ \A i \in Begun(j) : PlaceOf(j, i) # {}
         /\ \A i, k \in Begun(j) : i < k =>
              \A m \in PlaceOf(j, i), n \in PlaceOf(j, k) : m < n
         /\ \A n \in 1..(Len(job_log[j]) - faults) :
              \E i \in Begun(j) : n \in PlaceOf(j, i)
=============================================================================
