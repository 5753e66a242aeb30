--------------------------- MODULE LogStream_proofs ---------------------------
(***************************************************************************)
(* Followers of a log send the whole of it, once and in order: the         *)
(* inductive invariant of LogStream and what follows from it, for any      *)
(* number of jobs, lines, followers and failed writes.                     *)
(***************************************************************************)
EXTENDS LogStream, TLAPS, SequenceTheorems, WellFoundedInduction

Pieces == [job : Jobs, line : Nat, half : {1, 2}]
WriterStates == [at : {"idle", "combined", "halfway"}, line : Nat]
ReaderStates ==
  [at : {"start", "send", "drain", "send_last", "closed"}, offset : Nat,
   chunk : Seq(Pieces), sent : Seq(Pieces)]

TypeOK ==
  /\ job_log \in [Jobs -> Seq(Nat)]
  /\ combined \in Seq(Pieces)
  /\ writer \in [Jobs -> WriterStates]
  /\ status \in {"running", "terminal"} /\ checker \in BOOLEAN
  /\ reader \in [Followers -> ReaderStates]
  /\ faults \in Nat

\* A job writes its lines one after the other; after the run none is under way.
Writers ==
  /\ \A j \in Jobs :
       /\ writer[j].at # "idle" =>
            WritesLeft(j) /\ Len(job_log[j]) = writer[j].line /\ writer[j].line > 0
       /\ writer[j].at = "idle" /\ WritesLeft(j) =>
            Len(job_log[j]) + 1 = writer[j].line
       /\ \A n \in DOMAIN job_log[j] : job_log[j][n] = n
  /\ status = "terminal" => \A j \in Jobs : writer[j].at = "idle" /\ ~ WritesLeft(j)
  /\ ~ checker => status = "terminal"

\* combined.jsonl has the lines of a job in their order, all but the one that
\* is under way or has failed.
BegunAt(j, n) == \E i \in Begun(j) : combined[i].line = n

LoggedOf(j) ==
  /\ \A i \in Begun(j) :
       /\ combined[i].line \in 1..Len(job_log[j])
       /\ writer[j].at = "combined" => combined[i].line < Len(job_log[j])
  /\ \A i, k \in Begun(j) : i < k => combined[i].line < combined[k].line
  /\ \A n \in 1..(Len(job_log[j]) - 1) : BegunAt(j, n)
  /\ writer[j].at # "combined" /\ (WritesLeft(j) \/ faults = 0) =>
       \A n \in 1..Len(job_log[j]) : BegunAt(j, n)

Logged == \A j \in Jobs : LoggedOf(j)

\* Where a follower is in the file.
Offsets ==
  \A f \in Followers :
    /\ reader[f].offset <= Len(combined)
    /\ reader[f].at \in {"start", "drain", "closed"} => reader[f].chunk = <<>>
    /\ reader[f].at \in {"drain", "send_last", "closed"} => status = "terminal"
    /\ reader[f].at \in {"send_last", "closed"} => reader[f].offset = Len(combined)

IInv == TypeOK /\ Writers /\ Logged /\ Offsets /\ SentOnceInOrder

-----------------------------------------------------------------------------
(* Sequences *)

\* What is at the front of the file stays there.
LEMMA PrefixOfAppend ==
  ASSUME NEW S, NEW c \in Seq(S), NEW e \in S, NEW n \in Nat, n <= Len(c)
  PROVE  SubSeq(Append(c, e), 1, n) = SubSeq(c, 1, n)
<1>1. /\ Append(c, e) \in Seq(S)
      /\ \A i \in 1..n : Append(c, e)[i] = c[i] /\ c[i] \in S
  BY AppendProperties, ElementOfSeq
<1>2. /\ SubSeq(c, 1, n) \in Seq(S)
      /\ Len(SubSeq(c, 1, n)) = n
      /\ \A i \in 1..n : SubSeq(c, 1, n)[i] = c[i]
  BY <1>1, SubSeqProperties
<1>3. /\ SubSeq(Append(c, e), 1, n) \in Seq(S)
      /\ Len(SubSeq(Append(c, e), 1, n)) = n
      /\ \A i \in 1..n : SubSeq(Append(c, e), 1, n)[i] = Append(c, e)[i]
  BY <1>1, SubSeqProperties
<1>4. QED
  BY <1>1, <1>2, <1>3, SeqEqual

\* Two parts of a file make the whole of it.
LEMMA FromOffset ==
  ASSUME NEW S, NEW c \in Seq(S), NEW o \in Nat, o <= Len(c)
  PROVE  SubSeq(c, 1, o) \o SubSeq(c, o + 1, Len(c)) = SubSeq(c, 1, Len(c))
<1>1. 1 \in 1..Len(c) + 1 /\ o \in (1 - 1)..Len(c) /\ Len(c) \in o..Len(c)
  OBVIOUS
<1>2. QED
  BY <1>1, ConcatAdjacentSubSeq

\* "<" on Nat is well founded.
Less == OpToRel(<, Nat)

\* A set of numbers has a least element.
LEMMA LeastElement ==
  ASSUME NEW I \in SUBSET Nat, I # {}
  PROVE  \E x \in I : \A y \in I : x <= y
<1>1. \A a, b \in Nat : a < b => <<a, b>> \in Less
  BY DEF Less, OpToRel
<1>2. IsWellFoundedOn(Less, Nat)
  BY NatLessThanWellFounded, Zenon DEF Less
<1>3. PICK x \in I : \A y \in I : ~ (<<y, x>> \in Less)
  BY <1>2, WFMin
<1>4. ASSUME NEW y \in I, y < x PROVE FALSE
  <2>1. x \in Nat /\ y \in Nat
    OBVIOUS
  <2>2. <<y, x>> \in Less
    BY <1>1, <1>4, <2>1
  <2>3. QED
    BY <1>3, <2>2
<1>5. \A y \in I : x <= y
  BY <1>4
<1>6. QED
  BY <1>5

\* The first line is a beginning of what was read.
LEMMA FirstLineIn ==
  ASSUME NEW c \in Seq(Pieces), c # <<>>
  PROVE  FirstLine(c) \in 1..Len(c)
<1> DEFINE ends == {i \in DOMAIN c : c[i].half = 2}
<1>1. ends \in SUBSET (1..Len(c)) /\ Len(c) \in Nat \ {0}
  OBVIOUS
<1>2. FirstLine(c) = IF ends = {} THEN Len(c)
                     ELSE CHOOSE i \in ends : \A k \in ends : i <= k
  BY DEF FirstLine
<1> HIDE DEF ends
<1>3. CASE ends = {}
  BY <1>1, <1>2, <1>3
<1>4. CASE ends # {}
  <2>1. ends \in SUBSET Nat
    BY <1>1
  <2>2. \E i \in ends : \A k \in ends : i <= k
    BY <1>4, <2>1, LeastElement
  <2>3. (CHOOSE i \in ends : \A k \in ends : i <= k) \in ends
    BY <2>2
  <2>4. QED
    BY <1>1, <1>2, <1>4, <2>3
<1>5. QED
  BY <1>3, <1>4

\* To send the first line of what was read loses nothing.
LEMMA SendKeeps ==
  ASSUME NEW c \in Seq(Pieces), NEW t \in Seq(Pieces), NEW n \in 1..Len(c)
  PROVE  /\ SubSeq(c, 1, n) \in Seq(Pieces) /\ SubSeq(c, n + 1, Len(c)) \in Seq(Pieces)
         /\ t \o SubSeq(c, 1, n) \in Seq(Pieces)
         /\ (t \o SubSeq(c, 1, n)) \o SubSeq(c, n + 1, Len(c)) = t \o c
<1> DEFINE a == SubSeq(c, 1, n)
           b == SubSeq(c, n + 1, Len(c))
           l == t \o a
<1>0. Len(t) \in Nat /\ Len(c) \in Nat /\ n \in Nat /\ n <= Len(c)
  OBVIOUS
<1>1. /\ a \in Seq(Pieces) /\ Len(a) = n
      /\ \A i \in 1..n : a[i] = c[i]
  BY SubSeqProperties, ElementOfSeq
<1>2. /\ b \in Seq(Pieces) /\ Len(b) = Len(c) - n
      /\ \A i \in 1..(Len(c) - n) : b[i] = c[n + i]
  BY SubSeqProperties, ElementOfSeq
<1> HIDE DEF a, b
<1>3. /\ l \in Seq(Pieces) /\ Len(l) = Len(t) + n
      /\ \A i \in 1..(Len(t) + n) : l[i] = IF i <= Len(t) THEN t[i] ELSE a[i - Len(t)]
  BY <1>1, ConcatProperties
<1> HIDE DEF l
<1>4. /\ l \o b \in Seq(Pieces) /\ Len(l \o b) = Len(t) + Len(c)
      /\ \A i \in 1..(Len(t) + Len(c)) :
           (l \o b)[i] = IF i <= Len(t) + n THEN l[i] ELSE b[i - (Len(t) + n)]
  <2>1. /\ l \o b \in Seq(Pieces) /\ Len(l \o b) = Len(l) + Len(b)
        /\ \A i \in 1..(Len(l) + Len(b)) :
             (l \o b)[i] = IF i <= Len(l) THEN l[i] ELSE b[i - Len(l)]
    BY <1>2, <1>3, ConcatProperties
  <2>2. Len(l) + Len(b) = Len(t) + Len(c)
    BY <1>0, <1>2, <1>3
  <2>3. QED
    BY <1>3, <2>1, <2>2
<1>5. /\ t \o c \in Seq(Pieces) /\ Len(t \o c) = Len(t) + Len(c)
      /\ \A i \in 1..(Len(t) + Len(c)) :
           (t \o c)[i] = IF i <= Len(t) THEN t[i] ELSE c[i - Len(t)]
  BY ConcatProperties
<1>6. ASSUME NEW i \in 1..(Len(t) + Len(c)) PROVE (l \o b)[i] = (t \o c)[i]
  <2>0. i \in Int /\ i >= 1 /\ i <= Len(t) + Len(c)
    BY <1>0
  <2>1. CASE i <= Len(t)
    BY <1>0, <1>3, <1>4, <1>5, <2>1
  <2>2. CASE i > Len(t) /\ i <= Len(t) + n
    <3>1. i - Len(t) \in 1..n
      BY <1>0, <2>2
    <3>2. QED
      BY <1>0, <1>1, <1>3, <1>4, <1>5, <2>2, <3>1
  <2>3. CASE i > Len(t) + n
    <3>1. i - (Len(t) + n) \in 1..(Len(c) - n) /\ n + (i - (Len(t) + n)) = i - Len(t)
      BY <1>0, <2>3
    <3>2. (l \o b)[i] = b[i - (Len(t) + n)] /\ (t \o c)[i] = c[i - Len(t)]
      BY <1>0, <1>4, <1>5, <2>3
    <3>3. QED
      BY <1>2, <3>1, <3>2
  <2>4. i <= Len(t) \/ (i > Len(t) /\ i <= Len(t) + n) \/ i > Len(t) + n
    BY <1>0, <2>0
  <2>5. QED
    BY <2>1, <2>2, <2>3, <2>4, Zenon
<1>7. l \o b = t \o c
  BY <1>4, <1>5, <1>6, SeqEqual
<1>8. QED
  BY <1>1, <1>2, <1>3, <1>7 DEF a, b, l

-----------------------------------------------------------------------------
(* What a step makes of the records *)

USE DEF files

\* The pieces that a thread writes are of its line.
LEMMA PieceIn ==
  ASSUME writer \in [Jobs -> WriterStates], NEW j \in Jobs, NEW h \in {1, 2}
  PROVE  /\ Piece(j, h) \in Pieces
         /\ Piece(j, h).job = j /\ Piece(j, h).line = writer[j].line /\ Piece(j, h).half = h
BY DEF Piece, Pieces, WriterStates

\* A thread goes on to another place within a line.
LEMMA WriterEffect ==
  ASSUME writer \in [Jobs -> WriterStates], NEW j \in Jobs,
         NEW l \in {"combined", "halfway"}, writer' = [writer EXCEPT ![j].at = l]
  PROVE  /\ writer' \in [Jobs -> WriterStates]
         /\ writer'[j].at = l /\ writer'[j].line = writer[j].line
         /\ \A k \in Jobs \ {j} : writer'[k] = writer[k]
<1> DEFINE x == writer[j]
           y == [x EXCEPT !.at = l]
<1>1. writer' = [writer EXCEPT ![j] = y]
  OBVIOUS
<1>2. y \in WriterStates /\ y.at = l /\ y.line = x.line
  BY DEF WriterStates
<1> HIDE DEF y
<1>3. QED
  BY <1>1, <1>2

\* A thread is done with a line.
LEMMA IdleEffect ==
  ASSUME writer \in [Jobs -> WriterStates], NEW j \in Jobs, NEW n \in Nat,
         writer' = [writer EXCEPT ![j] = [at |-> "idle", line |-> n]]
  PROVE  /\ writer' \in [Jobs -> WriterStates]
         /\ writer'[j].at = "idle" /\ writer'[j].line = n
         /\ \A k \in Jobs \ {j} : writer'[k] = writer[k]
BY DEF WriterStates

\* A read takes everything up to the end of the combined log.
LEMMA ReadEffect ==
  ASSUME combined \in Seq(Pieces), reader \in [Followers -> ReaderStates],
         NEW f \in Followers, NEW l \in {"send", "send_last"}, ReadFrom(f, l),
         reader[f].offset <= Len(combined)
  PROVE  /\ reader' \in [Followers -> ReaderStates]
         /\ reader'[f].at = l
         /\ reader'[f].offset = Len(combined)
         /\ reader'[f].chunk = SubSeq(combined, reader[f].offset + 1, Len(combined))
         /\ reader'[f].sent = reader[f].sent
         /\ \A g \in Followers \ {f} : reader'[g] = reader[g]
<1> DEFINE x == reader[f]
           n == Len(combined)
           c == SubSeq(combined, x.offset + 1, n)
           y == [[[x EXCEPT !.at = l] EXCEPT !.chunk = c] EXCEPT !.offset = n]
<1>1. reader' = [reader EXCEPT ![f] = y]
  BY DEF ReadFrom
<1>2. n \in Nat /\ x.offset \in Nat
  BY DEF ReaderStates
<1>3. c \in Seq(Pieces)
  BY <1>2, SubSeqProperties, ElementOfSeq
<1> HIDE DEF c, n
<1>4. /\ y \in ReaderStates
      /\ y.at = l /\ y.offset = n /\ y.chunk = c /\ y.sent = x.sent
  BY <1>2, <1>3 DEF ReaderStates
<1> HIDE DEF y
<1>5. QED
  BY <1>1, <1>4 DEF c, n

\* A follower goes on to another place of its loop.
LEMMA GotoEffect ==
  ASSUME reader \in [Followers -> ReaderStates], NEW f \in Followers,
         NEW l \in {"start", "drain", "closed"}, reader' = [reader EXCEPT ![f].at = l]
  PROVE  /\ reader' \in [Followers -> ReaderStates]
         /\ reader'[f].at = l
         /\ reader'[f].offset = reader[f].offset
         /\ reader'[f].chunk = reader[f].chunk
         /\ reader'[f].sent = reader[f].sent
         /\ \A g \in Followers \ {f} : reader'[g] = reader[g]
<1> DEFINE x == reader[f]
           y == [x EXCEPT !.at = l]
<1>1. reader' = [reader EXCEPT ![f] = y]
  OBVIOUS
<1>2. /\ y \in ReaderStates
      /\ y.at = l /\ y.offset = x.offset /\ y.chunk = x.chunk /\ y.sent = x.sent
  BY DEF ReaderStates
<1> HIDE DEF y
<1>3. QED
  BY <1>1, <1>2

\* An event moves a line from what was read to what was sent.
LEMMA SendEffect ==
  ASSUME reader \in [Followers -> ReaderStates], NEW f \in Followers, SendEvent(f)
  PROVE  /\ reader' \in [Followers -> ReaderStates]
         /\ reader'[f].at = reader[f].at
         /\ reader'[f].offset = reader[f].offset
         /\ reader'[f].sent \o reader'[f].chunk = reader[f].sent \o reader[f].chunk
         /\ \A g \in Followers \ {f} : reader'[g] = reader[g]
<1> DEFINE x == reader[f]
           n == FirstLine(x.chunk)
           text == SubSeq(x.chunk, 1, n)
           s == x.sent \o text
           c == SubSeq(x.chunk, n + 1, Len(x.chunk))
           y == [[x EXCEPT !.sent = s] EXCEPT !.chunk = c]
<1>1. reader' = [reader EXCEPT ![f] = y]
  BY DEF SendEvent
<1>2. x.chunk \in Seq(Pieces) /\ x.chunk # <<>> /\ x.sent \in Seq(Pieces)
  BY DEF ReaderStates, SendEvent
<1>3. n \in 1..Len(x.chunk)
  BY <1>2, FirstLineIn
<1> HIDE DEF n
<1>4. s \in Seq(Pieces) /\ c \in Seq(Pieces) /\ s \o c = x.sent \o x.chunk
  BY <1>2, <1>3, SendKeeps
<1> HIDE DEF s, c
<1>5. /\ y \in ReaderStates
      /\ y.at = x.at /\ y.offset = x.offset /\ y.sent = s /\ y.chunk = c
  BY <1>4 DEF ReaderStates
<1> HIDE DEF y
<1>6. QED
  BY <1>1, <1>4, <1>5

\* Every step keeps the types.
LEMMA StepType ==
  ASSUME TypeOK, Offsets, [Next]_vars
  PROVE  TypeOK'
<1> USE DEF TypeOK
<1>1. ASSUME NEW j \in Jobs, AppendJobLog(j) PROVE TypeOK'
  <2>1. /\ writer' \in [Jobs -> WriterStates]
        /\ writer'[j].at = "combined" /\ writer'[j].line = writer[j].line
        /\ \A k \in Jobs \ {j} : writer'[k] = writer[k]
    BY <1>1, WriterEffect DEF AppendJobLog, TypeOK
  <2>2. /\ writer[j].line \in Nat
        /\ job_log' = [job_log EXCEPT ![j] = Append(job_log[j], writer[j].line)]
        /\ UNCHANGED <<combined, status, checker, reader, faults>>
    BY <1>1 DEF AppendJobLog, TypeOK, WriterStates
  <2>3. /\ job_log' \in [Jobs -> Seq(Nat)]
        /\ Len(job_log'[j]) = Len(job_log[j]) + 1
        /\ job_log'[j][Len(job_log[j]) + 1] = writer[j].line
        /\ \A n \in 1..Len(job_log[j]) : job_log'[j][n] = job_log[j][n]
        /\ \A k \in Jobs \ {j} : job_log'[k] = job_log[k]
    BY <2>2, AppendProperties DEF TypeOK
  <2>4. QED
    BY <2>1, <2>2, <2>3
<1>2. ASSUME NEW j \in Jobs, AppendCombined(j) PROVE TypeOK'
  <2>1. /\ writer' \in [Jobs -> WriterStates]
        /\ writer'[j].at = "halfway" /\ writer'[j].line = writer[j].line
        /\ \A k \in Jobs \ {j} : writer'[k] = writer[k]
    BY <1>2, WriterEffect DEF AppendCombined, TypeOK
  <2>2. /\ Piece(j, 1) \in Pieces
        /\ Piece(j, 1).job = j /\ Piece(j, 1).line = writer[j].line /\ Piece(j, 1).half = 1
        /\ combined' = Append(combined, Piece(j, 1))
        /\ UNCHANGED <<job_log, status, checker, reader, faults>>
    BY <1>2, PieceIn DEF AppendCombined, TypeOK
  <2>3. /\ combined' \in Seq(Pieces)
        /\ Len(combined') = Len(combined) + 1
        /\ combined'[Len(combined) + 1] = Piece(j, 1)
        /\ \A i \in 1..Len(combined) : combined'[i] = combined[i]
    BY <2>2, AppendProperties DEF TypeOK
  <2>4. QED
    BY <2>1, <2>2, <2>3
<1>3. ASSUME NEW j \in Jobs, AppendRest(j) PROVE TypeOK'
  <2>1. /\ writer' \in [Jobs -> WriterStates]
        /\ writer'[j].at = "idle" /\ writer'[j].line = writer[j].line + 1
        /\ \A k \in Jobs \ {j} : writer'[k] = writer[k]
    <3>1. writer[j].line + 1 \in Nat
      BY DEF TypeOK, WriterStates
    <3>2. writer' = [writer EXCEPT ![j] = [at |-> "idle", line |-> writer[j].line + 1]]
      BY <1>3 DEF AppendRest
    <3>3. QED
      BY <3>1, <3>2, IdleEffect DEF TypeOK
  <2>2. /\ Piece(j, 2) \in Pieces
        /\ Piece(j, 2).job = j /\ Piece(j, 2).line = writer[j].line /\ Piece(j, 2).half = 2
        /\ combined' = Append(combined, Piece(j, 2))
        /\ UNCHANGED <<job_log, status, checker, reader, faults>>
    BY <1>3, PieceIn DEF AppendRest, TypeOK
  <2>3. /\ combined' \in Seq(Pieces)
        /\ Len(combined') = Len(combined) + 1
        /\ combined'[Len(combined) + 1] = Piece(j, 2)
        /\ \A i \in 1..Len(combined) : combined'[i] = combined[i]
    BY <2>2, AppendProperties DEF TypeOK
  <2>4. QED
    BY <2>1, <2>2, <2>3
<1>4. ASSUME NEW j \in Jobs, WriteFails(j) PROVE TypeOK'
  <2>1. /\ writer' \in [Jobs -> WriterStates]
        /\ writer'[j].at = "idle" /\ writer'[j].line = LINES + 1
        /\ \A k \in Jobs \ {j} : writer'[k] = writer[k]
    <3>1. LINES + 1 \in Nat /\ writer' = [writer EXCEPT ![j] = [at |-> "idle", line |-> LINES + 1]]
      BY <1>4, LinesAssumption DEF WriteFails
    <3>2. QED
      BY <3>1, IdleEffect DEF TypeOK
  <2>2. /\ faults' = faults + 1
        /\ UNCHANGED <<job_log, combined, status, checker, reader>>
    BY <1>4 DEF WriteFails
  <2>3. QED
    BY <2>1, <2>2
<1>5. CASE RunEnds
  BY <1>5 DEF RunEnds
<1>6. CASE unregister_status_checker
  BY <1>6 DEF unregister_status_checker
<1>7. ASSUME NEW f \in Followers, Poll(f) PROVE TypeOK'
  <2>1. /\ reader' \in [Followers -> ReaderStates]
        /\ reader'[f].at = "send"
        /\ reader'[f].offset = Len(combined)
        /\ reader'[f].chunk = SubSeq(combined, reader[f].offset + 1, Len(combined))
        /\ reader'[f].sent = reader[f].sent
        /\ \A g \in Followers \ {f} : reader'[g] = reader[g]
    BY <1>7, ReadEffect DEF Poll, TypeOK, Offsets
  <2>2. UNCHANGED <<job_log, combined, writer, status, checker, faults>>
    BY <1>7 DEF Poll
  <2>3. QED
    BY <2>1, <2>2
<1>8. ASSUME NEW f \in Followers, SendEvent(f) PROVE TypeOK'
  <2>1. /\ reader' \in [Followers -> ReaderStates]
        /\ reader'[f].at = reader[f].at
        /\ reader'[f].offset = reader[f].offset
        /\ reader'[f].sent \o reader'[f].chunk = reader[f].sent \o reader[f].chunk
        /\ \A g \in Followers \ {f} : reader'[g] = reader[g]
    BY <1>8, SendEffect DEF TypeOK
  <2>2. UNCHANGED <<job_log, combined, writer, status, checker, faults>>
    BY <1>8 DEF SendEvent
  <2>3. QED
    BY <2>1, <2>2
<1>9. ASSUME NEW f \in Followers, CheckStatus(f) PROVE TypeOK'
  <2> DEFINE l == IF checker /\ status = "running" THEN "start" ELSE "drain"
  <2>0. reader' = [reader EXCEPT ![f].at = l] /\ l \in {"start", "drain"}
    BY <1>9 DEF CheckStatus
  <2> HIDE DEF l
  <2>1. /\ reader' \in [Followers -> ReaderStates]
        /\ reader'[f].at = l
        /\ reader'[f].offset = reader[f].offset
        /\ reader'[f].chunk = reader[f].chunk
        /\ reader'[f].sent = reader[f].sent
        /\ \A g \in Followers \ {f} : reader'[g] = reader[g]
    BY <1>9, GotoEffect, <2>0 DEF TypeOK
  <2>2. UNCHANGED <<job_log, combined, writer, status, checker, faults>>
    BY <1>9 DEF CheckStatus
  <2>3. QED
    BY <2>1, <2>2
<1>10. ASSUME NEW f \in Followers, Drain(f) PROVE TypeOK'
  <2>1. /\ reader' \in [Followers -> ReaderStates]
        /\ reader'[f].at = "send_last"
        /\ reader'[f].offset = Len(combined)
        /\ reader'[f].chunk = SubSeq(combined, reader[f].offset + 1, Len(combined))
        /\ reader'[f].sent = reader[f].sent
        /\ \A g \in Followers \ {f} : reader'[g] = reader[g]
    BY <1>10, ReadEffect DEF Drain, TypeOK, Offsets
  <2>2. UNCHANGED <<job_log, combined, writer, status, checker, faults>>
    BY <1>10 DEF Drain
  <2>3. QED
    BY <2>1, <2>2
<1>11. ASSUME NEW f \in Followers, Close(f) PROVE TypeOK'
  <2> DEFINE l == "closed"
  <2>0. reader' = [reader EXCEPT ![f].at = l] /\ l \in {"start", "drain", "closed"}
    BY <1>11 DEF Close
  <2> HIDE DEF l
  <2>1. /\ reader' \in [Followers -> ReaderStates]
        /\ reader'[f].at = l
        /\ reader'[f].offset = reader[f].offset
        /\ reader'[f].chunk = reader[f].chunk
        /\ reader'[f].sent = reader[f].sent
        /\ \A g \in Followers \ {f} : reader'[g] = reader[g]
    BY <1>11, GotoEffect, <2>0 DEF TypeOK
  <2>2. UNCHANGED <<job_log, combined, writer, status, checker, faults>>
    BY <1>11 DEF Close
  <2>3. QED
    BY <2>1, <2>2
<1>12. CASE UNCHANGED <<vars>>
  BY <1>12 DEF vars
<1> HIDE DEF TypeOK
<1>13. QED
  BY <1>1, <1>2, <1>3, <1>4, <1>5, <1>6, <1>7, <1>8, <1>9, <1>10, <1>11, <1>12
     DEF Next, write, Run, stream_sse, vars

\* A job writes one line after the other.
LEMMA StepWriters ==
  ASSUME TypeOK, Writers, [Next]_vars
  PROVE  Writers'
<1> USE DEF Writers, WritesLeft
<1>1. ASSUME NEW j \in Jobs, AppendJobLog(j) PROVE Writers'
  <2>1. /\ writer' \in [Jobs -> WriterStates]
        /\ writer'[j].at = "combined" /\ writer'[j].line = writer[j].line
        /\ \A k \in Jobs \ {j} : writer'[k] = writer[k]
    BY <1>1, WriterEffect DEF AppendJobLog, TypeOK
  <2>2. /\ writer[j].line \in Nat
        /\ job_log' = [job_log EXCEPT ![j] = Append(job_log[j], writer[j].line)]
        /\ UNCHANGED <<combined, status, checker, reader, faults>>
    BY <1>1 DEF AppendJobLog, TypeOK, WriterStates
  <2>3. /\ job_log' \in [Jobs -> Seq(Nat)]
        /\ Len(job_log'[j]) = Len(job_log[j]) + 1
        /\ job_log'[j][Len(job_log[j]) + 1] = writer[j].line
        /\ \A n \in 1..Len(job_log[j]) : job_log'[j][n] = job_log[j][n]
        /\ \A k \in Jobs \ {j} : job_log'[k] = job_log[k]
    BY <2>2, AppendProperties DEF TypeOK
  <2>4. QED
    BY <2>1, <2>2, <2>3, <1>1, LinesAssumption DEF TypeOK, WriterStates, AppendJobLog
<1>2. ASSUME NEW j \in Jobs, AppendCombined(j) PROVE Writers'
  <2>1. /\ writer' \in [Jobs -> WriterStates]
        /\ writer'[j].at = "halfway" /\ writer'[j].line = writer[j].line
        /\ \A k \in Jobs \ {j} : writer'[k] = writer[k]
    BY <1>2, WriterEffect DEF AppendCombined, TypeOK
  <2>2. /\ Piece(j, 1) \in Pieces
        /\ Piece(j, 1).job = j /\ Piece(j, 1).line = writer[j].line /\ Piece(j, 1).half = 1
        /\ combined' = Append(combined, Piece(j, 1))
        /\ UNCHANGED <<job_log, status, checker, reader, faults>>
    BY <1>2, PieceIn DEF AppendCombined, TypeOK
  <2>3. /\ combined' \in Seq(Pieces)
        /\ Len(combined') = Len(combined) + 1
        /\ combined'[Len(combined) + 1] = Piece(j, 1)
        /\ \A i \in 1..Len(combined) : combined'[i] = combined[i]
    BY <2>2, AppendProperties DEF TypeOK
  <2>4. QED
    BY <2>1, <2>2, <2>3, <1>2, LinesAssumption DEF TypeOK, WriterStates, AppendCombined
<1>3. ASSUME NEW j \in Jobs, AppendRest(j) PROVE Writers'
  <2>1. /\ writer' \in [Jobs -> WriterStates]
        /\ writer'[j].at = "idle" /\ writer'[j].line = writer[j].line + 1
        /\ \A k \in Jobs \ {j} : writer'[k] = writer[k]
    <3>1. writer[j].line + 1 \in Nat
      BY DEF TypeOK, WriterStates
    <3>2. writer' = [writer EXCEPT ![j] = [at |-> "idle", line |-> writer[j].line + 1]]
      BY <1>3 DEF AppendRest
    <3>3. QED
      BY <3>1, <3>2, IdleEffect DEF TypeOK
  <2>2. /\ Piece(j, 2) \in Pieces
        /\ Piece(j, 2).job = j /\ Piece(j, 2).line = writer[j].line /\ Piece(j, 2).half = 2
        /\ combined' = Append(combined, Piece(j, 2))
        /\ UNCHANGED <<job_log, status, checker, reader, faults>>
    BY <1>3, PieceIn DEF AppendRest, TypeOK
  <2>3. /\ combined' \in Seq(Pieces)
        /\ Len(combined') = Len(combined) + 1
        /\ combined'[Len(combined) + 1] = Piece(j, 2)
        /\ \A i \in 1..Len(combined) : combined'[i] = combined[i]
    BY <2>2, AppendProperties DEF TypeOK
  <2>4. QED
    BY <2>1, <2>2, <2>3, <1>3, LinesAssumption DEF TypeOK, WriterStates, AppendRest
<1>4. ASSUME NEW j \in Jobs, WriteFails(j) PROVE Writers'
  <2>1. /\ writer' \in [Jobs -> WriterStates]
        /\ writer'[j].at = "idle" /\ writer'[j].line = LINES + 1
        /\ \A k \in Jobs \ {j} : writer'[k] = writer[k]
    <3>1. LINES + 1 \in Nat /\ writer' = [writer EXCEPT ![j] = [at |-> "idle", line |-> LINES + 1]]
      BY <1>4, LinesAssumption DEF WriteFails
    <3>2. QED
      BY <3>1, IdleEffect DEF TypeOK
  <2>2. /\ faults' = faults + 1
        /\ UNCHANGED <<job_log, combined, status, checker, reader>>
    BY <1>4 DEF WriteFails
  <2>3. QED
    BY <2>1, <2>2, <1>4, LinesAssumption DEF TypeOK, WriterStates, WriteFails
<1>5. CASE RunEnds
  BY <1>5 DEF RunEnds
<1>6. CASE unregister_status_checker
  BY <1>6 DEF unregister_status_checker
<1>7. CASE UNCHANGED <<job_log, writer, status, checker>>
  BY <1>7
<1> HIDE DEF Writers, WritesLeft
<1>8. QED
  BY <1>1, <1>2, <1>3, <1>4, <1>5, <1>6, <1>7, ZenonT(60)
     DEF Next, write, Run, stream_sse, Poll, SendEvent, CheckStatus, Drain, Close, ReadFrom,
         vars

\* A follower drains the log after its last line.
LEMMA StepOffsets ==
  ASSUME TypeOK, Writers, Offsets, [Next]_vars
  PROVE  Offsets'
<1> USE DEF Offsets
<1>1. ASSUME NEW j \in Jobs, AppendCombined(j) PROVE Offsets'
  <2>1. /\ writer' \in [Jobs -> WriterStates]
        /\ writer'[j].at = "halfway" /\ writer'[j].line = writer[j].line
        /\ \A k \in Jobs \ {j} : writer'[k] = writer[k]
    BY <1>1, WriterEffect DEF AppendCombined, TypeOK
  <2>2. /\ Piece(j, 1) \in Pieces
        /\ Piece(j, 1).job = j /\ Piece(j, 1).line = writer[j].line /\ Piece(j, 1).half = 1
        /\ combined' = Append(combined, Piece(j, 1))
        /\ UNCHANGED <<job_log, status, checker, reader, faults>>
    BY <1>1, PieceIn DEF AppendCombined, TypeOK
  <2>3. /\ combined' \in Seq(Pieces)
        /\ Len(combined') = Len(combined) + 1
        /\ combined'[Len(combined) + 1] = Piece(j, 1)
        /\ \A i \in 1..Len(combined) : combined'[i] = combined[i]
    BY <2>2, AppendProperties DEF TypeOK
  <2>4. status # "terminal"
    BY <1>1 DEF Writers, AppendCombined
  <2>5. \A f \in Followers : reader[f].offset \in Nat
    BY DEF TypeOK, ReaderStates
  <2>6. Len(combined) \in Nat
    BY DEF TypeOK
  <2>7. QED
    BY <2>1, <2>2, <2>3, <2>4, <2>5, <2>6
<1>2. ASSUME NEW j \in Jobs, AppendRest(j) PROVE Offsets'
  <2>1. /\ writer' \in [Jobs -> WriterStates]
        /\ writer'[j].at = "idle" /\ writer'[j].line = writer[j].line + 1
        /\ \A k \in Jobs \ {j} : writer'[k] = writer[k]
    <3>1. writer[j].line + 1 \in Nat
      BY DEF TypeOK, WriterStates
    <3>2. writer' = [writer EXCEPT ![j] = [at |-> "idle", line |-> writer[j].line + 1]]
      BY <1>2 DEF AppendRest
    <3>3. QED
      BY <3>1, <3>2, IdleEffect DEF TypeOK
  <2>2. /\ Piece(j, 2) \in Pieces
        /\ Piece(j, 2).job = j /\ Piece(j, 2).line = writer[j].line /\ Piece(j, 2).half = 2
        /\ combined' = Append(combined, Piece(j, 2))
        /\ UNCHANGED <<job_log, status, checker, reader, faults>>
    BY <1>2, PieceIn DEF AppendRest, TypeOK
  <2>3. /\ combined' \in Seq(Pieces)
        /\ Len(combined') = Len(combined) + 1
        /\ combined'[Len(combined) + 1] = Piece(j, 2)
        /\ \A i \in 1..Len(combined) : combined'[i] = combined[i]
    BY <2>2, AppendProperties DEF TypeOK
  <2>4. status # "terminal"
    BY <1>2 DEF Writers, AppendRest
  <2>5. \A f \in Followers : reader[f].offset \in Nat
    BY DEF TypeOK, ReaderStates
  <2>6. Len(combined) \in Nat
    BY DEF TypeOK
  <2>7. QED
    BY <2>1, <2>2, <2>3, <2>4, <2>5, <2>6
<1>3. CASE RunEnds
  BY <1>3 DEF RunEnds
<1>4. ASSUME NEW f \in Followers, Poll(f) PROVE Offsets'
  <2>1. /\ reader' \in [Followers -> ReaderStates]
        /\ reader'[f].at = "send"
        /\ reader'[f].offset = Len(combined)
        /\ reader'[f].chunk = SubSeq(combined, reader[f].offset + 1, Len(combined))
        /\ reader'[f].sent = reader[f].sent
        /\ \A g \in Followers \ {f} : reader'[g] = reader[g]
    BY <1>4, ReadEffect DEF Poll, TypeOK, Offsets
  <2>2. UNCHANGED <<job_log, combined, writer, status, checker, faults>>
    BY <1>4 DEF Poll
  <2>3. Len(combined) \in Nat
    BY DEF TypeOK
  <2>4. QED
    BY <2>1, <2>2, <2>3
<1>5. ASSUME NEW f \in Followers, SendEvent(f) PROVE Offsets'
  <2>1. /\ reader' \in [Followers -> ReaderStates]
        /\ reader'[f].at = reader[f].at
        /\ reader'[f].offset = reader[f].offset
        /\ reader'[f].sent \o reader'[f].chunk = reader[f].sent \o reader[f].chunk
        /\ \A g \in Followers \ {f} : reader'[g] = reader[g]
    BY <1>5, SendEffect DEF TypeOK
  <2>2. UNCHANGED <<job_log, combined, writer, status, checker, faults>>
    BY <1>5 DEF SendEvent
  <2>3. reader[f].at \in {"send", "send_last"}
    BY <1>5 DEF SendEvent
  <2>4. QED
    BY <2>1, <2>2, <2>3
<1>6. ASSUME NEW f \in Followers, CheckStatus(f) PROVE Offsets'
  <2> DEFINE l == IF checker /\ status = "running" THEN "start" ELSE "drain"
  <2>0. reader' = [reader EXCEPT ![f].at = l] /\ l \in {"start", "drain"}
    BY <1>6 DEF CheckStatus
  <2> HIDE DEF l
  <2>1. /\ reader' \in [Followers -> ReaderStates]
        /\ reader'[f].at = l
        /\ reader'[f].offset = reader[f].offset
        /\ reader'[f].chunk = reader[f].chunk
        /\ reader'[f].sent = reader[f].sent
        /\ \A g \in Followers \ {f} : reader'[g] = reader[g]
    BY <1>6, GotoEffect, <2>0 DEF TypeOK
  <2>2. UNCHANGED <<job_log, combined, writer, status, checker, faults>>
    BY <1>6 DEF CheckStatus
  <2>3. /\ l = "drain" => status = "terminal"
        /\ reader[f].chunk = <<>>
    BY <1>6 DEF CheckStatus, TypeOK, Writers, l
  <2>4. QED
    BY <2>1, <2>2, <2>3, <2>0
<1>7. ASSUME NEW f \in Followers, Drain(f) PROVE Offsets'
  <2>1. /\ reader' \in [Followers -> ReaderStates]
        /\ reader'[f].at = "send_last"
        /\ reader'[f].offset = Len(combined)
        /\ reader'[f].chunk = SubSeq(combined, reader[f].offset + 1, Len(combined))
        /\ reader'[f].sent = reader[f].sent
        /\ \A g \in Followers \ {f} : reader'[g] = reader[g]
    BY <1>7, ReadEffect DEF Drain, TypeOK, Offsets
  <2>2. UNCHANGED <<job_log, combined, writer, status, checker, faults>>
    BY <1>7 DEF Drain
  <2>3. Len(combined) \in Nat
    BY DEF TypeOK
  <2>4. QED
    BY <2>1, <2>2, <2>3, <1>7 DEF Drain
<1>8. ASSUME NEW f \in Followers, Close(f) PROVE Offsets'
  <2> DEFINE l == "closed"
  <2>0. reader' = [reader EXCEPT ![f].at = l] /\ l \in {"start", "drain", "closed"}
    BY <1>8 DEF Close
  <2> HIDE DEF l
  <2>1. /\ reader' \in [Followers -> ReaderStates]
        /\ reader'[f].at = l
        /\ reader'[f].offset = reader[f].offset
        /\ reader'[f].chunk = reader[f].chunk
        /\ reader'[f].sent = reader[f].sent
        /\ \A g \in Followers \ {f} : reader'[g] = reader[g]
    BY <1>8, GotoEffect, <2>0 DEF TypeOK
  <2>2. UNCHANGED <<job_log, combined, writer, status, checker, faults>>
    BY <1>8 DEF Close
  <2>3. QED
    BY <2>1, <2>2, <1>8 DEF Close
<1>9. CASE UNCHANGED <<combined, reader, status>>
  BY <1>9
<1> HIDE DEF Offsets
<1>10. QED
  BY <1>1, <1>2, <1>3, <1>4, <1>5, <1>6, <1>7, <1>8, <1>9, ZenonT(60)
     DEF Next, write, Run, stream_sse, AppendJobLog, WriteFails, unregister_status_checker,
         vars

\* Nothing is sent twice, and nothing is left out.
LEMMA StepSent ==
  ASSUME TypeOK, Offsets, SentOnceInOrder, [Next]_vars
  PROVE  SentOnceInOrder'
<1> USE DEF SentOnceInOrder
<1>1. ASSUME NEW j \in Jobs, AppendCombined(j) PROVE SentOnceInOrder'
  <2>1. /\ writer' \in [Jobs -> WriterStates]
        /\ writer'[j].at = "halfway" /\ writer'[j].line = writer[j].line
        /\ \A k \in Jobs \ {j} : writer'[k] = writer[k]
    BY <1>1, WriterEffect DEF AppendCombined, TypeOK
  <2>2. /\ Piece(j, 1) \in Pieces
        /\ Piece(j, 1).job = j /\ Piece(j, 1).line = writer[j].line /\ Piece(j, 1).half = 1
        /\ combined' = Append(combined, Piece(j, 1))
        /\ UNCHANGED <<job_log, status, checker, reader, faults>>
    BY <1>1, PieceIn DEF AppendCombined, TypeOK
  <2>3. /\ combined' \in Seq(Pieces)
        /\ Len(combined') = Len(combined) + 1
        /\ combined'[Len(combined) + 1] = Piece(j, 1)
        /\ \A i \in 1..Len(combined) : combined'[i] = combined[i]
    BY <2>2, AppendProperties DEF TypeOK
  <2>4. ASSUME NEW f \in Followers
        PROVE  SubSeq(combined', 1, reader[f].offset) = SubSeq(combined, 1, reader[f].offset)
    <3>1. reader[f].offset \in Nat /\ reader[f].offset <= Len(combined)
      BY DEF TypeOK, ReaderStates, Offsets
    <3>2. QED
      BY <2>2, <3>1, PrefixOfAppend DEF TypeOK
  <2>5. QED
    BY <2>1, <2>2, <2>3, <2>4
<1>2. ASSUME NEW j \in Jobs, AppendRest(j) PROVE SentOnceInOrder'
  <2>1. /\ writer' \in [Jobs -> WriterStates]
        /\ writer'[j].at = "idle" /\ writer'[j].line = writer[j].line + 1
        /\ \A k \in Jobs \ {j} : writer'[k] = writer[k]
    <3>1. writer[j].line + 1 \in Nat
      BY DEF TypeOK, WriterStates
    <3>2. writer' = [writer EXCEPT ![j] = [at |-> "idle", line |-> writer[j].line + 1]]
      BY <1>2 DEF AppendRest
    <3>3. QED
      BY <3>1, <3>2, IdleEffect DEF TypeOK
  <2>2. /\ Piece(j, 2) \in Pieces
        /\ Piece(j, 2).job = j /\ Piece(j, 2).line = writer[j].line /\ Piece(j, 2).half = 2
        /\ combined' = Append(combined, Piece(j, 2))
        /\ UNCHANGED <<job_log, status, checker, reader, faults>>
    BY <1>2, PieceIn DEF AppendRest, TypeOK
  <2>3. /\ combined' \in Seq(Pieces)
        /\ Len(combined') = Len(combined) + 1
        /\ combined'[Len(combined) + 1] = Piece(j, 2)
        /\ \A i \in 1..Len(combined) : combined'[i] = combined[i]
    BY <2>2, AppendProperties DEF TypeOK
  <2>4. ASSUME NEW f \in Followers
        PROVE  SubSeq(combined', 1, reader[f].offset) = SubSeq(combined, 1, reader[f].offset)
    <3>1. reader[f].offset \in Nat /\ reader[f].offset <= Len(combined)
      BY DEF TypeOK, ReaderStates, Offsets
    <3>2. QED
      BY <2>2, <3>1, PrefixOfAppend DEF TypeOK
  <2>5. QED
    BY <2>1, <2>2, <2>3, <2>4
<1>3. ASSUME NEW f \in Followers, Poll(f) PROVE SentOnceInOrder'
  <2>1. /\ reader' \in [Followers -> ReaderStates]
        /\ reader'[f].at = "send"
        /\ reader'[f].offset = Len(combined)
        /\ reader'[f].chunk = SubSeq(combined, reader[f].offset + 1, Len(combined))
        /\ reader'[f].sent = reader[f].sent
        /\ \A g \in Followers \ {f} : reader'[g] = reader[g]
    BY <1>3, ReadEffect DEF Poll, TypeOK, Offsets
  <2>2. UNCHANGED <<job_log, combined, writer, status, checker, faults>>
    BY <1>3 DEF Poll
  <2>3. /\ reader[f].chunk = <<>> /\ reader[f].sent \in Seq(Pieces)
        /\ reader[f].offset \in Nat /\ reader[f].offset <= Len(combined)
    BY <1>3 DEF Poll, Offsets, TypeOK, ReaderStates
  <2>4. reader[f].sent = SubSeq(combined, 1, reader[f].offset)
    BY <2>3, ConcatEmptySeq
  <2>5. SubSeq(combined, 1, reader[f].offset)
          \o SubSeq(combined, reader[f].offset + 1, Len(combined))
        = SubSeq(combined, 1, Len(combined))
    BY <2>3, FromOffset DEF TypeOK
  <2>6. QED
    BY <2>1, <2>2, <2>3, <2>4, <2>5
<1>4. ASSUME NEW f \in Followers, SendEvent(f) PROVE SentOnceInOrder'
  <2>1. /\ reader' \in [Followers -> ReaderStates]
        /\ reader'[f].at = reader[f].at
        /\ reader'[f].offset = reader[f].offset
        /\ reader'[f].sent \o reader'[f].chunk = reader[f].sent \o reader[f].chunk
        /\ \A g \in Followers \ {f} : reader'[g] = reader[g]
    BY <1>4, SendEffect DEF TypeOK
  <2>2. UNCHANGED <<job_log, combined, writer, status, checker, faults>>
    BY <1>4 DEF SendEvent
  <2>3. QED
    BY <2>1, <2>2
<1>5. ASSUME NEW f \in Followers, CheckStatus(f) PROVE SentOnceInOrder'
  <2> DEFINE l == IF checker /\ status = "running" THEN "start" ELSE "drain"
  <2>0. reader' = [reader EXCEPT ![f].at = l] /\ l \in {"start", "drain"}
    BY <1>5 DEF CheckStatus
  <2> HIDE DEF l
  <2>1. /\ reader' \in [Followers -> ReaderStates]
        /\ reader'[f].at = l
        /\ reader'[f].offset = reader[f].offset
        /\ reader'[f].chunk = reader[f].chunk
        /\ reader'[f].sent = reader[f].sent
        /\ \A g \in Followers \ {f} : reader'[g] = reader[g]
    BY <1>5, GotoEffect, <2>0 DEF TypeOK
  <2>2. UNCHANGED <<job_log, combined, writer, status, checker, faults>>
    BY <1>5 DEF CheckStatus
  <2>3. QED
    BY <2>1, <2>2
<1>6. ASSUME NEW f \in Followers, Drain(f) PROVE SentOnceInOrder'
  <2>1. /\ reader' \in [Followers -> ReaderStates]
        /\ reader'[f].at = "send_last"
        /\ reader'[f].offset = Len(combined)
        /\ reader'[f].chunk = SubSeq(combined, reader[f].offset + 1, Len(combined))
        /\ reader'[f].sent = reader[f].sent
        /\ \A g \in Followers \ {f} : reader'[g] = reader[g]
    BY <1>6, ReadEffect DEF Drain, TypeOK, Offsets
  <2>2. UNCHANGED <<job_log, combined, writer, status, checker, faults>>
    BY <1>6 DEF Drain
  <2>3. /\ reader[f].chunk = <<>> /\ reader[f].sent \in Seq(Pieces)
        /\ reader[f].offset \in Nat /\ reader[f].offset <= Len(combined)
    BY <1>6 DEF Drain, Offsets, TypeOK, ReaderStates
  <2>4. reader[f].sent = SubSeq(combined, 1, reader[f].offset)
    BY <2>3, ConcatEmptySeq
  <2>5. SubSeq(combined, 1, reader[f].offset)
          \o SubSeq(combined, reader[f].offset + 1, Len(combined))
        = SubSeq(combined, 1, Len(combined))
    BY <2>3, FromOffset DEF TypeOK
  <2>6. QED
    BY <2>1, <2>2, <2>3, <2>4, <2>5
<1>7. ASSUME NEW f \in Followers, Close(f) PROVE SentOnceInOrder'
  <2> DEFINE l == "closed"
  <2>0. reader' = [reader EXCEPT ![f].at = l] /\ l \in {"start", "drain", "closed"}
    BY <1>7 DEF Close
  <2> HIDE DEF l
  <2>1. /\ reader' \in [Followers -> ReaderStates]
        /\ reader'[f].at = l
        /\ reader'[f].offset = reader[f].offset
        /\ reader'[f].chunk = reader[f].chunk
        /\ reader'[f].sent = reader[f].sent
        /\ \A g \in Followers \ {f} : reader'[g] = reader[g]
    BY <1>7, GotoEffect, <2>0 DEF TypeOK
  <2>2. UNCHANGED <<job_log, combined, writer, status, checker, faults>>
    BY <1>7 DEF Close
  <2>3. QED
    BY <2>1, <2>2
<1>8. CASE UNCHANGED <<combined, reader>>
  BY <1>8
<1> HIDE DEF SentOnceInOrder
<1>9. QED
  BY <1>1, <1>2, <1>3, <1>4, <1>5, <1>6, <1>7, <1>8, ZenonT(60)
     DEF Next, write, Run, stream_sse, AppendJobLog, WriteFails, RunEnds,
         unregister_status_checker, vars

\* The file gets the lines of a job in their order.
LEMMA StepLogged ==
  ASSUME TypeOK, Writers, Logged, [Next]_vars
  PROVE  Logged'
<1> USE DEF Logged
<1>1. ASSUME NEW j \in Jobs, AppendJobLog(j) PROVE Logged'
  <2>1. /\ writer' \in [Jobs -> WriterStates]
        /\ writer'[j].at = "combined" /\ writer'[j].line = writer[j].line
        /\ \A k \in Jobs \ {j} : writer'[k] = writer[k]
    BY <1>1, WriterEffect DEF AppendJobLog, TypeOK
  <2>2. /\ writer[j].line \in Nat
        /\ job_log' = [job_log EXCEPT ![j] = Append(job_log[j], writer[j].line)]
        /\ UNCHANGED <<combined, status, checker, reader, faults>>
    BY <1>1 DEF AppendJobLog, TypeOK, WriterStates
  <2>3. /\ job_log' \in [Jobs -> Seq(Nat)]
        /\ Len(job_log'[j]) = Len(job_log[j]) + 1
        /\ job_log'[j][Len(job_log[j]) + 1] = writer[j].line
        /\ \A n \in 1..Len(job_log[j]) : job_log'[j][n] = job_log[j][n]
        /\ \A k \in Jobs \ {j} : job_log'[k] = job_log[k]
    BY <2>2, AppendProperties DEF TypeOK
  <2>4. \A k \in Jobs : Begun(k)' = Begun(k)
    BY <2>2 DEF Begun
  <2>5. \A k \in Jobs, n \in Nat : BegunAt(k, n) => BegunAt(k, n)'
    BY <2>2, <2>4 DEF BegunAt
  <2>6. \A n \in 1..Len(job_log[j]) : BegunAt(j, n)
    BY <1>1 DEF AppendJobLog, LoggedOf
  <2>7. ASSUME NEW k \in Jobs \ {j} PROVE LoggedOf(k)'
    BY <2>1, <2>2, <2>3, <2>4, <2>5 DEF LoggedOf, WritesLeft, TypeOK
  <2>8. LoggedOf(j)'
    <3>1. Len(job_log[j]) \in Nat
      BY DEF TypeOK
    <3>2. QED
      BY <2>1, <2>2, <2>3, <2>4, <2>5, <2>6, <3>1 DEF LoggedOf, WritesLeft
  <2>9. QED
    BY <2>7, <2>8
<1>2. ASSUME NEW j \in Jobs, AppendCombined(j) PROVE Logged'
  <2>1. /\ writer' \in [Jobs -> WriterStates]
        /\ writer'[j].at = "halfway" /\ writer'[j].line = writer[j].line
        /\ \A k \in Jobs \ {j} : writer'[k] = writer[k]
    BY <1>2, WriterEffect DEF AppendCombined, TypeOK
  <2>2. /\ Piece(j, 1) \in Pieces
        /\ Piece(j, 1).job = j /\ Piece(j, 1).line = writer[j].line /\ Piece(j, 1).half = 1
        /\ combined' = Append(combined, Piece(j, 1))
        /\ UNCHANGED <<job_log, status, checker, reader, faults>>
    BY <1>2, PieceIn DEF AppendCombined, TypeOK
  <2>3. /\ combined' \in Seq(Pieces)
        /\ Len(combined') = Len(combined) + 1
        /\ combined'[Len(combined) + 1] = Piece(j, 1)
        /\ \A i \in 1..Len(combined) : combined'[i] = combined[i]
    BY <2>2, AppendProperties DEF TypeOK
  <2>4. /\ \A k \in Jobs \ {j} : Begun(k)' = Begun(k)
        /\ Begun(j)' = Begun(j) \cup {Len(combined) + 1}
        /\ \A k \in Jobs : Begun(k) \subseteq 1..Len(combined)
    BY <2>2, <2>3 DEF Begun, TypeOK
  <2>5. /\ \A k \in Jobs : \A i \in Begun(k) : combined'[i].line = combined[i].line
        /\ combined'[Len(combined) + 1].line = Len(job_log[j])
        /\ Len(combined) \in Nat /\ Len(job_log[j]) \in Nat \ {0}
    <3>1. writer[j].line = Len(job_log[j]) /\ writer[j].line > 0
      BY <1>2 DEF AppendCombined, Writers
    <3>2. Len(combined) \in Nat /\ Len(job_log[j]) \in Nat
      BY DEF TypeOK
    <3>3. QED
      BY <2>2, <2>3, <2>4, <3>1, <3>2
  <2>6. /\ \A k \in Jobs, n \in Nat : BegunAt(k, n) => BegunAt(k, n)'
        /\ BegunAt(j, Len(job_log[j]))'
    BY <2>2, <2>4, <2>5 DEF BegunAt
  <2>7. ASSUME NEW k \in Jobs \ {j} PROVE LoggedOf(k)'
    BY <2>1, <2>2, <2>4, <2>5, <2>6 DEF LoggedOf, WritesLeft, TypeOK
  <2>8. LoggedOf(j)'
    <3>1. \A i \in Begun(j) : combined[i].line \in 1..Len(job_log[j])
                            /\ combined[i].line < Len(job_log[j])
      BY <1>2 DEF AppendCombined, LoggedOf
    <3>2. \A i, k \in Begun(j)' : i < k => combined'[i].line < combined'[k].line
      BY <2>4, <2>5, <3>1 DEF LoggedOf
    <3>3. ASSUME NEW n \in 1..Len(job_log[j]) PROVE BegunAt(j, n)'
      <4>1. CASE n = Len(job_log[j])
        BY <2>2, <2>6, <4>1
      <4>2. CASE n # Len(job_log[j])
        <5>1. n \in 1..(Len(job_log[j]) - 1) /\ n \in Nat
          BY <2>5, <4>2
        <5>2. QED
          BY <2>6, <5>1 DEF LoggedOf
      <4>3. QED
        BY <4>1, <4>2
    <3>4. QED
      BY <2>1, <2>2, <2>4, <2>5, <3>1, <3>2, <3>3 DEF LoggedOf
  <2>9. QED
    BY <2>7, <2>8
<1>3. ASSUME NEW j \in Jobs, AppendRest(j) PROVE Logged'
  <2>1. /\ writer' \in [Jobs -> WriterStates]
        /\ writer'[j].at = "idle" /\ writer'[j].line = writer[j].line + 1
        /\ \A k \in Jobs \ {j} : writer'[k] = writer[k]
    <3>1. writer[j].line + 1 \in Nat
      BY DEF TypeOK, WriterStates
    <3>2. writer' = [writer EXCEPT ![j] = [at |-> "idle", line |-> writer[j].line + 1]]
      BY <1>3 DEF AppendRest
    <3>3. QED
      BY <3>1, <3>2, IdleEffect DEF TypeOK
  <2>2. /\ Piece(j, 2) \in Pieces
        /\ Piece(j, 2).job = j /\ Piece(j, 2).line = writer[j].line /\ Piece(j, 2).half = 2
        /\ combined' = Append(combined, Piece(j, 2))
        /\ UNCHANGED <<job_log, status, checker, reader, faults>>
    BY <1>3, PieceIn DEF AppendRest, TypeOK
  <2>3. /\ combined' \in Seq(Pieces)
        /\ Len(combined') = Len(combined) + 1
        /\ combined'[Len(combined) + 1] = Piece(j, 2)
        /\ \A i \in 1..Len(combined) : combined'[i] = combined[i]
    BY <2>2, AppendProperties DEF TypeOK
  <2>4. /\ \A k \in Jobs : Begun(k)' = Begun(k)
        /\ \A k \in Jobs : Begun(k) \subseteq 1..Len(combined)
    BY <2>2, <2>3 DEF Begun, TypeOK
  <2>5. \A k \in Jobs : \A i \in Begun(k) : combined'[i].line = combined[i].line
    BY <2>3, <2>4
  <2>6. \A k \in Jobs, n \in Nat : BegunAt(k, n) => BegunAt(k, n)'
    BY <2>4, <2>5 DEF BegunAt
  <2>7. ASSUME NEW k \in Jobs \ {j} PROVE LoggedOf(k)'
    <3>1. writer'[k] = writer[k] /\ Begun(k)' = Begun(k) /\ WritesLeft(k)' = WritesLeft(k)
      BY <2>1, <2>4 DEF WritesLeft
    <3>2. /\ \A i \in Begun(k) : combined'[i].line = combined[i].line
          /\ \A n \in Nat : BegunAt(k, n) => BegunAt(k, n)'
          /\ Len(job_log[k]) \in Nat
      BY <2>5, <2>6 DEF TypeOK
    <3>3. LoggedOf(k) /\ UNCHANGED <<job_log, faults>>
      BY <2>2 DEF Logged
    <3>4. \A n \in 1..(Len(job_log[k]) - 1) : BegunAt(k, n)'
      BY <3>2, <3>3 DEF LoggedOf
    <3>5. writer[k].at # "combined" /\ (WritesLeft(k) \/ faults = 0) =>
            \A n \in 1..Len(job_log[k]) : BegunAt(k, n)'
      BY <3>2, <3>3 DEF LoggedOf
    <3>6. \A i, m \in Begun(k) : i < m => combined'[i].line < combined'[m].line
      BY <3>2, <3>3 DEF LoggedOf
    <3>7. QED
      BY <3>1, <3>2, <3>3, <3>4, <3>5, <3>6 DEF LoggedOf
  <2>8. LoggedOf(j)'
    <3>1. writer[j].at = "halfway" /\ WritesLeft(j) /\ Len(job_log[j]) \in Nat
      BY <1>3 DEF AppendRest, Writers, TypeOK
    <3>2. \A n \in 1..Len(job_log[j]) : BegunAt(j, n)'
      BY <2>6, <3>1 DEF LoggedOf
    <3>3. QED
      BY <2>1, <2>2, <2>4, <2>5, <3>1, <3>2 DEF LoggedOf
  <2>9. QED
    BY <2>7, <2>8
<1>4. ASSUME NEW j \in Jobs, WriteFails(j) PROVE Logged'
  <2>1. /\ writer' \in [Jobs -> WriterStates]
        /\ writer'[j].at = "idle" /\ writer'[j].line = LINES + 1
        /\ \A k \in Jobs \ {j} : writer'[k] = writer[k]
    <3>1. LINES + 1 \in Nat /\ writer' = [writer EXCEPT ![j] = [at |-> "idle", line |-> LINES + 1]]
      BY <1>4, LinesAssumption DEF WriteFails
    <3>2. QED
      BY <3>1, IdleEffect DEF TypeOK
  <2>2. /\ faults' = faults + 1
        /\ UNCHANGED <<job_log, combined, status, checker, reader>>
    BY <1>4 DEF WriteFails
  <2>3. /\ \A k \in Jobs : Begun(k)' = Begun(k)
        /\ \A k \in Jobs, n \in Nat : BegunAt(k, n)' = BegunAt(k, n)
    BY <2>2 DEF Begun, BegunAt
  <2>4. ~ WritesLeft(j)' /\ faults' # 0 /\ (faults' = 0 => faults = 0)
    BY <2>1, <2>2, LinesAssumption DEF WritesLeft, TypeOK
  <2>5. ASSUME NEW k \in Jobs \ {j} PROVE LoggedOf(k)'
    BY <2>1, <2>2, <2>3, <2>4 DEF LoggedOf, WritesLeft, TypeOK
  <2>6. LoggedOf(j)'
    BY <2>1, <2>2, <2>3, <2>4 DEF LoggedOf, TypeOK
  <2>7. QED
    BY <2>5, <2>6
<1>5. CASE UNCHANGED <<job_log, combined, writer, faults>>
  BY <1>5 DEF LoggedOf, Begun, BegunAt, WritesLeft
<1> HIDE DEF Logged
<1>6. QED
  BY <1>1, <1>2, <1>3, <1>4, <1>5, ZenonT(60)
     DEF Next, write, Run, stream_sse, RunEnds, unregister_status_checker, Poll, SendEvent,
         CheckStatus, Drain, Close, ReadFrom, vars

-----------------------------------------------------------------------------
\* The invariant holds before the first line.
LEMMA InitInv == ASSUME Init PROVE IInv
<1> USE LinesAssumption DEF Init
<1>1. TypeOK
  BY DEF TypeOK, WriterStates, ReaderStates
<1>2. Writers
  BY DEF Writers, WritesLeft
<1>3. Logged
  BY DEF Logged, LoggedOf, Begun
<1>4. Offsets /\ SentOnceInOrder
  BY DEF Offsets, SentOnceInOrder
<1>5. QED
  BY <1>1, <1>2, <1>3, <1>4 DEF IInv

\* The invariant is inductive, for any number of jobs, lines and followers.
THEOREM Invariance == Spec => []IInv
<1>1. Init => IInv
  BY InitInv
<1>2. IInv /\ [Next]_vars => IInv'
  BY StepType, StepWriters, StepLogged, StepOffsets, StepSent DEF IInv
<1>3. QED
  BY <1>1, <1>2, PTL DEF Spec

\* A follower sends every byte of the log once and in order, torn lines
\* included (stream_sse and its offset, SentOnceInOrder).
THEOREM SendsOnceInOrder == Spec => []SentOnceInOrder
<1>1. IInv => SentOnceInOrder
  BY DEF IInv
<1>2. QED
  BY <1>1, Invariance, PTL

\* When a follower ends it has sent the whole log, and the log has what the
\* jobs' own logs have, but for lines that failed between the two files (the
\* status read before the final drain, NothingMissed).
THEOREM MissesNothing == Spec => []NothingMissed
<1>1. ASSUME IInv, NEW f \in Followers, reader[f].at = "closed"
      PROVE  reader[f].sent = combined
  <2>1. reader[f].sent \in Seq(Pieces) /\ combined \in Seq(Pieces)
    BY <1>1 DEF IInv, TypeOK, ReaderStates
  <2>2. reader[f].sent \o <<>> = SubSeq(combined, 1, Len(combined))
    BY <1>1 DEF IInv, Offsets, SentOnceInOrder
  <2>3. QED
    BY <2>1, <2>2, ConcatEmptySeq, SubSeqFull
<1>2. ASSUME IInv, NEW f \in Followers, reader[f].at = "closed", NEW j \in Jobs
      PROVE  /\ \A i \in Begun(j) : PlaceOf(j, i) # {}
             /\ \A i, k \in Begun(j) : i < k =>
                  \A m \in PlaceOf(j, i), n \in PlaceOf(j, k) : m < n
             /\ \A n \in 1..(Len(job_log[j]) - faults) :
                  \E i \in Begun(j) : n \in PlaceOf(j, i)
  <2>1. /\ DOMAIN job_log[j] = 1..Len(job_log[j]) /\ Len(job_log[j]) \in Nat
        /\ \A n \in DOMAIN job_log[j] : job_log[j][n] = n
        /\ faults \in Nat
    BY <1>2 DEF IInv, TypeOK, Writers
  <2>2. writer[j].at # "combined" /\ LoggedOf(j)
    BY <1>2 DEF IInv, Offsets, Writers, Logged
  <2>3. \A i \in Begun(j) : PlaceOf(j, i) = {combined[i].line}
    BY <2>1, <2>2 DEF LoggedOf, PlaceOf
  <2>4. ASSUME NEW n \in 1..(Len(job_log[j]) - faults) PROVE BegunAt(j, n)
    <3>1. CASE faults = 0
      BY <2>1, <2>2, <2>4, <3>1 DEF LoggedOf
    <3>2. CASE faults # 0
      BY <2>1, <2>2, <2>4, <3>2 DEF LoggedOf
    <3>3. QED
      BY <3>1, <3>2
  <2>5. \A i, k \in Begun(j) : i < k => combined[i].line < combined[k].line
    BY <2>2 DEF LoggedOf
  <2>6. QED
    BY <2>3, <2>4, <2>5 DEF BegunAt
<1>3. IInv => NothingMissed
  BY <1>1, <1>2 DEF NothingMissed
<1>4. QED
  BY <1>3, Invariance, PTL
=============================================================================
