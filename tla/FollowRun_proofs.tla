---------------------------- MODULE FollowRun_proofs ----------------------------
(***************************************************************************)
(* What clients are told of a run and who gets a thread: the inductive     *)
(* invariant of FollowRun and what follows from it, for any number of      *)
(* runs, jobs, clients, threads and failures.                              *)
(***************************************************************************)
EXTENDS FollowRun, TLAPS, SequenceTheorems, WellFoundedInduction

Statuses == {"none"} \cup Live \cup Verdicts
Answers == [code : {0, 200, 404, 500}, status : Statuses, listed : SUBSET Jobs]
ClientStates ==
  [at : {"idle", "posted", "submitted", "streaming", "ended", "asked", "listing", "exit"},
   answer : Answers, exit : {-1, 0, 1}]
StreamStates ==
  [at : {"read", "send", "drain", "send_last"}, offset : Nat, pending : Nat]

TypeOK ==
  /\ status \in [Runs -> Statuses] /\ entries \in [Runs -> SUBSET Jobs]
  /\ known \in SUBSET Runs /\ checker \in SUBSET Runs
  /\ lines \in [Runs -> Nat]
  /\ queue \in Seq(Claims) /\ holders \in SUBSET Claims
  /\ client \in [Clients -> ClientStates]
  /\ stream \in [Clients -> StreamStates]
  /\ faults \in Nat
  /\ \A c \in Clients : stream[c].offset <= lines[Of(c)]

\* The engine's tables: without its checker a run it knows is over, and it
\* forgets a run only at a restart.
Tables ==
  /\ checker \subseteq known
  /\ \A r \in Runs :
       /\ r \in known => status[r] # "none"
       /\ r \in known \ checker => status[r] \in Verdicts
       /\ status[r] # "none" => r \in known \/ faults > 0
       /\ status[r] = "succeeded" => entries[r] = Jobs
       /\ client[r].at \in {"idle", "posted"} => status[r] = "none"
       /\ client[r].at \notin {"idle", "posted", "exit"} => status[r] # "none"

\* A run or a follower that waits for a thread or has one belongs to a run the
\* engine knows.
Active(k) == k \in holders \/ \E i \in DOMAIN queue : queue[i] = k

Claimed ==
  /\ \A r \in Runs : Active(RunClaim(r)) => r \in known
  /\ \A c \in Clients : Active(StreamClaim(c)) => Of(c) \in known

\* A submission under way is one claim of a run that is not there yet.  Its
\* command waits, unless something went wrong.
Posted ==
  \A r \in Runs :
    /\ Active(AuthClaim(r)) =>
         /\ status[r] = "none" /\ client[r].at # "idle"
         /\ client[r].at = "posted" \/ faults > 0
    /\ AuthClaim(r) \in holders => \A i \in DOMAIN queue : queue[i] # AuthClaim(r)
    /\ \A i, k \in DOMAIN queue :
         queue[i] = AuthClaim(r) /\ queue[k] = AuthClaim(r) => i = k

\* In the queue a run stands before its followers.
RunsInFront ==
  \A c \in Clients : \A i, k \in DOMAIN queue :
    queue[i] = StreamClaim(c) /\ queue[k] = RunClaim(Of(c)) => k < i

\* A generator that drains the log does so after the last line.
DrainsLast ==
  \A c \in Clients :
    /\ stream[c].at \in {"drain", "send_last"} => status[Of(c)] \in Verdicts
    /\ stream[c].at = "send_last" => stream[c].offset = lines[Of(c)]

\* All of the log has been sent.
Sent(c) == stream[c].at = "send_last" /\ stream[c].pending = 0

\* What the command that follows its own run knows.
CommandSees ==
  \A r \in Runs :
    /\ client[r].at \in {"ended", "asked", "listing"} => status[r] \in Verdicts /\ Sent(r)
    /\ client[r].at \in {"asked", "listing"} => client[r].answer.status \in Verdicts
    /\ client[r].exit = 0 => status[r] = "succeeded" /\ Sent(r)
    /\ client[r].exit = 1 =>
         client[r].at = "exit" /\ (faults > 0 \/ status[r] \in {"none", "failed"})

\* What an answer says of a run that is over stays true.
AnswersTrue ==
  \A c \in Clients :
    LET answer == client[c].answer IN
    /\ answer.status \in Verdicts => answer.status = status[Of(c)]
    /\ client[c].at \in {"asked", "listing"} => answer.status # "none"
    /\ client[c].at = "listing" \/ answer.code = 200 =>
         (answer.status \in Verdicts => answer.listed = entries[Of(c)])
    /\ answer.code # 0 => client[c].at = "exit"
    /\ answer.code = 500 => answer.status \in Live /\ c \in Watchers

IInv ==
  /\ TypeOK
  /\ Tables /\ Claimed /\ Posted /\ RunsInFront /\ RunGoesFirst
  /\ DrainsLast
  /\ CommandSees /\ AnswersTrue

-----------------------------------------------------------------------------
(* Sequences: what RemoveFirst leaves of a queue *)

\* "<" on Nat is well founded.
Less == OpToRel(<, Nat)

\* Min chooses an element of a set of numbers.
LEMMA MinIn == ASSUME NEW I \in SUBSET Nat, I # {} PROVE Min(I) \in I
<1>1. \A a, b \in Nat : a < b => <<a, b>> \in Less
  BY DEF Less, OpToRel
<1>2. IsWellFoundedOn(Less, Nat)
  BY NatLessThanWellFounded, Zenon DEF Less
<1>3. PICK x \in I : \A y \in I : ~ (<<y, x>> \in Less)
  BY <1>2, WFMin
<1>4. ASSUME NEW y \in I, y < x PROVE FALSE
  <2>1. x \in Nat /\ y \in Nat
    OBVIOUS
  <2>2. <<y, x>> \in Less
    BY <1>1, <1>4, <2>1
  <2>3. QED
    BY <1>3, <2>2
<1>5. \A y \in I : x <= y
  BY <1>4
<1>6. QED
  BY <1>5 DEF Min

\* RemoveAt takes one element out and keeps the order of the others.
LEMMA RemoveAtSeq ==
  ASSUME NEW S, NEW s \in Seq(S), NEW i \in 1..Len(s)
  PROVE  /\ RemoveAt(s, i) \in Seq(S)
         /\ Len(RemoveAt(s, i)) = Len(s) - 1
         /\ \A k \in 1..(Len(s) - 1) :
              RemoveAt(s, i)[k] = IF k < i THEN s[k] ELSE s[k+1]
<1> DEFINE a == SubSeq(s, 1, i - 1)
           b == SubSeq(s, i + 1, Len(s))
<1>1. /\ a \in Seq(S) /\ Len(a) = i - 1
      /\ \A k \in 1..(i - 1) : a[k] = s[k]
  OBVIOUS
<1>2. /\ b \in Seq(S) /\ Len(b) = Len(s) - i
      /\ \A k \in 1..(Len(s) - i) : b[k] = s[i + k]
  OBVIOUS
<1>3. RemoveAt(s, i) = a \o b
  BY DEF RemoveAt
<1> HIDE DEF a, b
<1>4. /\ a \o b \in Seq(S) /\ Len(a \o b) = Len(a) + Len(b)
      /\ \A k \in 1..(Len(a) + Len(b)) :
           (a \o b)[k] = IF k <= Len(a) THEN a[k] ELSE b[k - Len(a)]
  BY <1>1, <1>2, ConcatProperties
<1>5. ASSUME NEW k \in 1..(Len(s) - 1)
      PROVE  RemoveAt(s, i)[k] = IF k < i THEN s[k] ELSE s[k+1]
  <2>1. CASE k < i
    BY <1>1, <1>2, <1>3, <1>4, <2>1
  <2>2. CASE k >= i
    <3>1. b[k - (i - 1)] = s[i + (k - (i - 1))] /\ i + (k - (i - 1)) = k + 1
      BY <1>2, <2>2
    <3>2. QED
      BY <1>1, <1>2, <1>3, <1>4, <2>2, <3>1
  <2>3. QED
    BY <2>1, <2>2
<1>6. QED
  BY <1>1, <1>2, <1>3, <1>4, <1>5

\* RemoveFirst keeps the order too: two places in the rest come from two places
\* of the queue, in the same order.
LEMMA RemoveFirstKeeps ==
  ASSUME NEW S, NEW s \in Seq(S), NEW e
  PROVE  /\ RemoveFirst(s, e) \in Seq(S)
         /\ \A k \in DOMAIN RemoveFirst(s, e) : \E m \in DOMAIN s : s[m] = RemoveFirst(s, e)[k]
         /\ \A k, l \in DOMAIN RemoveFirst(s, e) : k <= l =>
              \E m, n \in DOMAIN s : /\ s[m] = RemoveFirst(s, e)[k]
                                     /\ s[n] = RemoveFirst(s, e)[l]
                                     /\ m <= n /\ (k < l => m < n)
<1> DEFINE I == {i \in 1..Len(s) : s[i] = e}
<1>1. CASE I # {}
  <2>0. I \in SUBSET Nat
    OBVIOUS
  <2> HIDE DEF I
  <2>1. Min(I) \in I
    BY <1>1, <2>0, MinIn
  <2> USE DEF I
  <2>2. RemoveFirst(s, e) = RemoveAt(s, Min(I))
    BY <1>1 DEF RemoveFirst, SelectInSeq
  <2>3. PICK i \in 1..Len(s) : RemoveFirst(s, e) = RemoveAt(s, i)
    BY <2>1, <2>2
  <2> DEFINE t == RemoveAt(s, i)
  <2>4. t \in Seq(S) /\ DOMAIN t = 1..(Len(s) - 1)
        /\ \A k \in DOMAIN t : t[k] = IF k < i THEN s[k] ELSE s[k+1]
    <3>1. /\ t \in Seq(S) /\ Len(t) = Len(s) - 1
          /\ \A k \in 1..(Len(s) - 1) : t[k] = IF k < i THEN s[k] ELSE s[k+1]
      BY RemoveAtSeq
    <3> HIDE DEF t
    <3>2. DOMAIN t = 1..(Len(s) - 1)
      BY <3>1
    <3>3. QED
      BY <3>1, <3>2
  <2>5. RemoveFirst(s, e) = t
    BY <2>3
  <2> HIDE DEF t
  <2>6. i \in 1..Len(s) /\ t = RemoveFirst(s, e)
    BY <2>5
  <2>7. ASSUME NEW k \in DOMAIN t, NEW l \in DOMAIN t, k <= l
        PROVE  \E m, n \in DOMAIN s : /\ s[m] = t[k] /\ s[n] = t[l]
                                       /\ m <= n /\ (k < l => m < n)
    <3> DEFINE m == IF k < i THEN k ELSE k + 1
               n == IF l < i THEN l ELSE l + 1
    <3>1. m \in DOMAIN s /\ n \in DOMAIN s /\ m <= n /\ (k < l => m < n)
      BY <2>4, <2>6, <2>7
    <3>2. s[m] = t[k] /\ s[n] = t[l]
      BY <2>4
    <3> HIDE DEF m, n
    <3>3. QED
      BY <3>1, <3>2
  <2>8. \A k \in DOMAIN t : \E m \in DOMAIN s : s[m] = t[k]
    BY <2>4, <2>6
  <2>9. QED
    BY <2>4, <2>6, <2>7, <2>8
<1>2. CASE I = {}
  <2>1. RemoveFirst(s, e) = s
    BY <1>2 DEF RemoveFirst
  <2>2. QED
    BY <2>1
<1>3. QED
  BY <1>1, <1>2

-----------------------------------------------------------------------------
USE ClientsAssumption, WatchedAssumption, BoundsAssumption DEF engine, pool

\* Every client belongs to a run.
LEMMA ClientParts ==
  /\ \A c \in Clients : Of(c) \in Runs
  /\ \A r \in Runs : r \in Clients /\ Of(r) = r
  /\ \A c \in Clients : c \in Runs \/ c \in Watchers
BY DEF Clients, Of

\* Claims of runs and of followers differ.
LEMMA ClaimParts ==
  /\ \A r \in Runs : RunClaim(r) \in Claims /\ AuthClaim(r) \in Claims
  /\ \A c \in Clients : StreamClaim(c) \in Claims
  /\ \A r, q \in Runs : RunClaim(r) = RunClaim(q) => r = q
  /\ \A c, d \in Clients : StreamClaim(c) = StreamClaim(d) => c = d
  /\ \A r, q \in Runs : AuthClaim(r) = AuthClaim(q) => r = q
  /\ \A r \in Runs, c \in Clients : RunClaim(r) # StreamClaim(c)
  /\ \A r \in Runs, c \in Clients : AuthClaim(r) # StreamClaim(c)
  /\ \A r, q \in Runs : AuthClaim(r) # RunClaim(q)
BY DEF Claims, AuthClaim, RunClaim, StreamClaim

\* What a step makes of the records of a client and of its generator.
LEMMA GotoEffect ==
  ASSUME client \in [Clients -> ClientStates], NEW c \in Clients,
         NEW l \in {"posted", "submitted", "streaming", "ended", "asked", "listing", "exit"}, Goto(c, l)
  PROVE  /\ client' \in [Clients -> ClientStates]
         /\ client'[c].at = l
         /\ client'[c].answer = client[c].answer
         /\ client'[c].exit = client[c].exit
         /\ \A d \in Clients \ {c} : client'[d] = client[d]
<1> DEFINE x == client[c]
           y == [x EXCEPT !.at = l]
<1>1. client' = [client EXCEPT ![c] = y]
  BY DEF Goto
<1>2. /\ y \in ClientStates
      /\ y.at = l
      /\ y.answer = x.answer
      /\ y.exit = x.exit
  BY DEF ClientStates
<1> HIDE DEF y
<1>3. QED
  BY <1>1, <1>2

\* A client that leaves keeps the answer it has.
LEMMA LeftEffect ==
  ASSUME NEW x \in ClientStates, NEW e \in {0, 1}
  PROVE  /\ Left(x, e) \in ClientStates
         /\ Left(x, e).at = "exit"
         /\ Left(x, e).answer = x.answer
         /\ Left(x, e).exit = e
BY DEF ClientStates, Left

\* Exit changes one client only: it leaves with its code.
LEMMA ExitEffect ==
  ASSUME client \in [Clients -> ClientStates], NEW c \in Clients, NEW e \in {0, 1}, Exit(c, e)
  PROVE  /\ client' \in [Clients -> ClientStates]
         /\ client'[c].at = "exit"
         /\ client'[c].answer = client[c].answer
         /\ client'[c].exit = e
         /\ \A d \in Clients \ {c} : client'[d] = client[d]
BY LeftEffect DEF Exit

\* The answer to a submission reaches a command that still waits for it.
LEMMA ReplyEffect ==
  ASSUME client \in [Clients -> ClientStates], NEW c \in Clients,
         NEW seen \in ClientStates, Reply(c, seen)
  PROVE  /\ client' \in [Clients -> ClientStates]
         /\ client[c].at = "posted" => client'[c] = seen
         /\ client[c].at # "posted" => client' = client
         /\ \A d \in Clients \ {c} : client'[d] = client[d]
BY DEF Reply

LEMMA SubmitEffect ==
  ASSUME client \in [Clients -> ClientStates], NEW r \in Clients, Submit(r)
  PROVE  /\ client' \in [Clients -> ClientStates]
         /\ client[r].at = "posted" =>
              /\ client'[r].at = "submitted"
              /\ client'[r].answer = client[r].answer /\ client'[r].exit = client[r].exit
         /\ client[r].at # "posted" => client' = client
         /\ \A d \in Clients \ {r} : client'[d] = client[d]
<1> DEFINE x == client[r]
           y == [x EXCEPT !.at = "submitted"]
<1>1. /\ y \in ClientStates
      /\ y.at = "submitted" /\ y.answer = x.answer /\ y.exit = x.exit
  BY DEF ClientStates
<1>2. Reply(r, y)
  BY DEF Submit
<1> HIDE DEF y
<1>3. QED
  BY <1>1, <1>2, ReplyEffect

LEMMA RefusedEffect ==
  ASSUME client \in [Clients -> ClientStates], NEW r \in Clients, SubmitRefused(r)
  PROVE  /\ client' \in [Clients -> ClientStates]
         /\ client[r].at = "posted" =>
              /\ client'[r].at = "exit"
              /\ client'[r].answer = client[r].answer /\ client'[r].exit = 1
         /\ client[r].at # "posted" => client' = client
         /\ \A d \in Clients \ {r} : client'[d] = client[d]
<1> DEFINE y == Left(client[r], 1)
<1>1. /\ y \in ClientStates
      /\ y.at = "exit" /\ y.answer = client[r].answer /\ y.exit = 1
  BY LeftEffect
<1>2. Reply(r, y)
  BY DEF SubmitRefused
<1> HIDE DEF y
<1>3. QED
  BY <1>1, <1>2, ReplyEffect

\* What AskStatus notes of the status.
LEMMA AskEffect ==
  ASSUME client \in [Clients -> ClientStates], NEW c \in Clients,
         status[Of(c)] \in Statuses, AskStatus(c)
  PROVE  /\ client' \in [Clients -> ClientStates]
         /\ client'[c].at = "asked"
         /\ client'[c].answer.status = status[Of(c)]
         /\ client'[c].answer.code = client[c].answer.code
         /\ client'[c].exit = client[c].exit
         /\ \A d \in Clients \ {c} : client'[d] = client[d]
<1> DEFINE x == client[c]
           a == [x.answer EXCEPT !.status = status[Of(c)]]
           y == [[x EXCEPT !.at = "asked"] EXCEPT !.answer = a]
<1>1. /\ a \in Answers
      /\ a.status = status[Of(c)]
      /\ a.code = x.answer.code
  <2>1. x.answer \in Answers
    BY DEF ClientStates
  <2> DEFINE s == status[Of(c)]
             b == x.answer
  <2>2. s \in Statuses /\ a = [b EXCEPT !.status = s]
    OBVIOUS
  <2> HIDE DEF a, s, b
  <2>3. b \in Answers
    BY <2>1 DEF b
  <2>4. a \in Answers /\ a.status = s /\ a.code = b.code
    BY <2>2, <2>3 DEF Answers
  <2>5. QED
    BY <2>4 DEF s, b
<1>2. client' = [client EXCEPT ![c] = y]
  BY DEF AskStatus
<1> HIDE DEF a
<1>3. /\ y \in ClientStates
      /\ y.at = "asked"
      /\ y.answer.status = status[Of(c)]
      /\ y.answer.code = x.answer.code
      /\ y.exit = x.exit
  BY <1>1 DEF ClientStates
<1> HIDE DEF y
<1>4. QED
  BY <1>2, <1>3

\* What ListJobs notes of the entries.
LEMMA ListEffect ==
  ASSUME client \in [Clients -> ClientStates], NEW c \in Clients,
         entries[Of(c)] \in SUBSET Jobs, ListJobs(c)
  PROVE  /\ client' \in [Clients -> ClientStates]
         /\ client'[c].at = "listing"
         /\ client'[c].answer.listed = entries[Of(c)]
         /\ client'[c].answer.status = client[c].answer.status
         /\ client'[c].answer.code = client[c].answer.code
         /\ client'[c].exit = client[c].exit
         /\ \A d \in Clients \ {c} : client'[d] = client[d]
<1> DEFINE x == client[c]
           a == [x.answer EXCEPT !.listed = entries[Of(c)]]
           y == [[x EXCEPT !.at = "listing"] EXCEPT !.answer = a]
<1>1. /\ a \in Answers
      /\ a.listed = entries[Of(c)]
      /\ a.status = x.answer.status
      /\ a.code = x.answer.code
  <2>1. x.answer \in Answers
    BY DEF ClientStates
  <2> DEFINE js == entries[Of(c)]
             b == x.answer
  <2>2. js \in SUBSET Jobs /\ a = [b EXCEPT !.listed = js]
    OBVIOUS
  <2> HIDE DEF a, js, b
  <2>3. b \in Answers
    BY <2>1 DEF b
  <2>4. a \in Answers /\ a.listed = js /\ a.status = b.status /\ a.code = b.code
    BY <2>2, <2>3 DEF Answers
  <2>5. QED
    BY <2>4 DEF js, b
<1>2. client' = [client EXCEPT ![c] = y]
  BY DEF ListJobs
<1> HIDE DEF a
<1>3. /\ y \in ClientStates
      /\ y.at = "listing"
      /\ y.answer.listed = entries[Of(c)]
      /\ y.answer.status = x.answer.status
      /\ y.answer.code = x.answer.code
      /\ y.exit = x.exit
  BY <1>1 DEF ClientStates
<1> HIDE DEF y
<1>4. QED
  BY <1>2, <1>3

\* An answer with another HTTP code.
LEMMA CodeEffect ==
  ASSUME NEW b \in Answers, NEW k \in {200, 404, 500},
         NEW a, a = [b EXCEPT !.code = k]
  PROVE  a \in Answers /\ a.code = k /\ a.status = b.status /\ a.listed = b.listed
BY DEF Answers

\* A status answer of which the client makes its exit code.
LEMMA ReceiveEffect ==
  ASSUME client \in [Clients -> ClientStates], NEW c \in Clients,
         NEW k \in {200, 404, 500}, NEW e \in {0, 1},
         Receive(c, k, e)
  PROVE  /\ client' \in [Clients -> ClientStates]
         /\ client'[c].at = "exit"
         /\ client'[c].answer.code = k
         /\ client'[c].answer.status = client[c].answer.status
         /\ client'[c].answer.listed = client[c].answer.listed
         /\ client'[c].exit = e
         /\ \A d \in Clients \ {c} : client'[d] = client[d]
<1> DEFINE x == client[c]
           a == [x.answer EXCEPT !.code = k]
           y == [at |-> "exit", answer |-> a, exit |-> e]
<1>1. /\ a \in Answers
      /\ a.code = k
      /\ a.status = x.answer.status
      /\ a.listed = x.answer.listed
  <2>1. x.answer \in Answers
    BY DEF ClientStates
  <2>2. a = [x.answer EXCEPT !.code = k]
    OBVIOUS
  <2> HIDE DEF a
  <2>3. QED
    BY <2>1, <2>2, CodeEffect
<1>2. client' = [client EXCEPT ![c] = y]
  BY DEF Receive
<1> HIDE DEF a
<1>3. /\ y \in ClientStates
      /\ y.at = "exit"
      /\ y.answer.code = k
      /\ y.answer.status = x.answer.status
      /\ y.answer.listed = x.answer.listed
      /\ y.exit = e
  BY <1>1 DEF ClientStates
<1> HIDE DEF y
<1>4. QED
  BY <1>2, <1>3

\* A read takes the follower to the end of the log.
LEMMA ReadsEffect ==
  ASSUME stream \in [Clients -> StreamStates], NEW c \in Clients,
         NEW l \in {"send", "send_last"}, Reads(c, l),
         lines[Of(c)] \in Nat, stream[c].offset <= lines[Of(c)]
  PROVE  /\ stream' \in [Clients -> StreamStates]
         /\ stream'[c].at = l
         /\ stream'[c].offset = lines[Of(c)]
         /\ \A d \in Clients \ {c} : stream'[d] = stream[d]
<1> DEFINE x == stream[c]
           n == lines[Of(c)] - x.offset
           y == [[[x EXCEPT !.at = l] EXCEPT !.offset = lines[Of(c)]] EXCEPT !.pending = n]
<1>1. n \in Nat
  BY DEF StreamStates
<1>2. stream' = [stream EXCEPT ![c] = y]
  BY DEF Reads
<1> HIDE DEF n
<1>3. /\ y \in StreamStates
      /\ y.at = l
      /\ y.offset = lines[Of(c)]
  BY <1>1 DEF StreamStates
<1> HIDE DEF y
<1>4. QED
  BY <1>2, <1>3

\* An event that is sent leaves one fewer to send.
LEMMA SendEffect ==
  ASSUME stream \in [Clients -> StreamStates], NEW c \in Clients,
         stream[c].pending > 0,
         stream' = [stream EXCEPT ![c].pending = @ - 1]
  PROVE  /\ stream' \in [Clients -> StreamStates]
         /\ stream'[c].at = stream[c].at
         /\ stream'[c].offset = stream[c].offset
         /\ \A d \in Clients \ {c} : stream'[d] = stream[d]
<1> DEFINE x == stream[c]
           y == [x EXCEPT !.pending = x.pending - 1]
<1>1. stream' = [stream EXCEPT ![c] = y]
  OBVIOUS
<1>2. /\ y \in StreamStates
      /\ y.at = x.at
      /\ y.offset = x.offset
  BY DEF StreamStates
<1> HIDE DEF y
<1>3. QED
  BY <1>1, <1>2

\* A follower goes on to another place of its loop.
LEMMA CheckEffect ==
  ASSUME stream \in [Clients -> StreamStates], NEW c \in Clients,
         NEW l \in {"read", "drain"},
         stream' = [stream EXCEPT ![c].at = l]
  PROVE  /\ stream' \in [Clients -> StreamStates]
         /\ stream'[c].at = l
         /\ stream'[c].offset = stream[c].offset
         /\ stream'[c].pending = stream[c].pending
         /\ \A d \in Clients \ {c} : stream'[d] = stream[d]
<1> DEFINE x == stream[c]
           y == [x EXCEPT !.at = l]
<1>1. stream' = [stream EXCEPT ![c] = y]
  OBVIOUS
<1>2. /\ y \in StreamStates
      /\ y.at = l
      /\ y.offset = x.offset
      /\ y.pending = x.pending
  BY DEF StreamStates
<1> HIDE DEF y
<1>3. QED
  BY <1>1, <1>2

\* A restart ends the requests that are under way.
LEMMA RestartEffect ==
  ASSUME client \in [Clients -> ClientStates], Restart
  PROVE  /\ client' \in [Clients -> ClientStates]
         /\ \A c \in Clients :
              /\ client'[c].answer = client[c].answer
              /\ \/ client'[c].at = client[c].at /\ client'[c].exit = client[c].exit
                 \/ client'[c].at = "exit" /\ client'[c].exit = 1
<1>1. client' = [c \in Clients |->
        IF client[c].at \in {"posted", "streaming", "asked", "listing"}
          THEN Left(client[c], 1) ELSE client[c]]
  BY DEF Restart
<1>2. QED
  BY <1>1, LeftEffect

\* Every step keeps the types.
LEMMA StepType ==
  ASSUME TypeOK, DrainsLast, [Next]_vars
  PROVE  TypeOK'
<1> USE ClientParts, ClaimParts DEF TypeOK, Statuses, Live, Verdicts
<1>1. CASE Grant
  BY <1>1 DEF Grant
<1>2. ASSUME NEW r \in Runs, Begin(r) PROVE TypeOK'
  BY <1>2 DEF Begin, Works, SetStatus
<1>3. ASSUME NEW r \in Runs, Log(r) PROVE TypeOK'
  <2>1. lines' \in [Runs -> Nat] /\ \A q \in Runs : lines[q] <= lines'[q]
    BY <1>3 DEF Log
  <2>2. \A d \in Clients : stream[d].offset \in Nat
    BY DEF StreamStates
  <2>3. QED
    BY <1>3, <2>1, <2>2 DEF Log, Works
<1>4. ASSUME NEW r \in Runs, Record(r) PROVE TypeOK'
  BY <1>4 DEF Record, Works
<1>5. ASSUME NEW r \in Runs, Verdict(r) PROVE TypeOK'
  BY <1>5 DEF Verdict, Works, SetStatus
<1>6. ASSUME NEW r \in Runs, Raises(r) PROVE TypeOK'
  BY <1>6 DEF Raises, Works, SetStatus
<1>7. ASSUME NEW r \in Runs, Unregister(r) PROVE TypeOK'
  BY <1>7 DEF Unregister, Works, Release
<1>post. ASSUME NEW r \in Runs, PostRun(r) PROVE TypeOK'
  <2>1. /\ client' \in [Clients -> ClientStates]
        /\ client'[r].at = "posted"
        /\ client'[r].answer = client[r].answer
        /\ client'[r].exit = client[r].exit
        /\ \A d \in Clients \ {r} : client'[d] = client[d]
    BY <1>post, ClientParts, GotoEffect DEF PostRun, TypeOK
  <2>2. QED
    BY <1>post, <2>1 DEF PostRun, Claim
<1>8. ASSUME NEW r \in Runs, Submit(r) PROVE TypeOK'
  <2>1. /\ client' \in [Clients -> ClientStates]
        /\ client[r].at = "posted" =>
             /\ client'[r].at = "submitted"
             /\ client'[r].answer = client[r].answer /\ client'[r].exit = client[r].exit
        /\ client[r].at # "posted" => client' = client
        /\ \A d \in Clients \ {r} : client'[d] = client[d]
    BY <1>8, ClientParts, SubmitEffect DEF TypeOK
  <2>2. QED
    BY <1>8, <2>1 DEF Submit, SetStatus
<1>9. ASSUME NEW r \in Runs, SubmitRefused(r) PROVE TypeOK'
  <2>1. /\ client' \in [Clients -> ClientStates]
        /\ client[r].at = "posted" =>
             /\ client'[r].at = "exit"
             /\ client'[r].answer = client[r].answer /\ client'[r].exit = 1
        /\ client[r].at # "posted" => client' = client
        /\ \A d \in Clients \ {r} : client'[d] = client[d]
    BY <1>9, ClientParts, RefusedEffect DEF TypeOK
  <2>2. QED
    BY <1>9, <2>1 DEF SubmitRefused, Release
<1>10. ASSUME NEW r \in Runs, SubmitUnanswered(r) PROVE TypeOK'
  <2>1. /\ client' \in [Clients -> ClientStates]
        /\ client'[r].at = "exit"
        /\ client'[r].answer = client[r].answer
        /\ client'[r].exit = 1
        /\ \A d \in Clients \ {r} : client'[d] = client[d]
    BY <1>10, ClientParts, ExitEffect DEF SubmitUnanswered, TypeOK
  <2>2. QED
    BY <1>10, <2>1 DEF SubmitUnanswered, Fault
<1>11. ASSUME NEW c \in Clients, OpenStream(c) PROVE TypeOK'
  <2>1. /\ client' \in [Clients -> ClientStates]
        /\ client'[c].at = "streaming"
        /\ client'[c].answer = client[c].answer
        /\ client'[c].exit = client[c].exit
        /\ \A d \in Clients \ {c} : client'[d] = client[d]
    BY <1>11, ClientParts, GotoEffect DEF OpenStream, TypeOK
  <2>2. QED
    BY <1>11, <2>1 DEF OpenStream, MayFollow, Claim
<1>12. ASSUME NEW c \in Clients, RunNotFound(c) PROVE TypeOK'
  <2>1. /\ client' \in [Clients -> ClientStates]
        /\ client'[c].at = "exit"
        /\ client'[c].answer = client[c].answer
        /\ client'[c].exit = 1
        /\ \A d \in Clients \ {c} : client'[d] = client[d]
    BY <1>12, ClientParts, ExitEffect DEF RunNotFound, TypeOK
  <2>2. QED
    BY <1>12, <2>1 DEF RunNotFound, MayFollow
<1>13. ASSUME NEW c \in Clients, AskStatus(c) PROVE TypeOK'
  <2>1. /\ client' \in [Clients -> ClientStates]
        /\ client'[c].at = "asked"
        /\ client'[c].answer.status = status[Of(c)]
        /\ client'[c].answer.code = client[c].answer.code
        /\ client'[c].exit = client[c].exit
        /\ \A d \in Clients \ {c} : client'[d] = client[d]
    BY <1>13, ClientParts, AskEffect DEF TypeOK
  <2>2. QED
    BY <1>13, <2>1 DEF AskStatus, MayAsk
<1>14. ASSUME NEW c \in Clients, StatusNotFound(c) PROVE TypeOK'
  <2>1. /\ client' \in [Clients -> ClientStates]
        /\ client'[c].at = "exit"
        /\ client'[c].answer.code = 404
        /\ client'[c].answer.status = client[c].answer.status
        /\ client'[c].answer.listed = client[c].answer.listed
        /\ client'[c].exit = 1
        /\ \A d \in Clients \ {c} : client'[d] = client[d]
    BY <1>14, ClientParts, ReceiveEffect DEF StatusNotFound, TypeOK
  <2>2. QED
    BY <1>14, <2>1 DEF StatusNotFound, MayAsk
<1>15. ASSUME NEW c \in Clients, ListJobs(c) PROVE TypeOK'
  <2>1. /\ client' \in [Clients -> ClientStates]
        /\ client'[c].at = "listing"
        /\ client'[c].answer.listed = entries[Of(c)]
        /\ client'[c].answer.status = client[c].answer.status
        /\ client'[c].answer.code = client[c].answer.code
        /\ client'[c].exit = client[c].exit
        /\ \A d \in Clients \ {c} : client'[d] = client[d]
    BY <1>15, ClientParts, ListEffect DEF TypeOK
  <2>2. QED
    BY <1>15, <2>1 DEF ListJobs
<1>16. ASSUME NEW c \in Clients, AnswerStatus(c) PROVE TypeOK'
  <2>0. PICK k \in {200, 404, 500}, e \in {0, 1} : Receive(c, k, e)
    BY <1>16 DEF AnswerStatus
  <2>1. client' \in [Clients -> ClientStates]
    BY <2>0, ReceiveEffect
  <2>2. QED
    BY <1>16, <2>1 DEF AnswerStatus
<1>17. ASSUME NEW c \in Clients, Read(c) PROVE TypeOK'
  <2>1. /\ stream' \in [Clients -> StreamStates]
        /\ stream'[c].offset = lines[Of(c)]
        /\ \A d \in Clients \ {c} : stream'[d] = stream[d]
    BY <1>17, ReadsEffect DEF Read, TypeOK
  <2>2. ASSUME NEW d \in Clients PROVE stream'[d].offset <= lines[Of(d)]
    <3>1. CASE d = c
      <4>1. lines[Of(c)] \in Nat
        BY DEF TypeOK
      <4>2. QED
        BY <2>1, <3>1, <4>1
    <3>2. CASE d # c
      BY <2>1, <3>2 DEF TypeOK
    <3>3. QED
      BY <3>1, <3>2
  <2>3. QED
    BY <1>17, <2>1, <2>2 DEF Read, Running
<1>18. ASSUME NEW c \in Clients, SendEvent(c) PROVE TypeOK'
  <2>1. /\ stream' \in [Clients -> StreamStates]
        /\ stream'[c].offset = stream[c].offset
        /\ \A d \in Clients \ {c} : stream'[d] = stream[d]
    BY <1>18, SendEffect DEF SendEvent, TypeOK
  <2>2. QED
    BY <1>18, <2>1 DEF SendEvent, Running
<1>19. ASSUME NEW c \in Clients, CheckStatus(c) PROVE TypeOK'
  <2>1. /\ stream' \in [Clients -> StreamStates]
        /\ stream'[c].offset = stream[c].offset
        /\ \A d \in Clients \ {c} : stream'[d] = stream[d]
    BY <1>19, CheckEffect DEF CheckStatus, TypeOK
  <2>2. QED
    BY <1>19, <2>1 DEF CheckStatus, Running
<1>20. ASSUME NEW c \in Clients, Drain(c) PROVE TypeOK'
  <2>1. /\ stream' \in [Clients -> StreamStates]
        /\ stream'[c].offset = lines[Of(c)]
        /\ \A d \in Clients \ {c} : stream'[d] = stream[d]
    BY <1>20, ReadsEffect DEF Drain, TypeOK
  <2>2. ASSUME NEW d \in Clients PROVE stream'[d].offset <= lines[Of(d)]
    <3>1. CASE d = c
      <4>1. lines[Of(c)] \in Nat
        BY DEF TypeOK
      <4>2. QED
        BY <2>1, <3>1, <4>1
    <3>2. CASE d # c
      BY <2>1, <3>2 DEF TypeOK
    <3>3. QED
      BY <3>1, <3>2
  <2>3. QED
    BY <1>20, <2>1, <2>2 DEF Drain, Running
<1>21. ASSUME NEW c \in Clients, StreamEnds(c) PROVE TypeOK'
  <2>1. CASE client' = client
    BY <1>21, <2>1 DEF StreamEnds, Running, Release
  <2>2. CASE Goto(c, "ended")
    <3>1. client' \in [Clients -> ClientStates]
      BY <2>2, GotoEffect
    <3>2. QED
      BY <1>21, <3>1 DEF StreamEnds, Running, Release
  <2>3. CASE Exit(c, 0)
    <3>1. client' \in [Clients -> ClientStates]
      BY <2>3, ExitEffect
    <3>2. QED
      BY <1>21, <3>1 DEF StreamEnds, Running, Release
  <2>4. QED
    BY <1>21, <2>1, <2>2, <2>3 DEF StreamEnds
<1>22. ASSUME NEW c \in Clients, Disconnect(c) PROVE TypeOK'
  <2>1. /\ client' \in [Clients -> ClientStates]
        /\ client'[c].at = "exit"
        /\ client'[c].answer = client[c].answer
        /\ client'[c].exit = 1
        /\ \A d \in Clients \ {c} : client'[d] = client[d]
    BY <1>22, ClientParts, ExitEffect DEF Disconnect, TypeOK
  <2>2. QED
    BY <1>22, <2>1, RemoveFirstKeeps DEF Disconnect, Fault
<1>23. CASE Restart
  <2>1. client' \in [Clients -> ClientStates]
    BY <1>23, RestartEffect
  <2>2. /\ known' = {} /\ checker' = {} /\ queue' = <<>> /\ holders' = {}
        /\ UNCHANGED <<status, entries, lines, stream>> /\ faults' = faults + 1
    BY <1>23 DEF Restart, Fault
  <2>3. QED
    BY <2>1, <2>2
<1>24. CASE UNCHANGED <<vars>>
  BY <1>24 DEF vars
<1>25. QED
  BY <1>post, <1>1, <1>2, <1>3, <1>4, <1>5, <1>6, <1>7, <1>8, <1>9, <1>10, <1>11, <1>12, <1>13,
     <1>14, <1>15, <1>16, <1>17, <1>18, <1>19, <1>20, <1>21, <1>22, <1>23, <1>24
     DEF Next, execute_pipeline, submit_pipeline, logs, stream_sse, get_run_status, vars

\* The tables follow the run.
LEMMA StepTables ==
  ASSUME TypeOK, Tables, Claimed, Posted, [Next]_vars
  PROVE  Tables'
<1> USE ClientParts DEF TypeOK, Statuses, Live, Verdicts, Tables
<1>1. ASSUME NEW r \in Runs, Begin(r) PROVE Tables'
  BY <1>1 DEF Begin, Works, SetStatus
<1>2. ASSUME NEW r \in Runs, Record(r) PROVE Tables'
  BY <1>2 DEF Record, Works
<1>3. ASSUME NEW r \in Runs, Verdict(r) PROVE Tables'
  BY <1>3 DEF Verdict, Works, SetStatus
<1>4. ASSUME NEW r \in Runs, Raises(r) PROVE Tables'
  BY <1>4 DEF Raises, Works, SetStatus
<1>5. ASSUME NEW r \in Runs, Unregister(r) PROVE Tables'
  BY <1>5 DEF Unregister, Works, Release
<1>post. ASSUME NEW r \in Runs, PostRun(r) PROVE Tables'
  <2>1. /\ client' \in [Clients -> ClientStates]
        /\ client'[r].at = "posted"
        /\ client'[r].answer = client[r].answer
        /\ client'[r].exit = client[r].exit
        /\ \A d \in Clients \ {r} : client'[d] = client[d]
    BY <1>post, ClientParts, GotoEffect DEF PostRun, TypeOK
  <2>2. QED
    BY <1>post, <2>1 DEF PostRun, Claim
<1>6. ASSUME NEW r \in Runs, Submit(r) PROVE Tables'
  <2>1. /\ client' \in [Clients -> ClientStates]
        /\ client[r].at = "posted" =>
             /\ client'[r].at = "submitted"
             /\ client'[r].answer = client[r].answer /\ client'[r].exit = client[r].exit
        /\ client[r].at # "posted" => client' = client
        /\ \A d \in Clients \ {r} : client'[d] = client[d]
    BY <1>6, ClientParts, SubmitEffect DEF TypeOK
  <2>2. QED
    BY <1>6, <2>1 DEF Submit, SetStatus, Posted, Active
<1>7. ASSUME NEW r \in Runs, SubmitRefused(r) PROVE Tables'
  <2>1. /\ client' \in [Clients -> ClientStates]
        /\ client[r].at = "posted" =>
             /\ client'[r].at = "exit"
             /\ client'[r].answer = client[r].answer /\ client'[r].exit = 1
        /\ client[r].at # "posted" => client' = client
        /\ \A d \in Clients \ {r} : client'[d] = client[d]
    BY <1>7, ClientParts, RefusedEffect DEF TypeOK
  <2>2. QED
    BY <1>7, <2>1 DEF SubmitRefused, Release
<1>8. ASSUME NEW r \in Runs, SubmitUnanswered(r) PROVE Tables'
  <2>1. /\ client' \in [Clients -> ClientStates]
        /\ client'[r].at = "exit"
        /\ client'[r].answer = client[r].answer
        /\ client'[r].exit = 1
        /\ \A d \in Clients \ {r} : client'[d] = client[d]
    BY <1>8, ClientParts, ExitEffect DEF SubmitUnanswered, TypeOK
  <2>2. \A q \in Runs : client'[q].at = client[q].at \/ client'[q].at = "exit"
    BY <2>1, ClientParts
  <2>3. UNCHANGED <<status, entries, known, checker>> /\ faults' > 0
    BY <1>8 DEF SubmitUnanswered, Fault
  <2>4. \A q \in Runs : /\ client'[q].at \in {"idle", "posted"} => status[q] = "none"
                        /\ client'[q].at \notin {"idle", "posted", "exit"} => status[q] # "none"
    <3> HIDE DEF TypeOK, Statuses, Live, Verdicts
    <3>1. QED
      BY <2>2
  <2>5. QED
    BY <2>3, <2>4
<1>9. ASSUME NEW c \in Clients, OpenStream(c) PROVE Tables'
  <2>1. /\ client' \in [Clients -> ClientStates]
        /\ client'[c].at = "streaming"
        /\ client'[c].answer = client[c].answer
        /\ client'[c].exit = client[c].exit
        /\ \A d \in Clients \ {c} : client'[d] = client[d]
    BY <1>9, ClientParts, GotoEffect DEF OpenStream, TypeOK
  <2>2. QED
    BY <1>9, <2>1 DEF OpenStream, MayFollow, Claim
<1>10. ASSUME NEW c \in Clients, RunNotFound(c) PROVE Tables'
  <2>1. /\ client' \in [Clients -> ClientStates]
        /\ client'[c].at = "exit"
        /\ client'[c].answer = client[c].answer
        /\ client'[c].exit = 1
        /\ \A d \in Clients \ {c} : client'[d] = client[d]
    BY <1>10, ClientParts, ExitEffect DEF RunNotFound, TypeOK
  <2>2. QED
    BY <1>10, <2>1 DEF RunNotFound, MayFollow
<1>11. ASSUME NEW c \in Clients, AskStatus(c) PROVE Tables'
  <2>1. /\ client' \in [Clients -> ClientStates]
        /\ client'[c].at = "asked"
        /\ client'[c].answer.status = status[Of(c)]
        /\ client'[c].answer.code = client[c].answer.code
        /\ client'[c].exit = client[c].exit
        /\ \A d \in Clients \ {c} : client'[d] = client[d]
    BY <1>11, ClientParts, AskEffect DEF TypeOK
  <2>2. QED
    BY <1>11, <2>1 DEF AskStatus, MayAsk
<1>12. ASSUME NEW c \in Clients, StatusNotFound(c) PROVE Tables'
  <2>1. /\ client' \in [Clients -> ClientStates]
        /\ client'[c].at = "exit"
        /\ client'[c].answer.code = 404
        /\ client'[c].answer.status = client[c].answer.status
        /\ client'[c].answer.listed = client[c].answer.listed
        /\ client'[c].exit = 1
        /\ \A d \in Clients \ {c} : client'[d] = client[d]
    BY <1>12, ClientParts, ReceiveEffect DEF StatusNotFound, TypeOK
  <2>2. \A r \in Runs : client'[r].at = client[r].at \/ client'[r].at = "exit"
    BY <2>1, ClientParts
  <2>3. /\ UNCHANGED <<status, entries, known, checker>>
        /\ faults > 0 => faults' > 0
    BY <1>12 DEF StatusNotFound
  <2>4. \A r \in Runs : /\ client'[r].at \in {"idle", "posted"} => status[r] = "none"
                        /\ client'[r].at \notin {"idle", "posted", "exit"} => status[r] # "none"
    <3> HIDE DEF TypeOK, Statuses, Live, Verdicts
    <3>1. QED
      BY <2>2
  <2>5. QED
    BY <2>3, <2>4
<1>13. ASSUME NEW c \in Clients, ListJobs(c) PROVE Tables'
  <2>1. /\ client' \in [Clients -> ClientStates]
        /\ client'[c].at = "listing"
        /\ client'[c].answer.listed = entries[Of(c)]
        /\ client'[c].answer.status = client[c].answer.status
        /\ client'[c].answer.code = client[c].answer.code
        /\ client'[c].exit = client[c].exit
        /\ \A d \in Clients \ {c} : client'[d] = client[d]
    BY <1>13, ClientParts, ListEffect DEF TypeOK
  <2>2. QED
    BY <1>13, <2>1 DEF ListJobs
<1>14. ASSUME NEW c \in Clients, AnswerStatus(c) PROVE Tables'
  <2>0. PICK k \in {200, 404, 500}, e \in {0, 1} : Receive(c, k, e)
    BY <1>14 DEF AnswerStatus
  <2>1. /\ client'[c].at = "exit"
        /\ \A d \in Clients \ {c} : client'[d] = client[d]
    BY <2>0, ReceiveEffect
  <2>2. \A r \in Runs : client'[r].at = client[r].at \/ client'[r].at = "exit"
    BY <2>1, ClientParts
  <2>3. /\ UNCHANGED <<status, entries, known, checker>>
        /\ faults > 0 => faults' > 0
    BY <1>14 DEF AnswerStatus
  <2>4. \A r \in Runs : /\ client'[r].at \in {"idle", "posted"} => status[r] = "none"
                        /\ client'[r].at \notin {"idle", "posted", "exit"} => status[r] # "none"
    <3> HIDE DEF TypeOK, Statuses, Live, Verdicts
    <3>1. QED
      BY <2>2
  <2>5. QED
    BY <2>3, <2>4
<1>15. ASSUME NEW c \in Clients, StreamEnds(c) PROVE Tables'
  <2>1. CASE client' = client
    BY <1>15, <2>1 DEF StreamEnds, Running, Release
  <2>2. CASE Goto(c, "ended") /\ client[c].at = "streaming"
    <3>1. /\ client'[c].at = "ended"
          /\ \A d \in Clients \ {c} : client'[d] = client[d]
      BY <2>2, GotoEffect
    <3>2. QED
      BY <1>15, <2>2, <3>1 DEF StreamEnds, Running, Release
  <2>3. CASE Exit(c, 0)
    <3>1. /\ client'[c].at = "exit"
          /\ \A d \in Clients \ {c} : client'[d] = client[d]
      BY <2>3, ExitEffect
    <3>2. QED
      BY <1>15, <3>1 DEF StreamEnds, Running, Release
  <2>4. QED
    BY <1>15, <2>1, <2>2, <2>3 DEF StreamEnds
<1>16. ASSUME NEW c \in Clients, Disconnect(c) PROVE Tables'
  <2>1. /\ client' \in [Clients -> ClientStates]
        /\ client'[c].at = "exit"
        /\ client'[c].answer = client[c].answer
        /\ client'[c].exit = 1
        /\ \A d \in Clients \ {c} : client'[d] = client[d]
    BY <1>16, ClientParts, ExitEffect DEF Disconnect, TypeOK
  <2>2. \A r \in Runs : client'[r].at = client[r].at \/ client'[r].at = "exit"
    BY <2>1, ClientParts
  <2>3. /\ UNCHANGED <<status, entries, known, checker>>
        /\ faults > 0 => faults' > 0
    BY <1>16 DEF Disconnect, Fault
  <2>4. \A r \in Runs : /\ client'[r].at \in {"idle", "posted"} => status[r] = "none"
                        /\ client'[r].at \notin {"idle", "posted", "exit"} => status[r] # "none"
    <3> HIDE DEF TypeOK, Statuses, Live, Verdicts
    <3>1. QED
      BY <2>2
  <2>5. QED
    BY <2>3, <2>4
<1>17. CASE Restart
  <2>1. \A r \in Runs : client'[r].at = client[r].at \/ client'[r].at = "exit"
    BY <1>17, RestartEffect
  <2>2. /\ known' = {} /\ checker' = {} /\ UNCHANGED <<status, entries>>
        /\ faults' = faults + 1
    BY <1>17 DEF Restart, Fault
  <2>3. \A r \in Runs : /\ client'[r].at \in {"idle", "posted"} => status[r] = "none"
                        /\ client'[r].at \notin {"idle", "posted", "exit"} => status[r] # "none"
    <3> HIDE DEF TypeOK, Statuses, Live, Verdicts
    <3>1. QED
      BY <2>1
  <2>4. QED
    BY <2>2, <2>3
<1>18. CASE UNCHANGED <<status, entries, known, checker, client, faults>>
  BY <1>18
<1>19. QED
  BY <1>post, <1>1, <1>2, <1>3, <1>4, <1>5, <1>6, <1>7, <1>8, <1>9, <1>10, <1>11, <1>12, <1>13,
     <1>14, <1>15, <1>16, <1>17, <1>18
     DEF Next, execute_pipeline, submit_pipeline, logs, stream_sse, get_run_status, Grant, Log, Read,
         SendEvent, CheckStatus, Drain, Reads, vars

\* Who asks for a thread belongs to a run the engine knows.
LEMMA StepClaimed ==
  ASSUME TypeOK, Tables, Claimed, Posted, [Next]_vars
  PROVE  Claimed'
<1> USE ClientParts, ClaimParts DEF TypeOK, Tables, Claimed, Active
<1>1. CASE Grant
  BY <1>1 DEF Grant
<1>2. ASSUME NEW r \in Runs, Unregister(r) PROVE Claimed'
  BY <1>2 DEF Unregister, Works, Release
<1>post. ASSUME NEW r \in Runs, PostRun(r) PROVE Claimed'
  BY <1>post DEF PostRun, Claim, Goto
<1>3. ASSUME NEW r \in Runs, Submit(r) PROVE Claimed'
  BY <1>3 DEF Submit, SetStatus, Posted
<1>4. ASSUME NEW r \in Runs, SubmitRefused(r) PROVE Claimed'
  BY <1>4 DEF SubmitRefused, Release
<1>5. ASSUME NEW c \in Clients, OpenStream(c) PROVE Claimed'
  BY <1>5 DEF OpenStream, MayFollow, Goto, Claim
<1>6. ASSUME NEW c \in Clients, SendEvent(c) PROVE Claimed'
  BY <1>6 DEF SendEvent, Running
<1>7. ASSUME NEW c \in Clients, StreamEnds(c) PROVE Claimed'
  BY <1>7 DEF StreamEnds, Running, Release, Goto, Exit
<1>8. ASSUME NEW c \in Clients, Disconnect(c) PROVE Claimed'
  <2>1. /\ queue' = RemoveFirst(queue, StreamClaim(c))
        /\ UNCHANGED <<known, holders>>
    BY <1>8 DEF Disconnect
  <2>2. queue \in Seq(Claims)
    OBVIOUS
  <2>3. /\ \A k \in DOMAIN queue' : \E m \in DOMAIN queue : queue[m] = queue'[k]
        /\ \A k, l \in DOMAIN queue' : k <= l =>
             \E m, n \in DOMAIN queue :
               queue[m] = queue'[k] /\ queue[n] = queue'[l] /\ m <= n
    BY <2>1, <2>2, RemoveFirstKeeps
  <2>4. QED
    BY <2>1, <2>3
<1>9. CASE Restart
  <2>1. known' = {} /\ queue' = <<>> /\ holders' = {}
    BY <1>9 DEF Restart
  <2>2. QED
    BY <2>1
<1>10. CASE UNCHANGED <<known, queue, holders>>
  BY <1>10
<1>11. QED
  BY <1>post, <1>1, <1>2, <1>3, <1>4, <1>5, <1>6, <1>7, <1>8, <1>9, <1>10
     DEF Next, execute_pipeline, submit_pipeline, logs, stream_sse, get_run_status, Begin, Log, Record,
         Verdict, Raises, SubmitUnanswered, RunNotFound, AskStatus, StatusNotFound, ListJobs,
         AnswerStatus, Read, CheckStatus, Drain, SetStatus, Exit, Reads, vars

\* A submission goes through the queue once, and its command waits for it.
LEMMA StepPosted ==
  ASSUME TypeOK, Tables, Posted, [Next]_vars
  PROVE  Posted'
<1> USE ClientParts, ClaimParts DEF TypeOK, Posted, Active
<1>1. CASE Grant
  BY <1>1 DEF Grant
<1>2. ASSUME NEW r \in Runs, PostRun(r) PROVE Posted'
  <2>1. /\ client[r].at = "idle" /\ status[r] = "none" /\ ~ Active(AuthClaim(r))
        /\ queue' = Append(queue, AuthClaim(r)) /\ UNCHANGED <<status, holders, faults>>
    BY <1>2 DEF PostRun, Claim, Tables
  <2>2. client'[r].at = "posted" /\ \A d \in Clients \ {r} : client'[d] = client[d]
    BY <1>2, GotoEffect DEF PostRun
  <2>3. QED
    BY <2>1, <2>2
<1>3. ASSUME NEW r \in Runs, Submit(r) PROVE Posted'
  <2>1. \A d \in Clients \ {r} : client'[d] = client[d]
    BY <1>3, SubmitEffect
  <2>2. QED
    BY <1>3, <2>1 DEF Submit, SetStatus
<1>4. ASSUME NEW r \in Runs, SubmitRefused(r) PROVE Posted'
  <2>1. \A d \in Clients \ {r} : client'[d] = client[d]
    BY <1>4, RefusedEffect
  <2>2. QED
    BY <1>4, <2>1 DEF SubmitRefused, Release
<1>5. ASSUME NEW r \in Runs, SubmitUnanswered(r) PROVE Posted'
  <2>1. client'[r].at = "exit" /\ \A d \in Clients \ {r} : client'[d] = client[d]
    BY <1>5, ExitEffect DEF SubmitUnanswered
  <2>2. faults' > 0 /\ UNCHANGED <<status, queue, holders>>
    BY <1>5 DEF SubmitUnanswered, Fault
  <2>3. QED
    BY <2>1, <2>2
\* The engine's thread works on runs that are there.
<1>6. ASSUME NEW r \in Runs, execute_pipeline(r) PROVE Posted'
  <2>1. /\ \A q \in Runs : status[q] = "none" => status'[q] = "none"
        /\ holders' \subseteq holders /\ UNCHANGED <<queue, client, faults>>
    BY <1>6 DEF execute_pipeline, Begin, Log, Record, Verdict, Raises, Unregister, SetStatus,
                Release, Live, Verdicts
  <2>2. QED
    BY <2>1
\* A client that goes on to another request is past its submission.
<1>7. ASSUME NEW c \in Clients, client[c].at # "posted", UNCHANGED <<status, faults>>,
             client'[c].at # "idle" \/ client'[c] = client[c],
             \A d \in Clients \ {c} : client'[d] = client[d],
             holders' \subseteq holders,
             queue' = queue \/ queue' = Append(queue, StreamClaim(c))
      PROVE  Posted'
  <2>1. \A r \in Runs : /\ client[r].at # "idle" => client'[r].at # "idle"
                        /\ client[r].at = "posted" => client'[r].at = "posted"
    BY <1>7
  <2>2. CASE queue' = queue
    BY <1>7, <2>1, <2>2
  <2>3. CASE queue' = Append(queue, StreamClaim(c))
    <3>1. \A r \in Runs : \A i \in DOMAIN queue' :
            queue'[i] = AuthClaim(r) => i \in DOMAIN queue /\ queue[i] = AuthClaim(r)
      BY <2>3
    <3>2. QED
      BY <1>7, <2>1, <3>1
  <2>4. QED
    BY <1>7, <2>2, <2>3
<1>8. ASSUME NEW c \in Clients, logs(c) PROVE Posted'
  <2>1. CASE OpenStream(c)
    <3>1. client'[c].at = "streaming" /\ \A d \in Clients \ {c} : client'[d] = client[d]
      BY <2>1, GotoEffect DEF OpenStream
    <3>2. QED
      BY <1>7, <2>1, <3>1 DEF OpenStream, MayFollow, Claim
  <2>2. CASE RunNotFound(c)
    <3>1. client'[c].at = "exit" /\ \A d \in Clients \ {c} : client'[d] = client[d]
      BY <2>2, ExitEffect DEF RunNotFound
    <3>2. QED
      BY <1>7, <2>2, <3>1 DEF RunNotFound, MayFollow
  <2>3. QED
    BY <1>8, <2>1, <2>2 DEF logs
<1>9. ASSUME NEW c \in Clients, get_run_status(c) PROVE Posted'
  <2>1. /\ client[c].at # "posted" /\ UNCHANGED <<status, faults, queue, holders>>
    BY <1>9 DEF get_run_status, AskStatus, StatusNotFound, ListJobs, AnswerStatus, MayAsk
  <2>2. client'[c].at # "idle" /\ \A d \in Clients \ {c} : client'[d] = client[d]
    BY <1>9 DEF get_run_status, AskStatus, StatusNotFound, ListJobs, AnswerStatus, Receive,
                ClientStates
  <2>3. QED
    BY <1>7, <2>1, <2>2
<1>10. ASSUME NEW c \in Clients, stream_sse(c) PROVE Posted'
  <2>1. CASE SendEvent(c)
    BY <2>1 DEF SendEvent
  <2>2. CASE StreamEnds(c)
    <3>1. holders' \subseteq holders /\ UNCHANGED <<status, faults, queue>>
      BY <2>2 DEF StreamEnds, Release
    <3>2. \/ client' = client
          \/ /\ client[c].at = "streaming" /\ client'[c].at # "idle"
             /\ \A d \in Clients \ {c} : client'[d] = client[d]
      BY <2>2, GotoEffect, ExitEffect DEF StreamEnds
    <3>3. QED
      BY <1>7, <3>1, <3>2
  <2>3. CASE UNCHANGED <<status, client, faults, queue, holders>>
    BY <2>3
  <2>4. QED
    BY <1>10, <2>1, <2>2, <2>3 DEF stream_sse, Read, CheckStatus, Drain
<1>11. ASSUME NEW c \in Clients, Disconnect(c) PROVE Posted'
  <2>1. /\ queue' = RemoveFirst(queue, StreamClaim(c)) /\ client[c].at = "streaming"
        /\ UNCHANGED <<status, holders>> /\ faults' > 0
    BY <1>11 DEF Disconnect, Fault
  <2>2. client'[c].at = "exit" /\ \A d \in Clients \ {c} : client'[d] = client[d]
    BY <1>11, ExitEffect DEF Disconnect
  <2>3. queue \in Seq(Claims)
    OBVIOUS
  <2>4. /\ queue' \in Seq(Claims)
        /\ \A k \in DOMAIN queue' : \E m \in DOMAIN queue : queue[m] = queue'[k]
        /\ \A k, l \in DOMAIN queue' : k <= l =>
             \E m, n \in DOMAIN queue :
               /\ queue[m] = queue'[k] /\ queue[n] = queue'[l]
               /\ m <= n /\ (k < l => m < n)
    BY <2>1, <2>3, RemoveFirstKeeps
  <2>5. ASSUME NEW r \in Runs, NEW i \in DOMAIN queue', NEW k \in DOMAIN queue',
               queue'[i] = AuthClaim(r), queue'[k] = AuthClaim(r), i < k
        PROVE  FALSE
    <3>1. PICK m, n \in DOMAIN queue :
            queue[m] = queue'[i] /\ queue[n] = queue'[k] /\ m < n
      <4>1. i <= k
        BY <2>4, <2>5
      <4>2. QED
        BY <2>4, <2>5, <4>1
    <3>2. QED
      BY <2>5, <3>1
  <2>6. \A i, k \in DOMAIN queue' : i = k \/ i < k \/ k < i
    BY <2>4
  <2>7. QED
    <3>1. \A r \in Runs : client[r].at = "posted" => client'[r].at = "posted"
      BY <2>1, <2>2
    <3>2. \A r \in Runs : \A i \in DOMAIN queue' :
            queue'[i] = AuthClaim(r) => \E m \in DOMAIN queue : queue[m] = AuthClaim(r)
      BY <2>4
    <3>3. \A r \in Runs : client[r].at # "idle" => client'[r].at # "idle"
      BY <2>2
    <3>4. \A r \in Runs : Active(AuthClaim(r))' => Active(AuthClaim(r))
      BY <2>1, <3>2
    <3>5. \A r \in Runs : \A i, k \in DOMAIN queue' :
            queue'[i] = AuthClaim(r) /\ queue'[k] = AuthClaim(r) => i = k
      BY <2>5, <2>6
    <3>6. \A r \in Runs : AuthClaim(r) \in holders => \A i \in DOMAIN queue' : queue'[i] # AuthClaim(r)
      BY <3>2
    <3>7. QED
      BY <2>1, <3>3, <3>4, <3>5, <3>6
<1>12. CASE Restart
  <2>1. queue' = <<>> /\ holders' = {}
    BY <1>12 DEF Restart
  <2>2. QED
    BY <2>1
<1>13. CASE UNCHANGED vars
  BY <1>13 DEF vars
<1>14. QED
  BY <1>1, <1>2, <1>3, <1>4, <1>5, <1>6, <1>8, <1>9, <1>10, <1>11, <1>12, <1>13
     DEF Next, submit_pipeline

\* Claims are added at the end and taken from the front.
LEMMA StepInFront ==
  ASSUME TypeOK, Tables, Claimed, Posted, RunsInFront, RunGoesFirst, [Next]_vars
  PROVE  RunsInFront'
<1> USE ClientParts, ClaimParts DEF TypeOK, Tables, Claimed, Active, RunsInFront,
                                    RunGoesFirst, ToSet
<1>1. CASE Grant
  BY <1>1 DEF Grant
<1>2. ASSUME NEW r \in Runs, Unregister(r) PROVE RunsInFront'
  BY <1>2 DEF Unregister, Works, Release
<1>post. ASSUME NEW r \in Runs, PostRun(r) PROVE RunsInFront'
  BY <1>post DEF PostRun, Claim, Goto
<1>3. ASSUME NEW r \in Runs, Submit(r) PROVE RunsInFront'
  BY <1>3 DEF Submit, SetStatus, Posted
<1>4. ASSUME NEW r \in Runs, SubmitRefused(r) PROVE RunsInFront'
  BY <1>4 DEF SubmitRefused, Release
<1>5. ASSUME NEW c \in Clients, OpenStream(c) PROVE RunsInFront'
  BY <1>5 DEF OpenStream, MayFollow, Goto, Claim
<1>6. ASSUME NEW c \in Clients, SendEvent(c) PROVE RunsInFront'
  BY <1>6 DEF SendEvent, Running
<1>7. ASSUME NEW c \in Clients, StreamEnds(c) PROVE RunsInFront'
  BY <1>7 DEF StreamEnds, Running, Release, Goto, Exit
<1>8. ASSUME NEW c \in Clients, Disconnect(c) PROVE RunsInFront'
  <2>1. /\ queue' = RemoveFirst(queue, StreamClaim(c))
        /\ UNCHANGED <<known, holders>>
    BY <1>8 DEF Disconnect
  <2>2. queue \in Seq(Claims)
    OBVIOUS
  <2>3. /\ queue' \in Seq(Claims)
        /\ \A k \in DOMAIN queue' : \E m \in DOMAIN queue : queue[m] = queue'[k]
        /\ \A k, l \in DOMAIN queue' : k <= l =>
             \E m, n \in DOMAIN queue :
               queue[m] = queue'[k] /\ queue[n] = queue'[l] /\ m <= n
    BY <2>1, <2>2, RemoveFirstKeeps
  <2>4. ASSUME NEW d \in Clients, NEW i \in DOMAIN queue', NEW k \in DOMAIN queue',
               queue'[i] = StreamClaim(d), queue'[k] = RunClaim(Of(d)), i <= k
        PROVE  FALSE
    <3>1. PICK m, n \in DOMAIN queue :
            queue[m] = queue'[i] /\ queue[n] = queue'[k] /\ m <= n
      BY <2>3, <2>4
    <3>2. n < m
      BY <2>4, <3>1
    <3>3. QED
      BY <3>1, <3>2
  <2>5. \A i, k \in DOMAIN queue' : i <= k \/ k < i
    BY <2>3
  <2>6. QED
    BY <2>4, <2>5
<1>9. CASE Restart
  <2>1. known' = {} /\ queue' = <<>> /\ holders' = {}
    BY <1>9 DEF Restart
  <2>2. QED
    BY <2>1
<1>10. CASE UNCHANGED <<known, queue, holders>>
  BY <1>10
<1>11. QED
  BY <1>post, <1>1, <1>2, <1>3, <1>4, <1>5, <1>6, <1>7, <1>8, <1>9, <1>10
     DEF Next, execute_pipeline, submit_pipeline, logs, stream_sse, get_run_status, Begin, Log, Record,
         Verdict, Raises, SubmitUnanswered, RunNotFound, AskStatus, StatusNotFound, ListJobs,
         AnswerStatus, Read, CheckStatus, Drain, SetStatus, Exit, Reads, vars

\* A follower at the front of the queue has its run behind it.
LEMMA StepGoesFirst ==
  ASSUME TypeOK, Tables, Claimed, Posted, RunsInFront, RunGoesFirst, [Next]_vars
  PROVE  RunGoesFirst'
<1> USE ClientParts, ClaimParts DEF TypeOK, Tables, Claimed, Active, RunsInFront,
                                    RunGoesFirst, ToSet
<1>1. CASE Grant
  BY <1>1 DEF Grant
<1>2. ASSUME NEW r \in Runs, Unregister(r) PROVE RunGoesFirst'
  BY <1>2 DEF Unregister, Works, Release
<1>post. ASSUME NEW r \in Runs, PostRun(r) PROVE RunGoesFirst'
  BY <1>post DEF PostRun, Claim, Goto
<1>3. ASSUME NEW r \in Runs, Submit(r) PROVE RunGoesFirst'
  BY <1>3 DEF Submit, SetStatus, Posted
<1>4. ASSUME NEW r \in Runs, SubmitRefused(r) PROVE RunGoesFirst'
  BY <1>4 DEF SubmitRefused, Release
<1>5. ASSUME NEW c \in Clients, OpenStream(c) PROVE RunGoesFirst'
  BY <1>5 DEF OpenStream, MayFollow, Goto, Claim
<1>6. ASSUME NEW c \in Clients, SendEvent(c) PROVE RunGoesFirst'
  BY <1>6 DEF SendEvent, Running
<1>7. ASSUME NEW c \in Clients, StreamEnds(c) PROVE RunGoesFirst'
  BY <1>7 DEF StreamEnds, Running, Release, Goto, Exit
<1>8. ASSUME NEW c \in Clients, Disconnect(c) PROVE RunGoesFirst'
  <2>1. /\ queue' = RemoveFirst(queue, StreamClaim(c))
        /\ UNCHANGED <<known, holders>>
    BY <1>8 DEF Disconnect
  <2>2. queue \in Seq(Claims)
    OBVIOUS
  <2>3. /\ \A k \in DOMAIN queue' : \E m \in DOMAIN queue : queue[m] = queue'[k]
        /\ \A k, l \in DOMAIN queue' : k <= l =>
             \E m, n \in DOMAIN queue :
               queue[m] = queue'[k] /\ queue[n] = queue'[l] /\ m <= n
    BY <2>1, <2>2, RemoveFirstKeeps
  <2>4. QED
    BY <2>1, <2>3
<1>9. CASE Restart
  <2>1. known' = {} /\ queue' = <<>> /\ holders' = {}
    BY <1>9 DEF Restart
  <2>2. QED
    BY <2>1
<1>10. CASE UNCHANGED <<known, queue, holders>>
  BY <1>10
<1>11. QED
  BY <1>post, <1>1, <1>2, <1>3, <1>4, <1>5, <1>6, <1>7, <1>8, <1>9, <1>10
     DEF Next, execute_pipeline, submit_pipeline, logs, stream_sse, get_run_status, Begin, Log, Record,
         Verdict, Raises, SubmitUnanswered, RunNotFound, AskStatus, StatusNotFound, ListJobs,
         AnswerStatus, Read, CheckStatus, Drain, SetStatus, Exit, Reads, vars

\* What no step takes back: the end of a run, its entries and its log, a run
\* that was never created, a log that was sent, a failure.
Kept ==
  /\ faults > 0 => faults' > 0
  /\ \A r \in Runs :
       /\ status[r] \in Verdicts =>
            status'[r] = status[r] /\ entries'[r] = entries[r] /\ lines'[r] = lines[r]
       /\ status[r] = "none" /\ ~ Active(AuthClaim(r)) => status'[r] = "none"
  /\ \A c \in Clients : Sent(c) => stream'[c] = stream[c]

\* Every step keeps that.
LEMMA StepKeeps ==
  ASSUME TypeOK, Tables, Posted, [Next]_vars
  PROVE  Kept
<1> USE ClientParts DEF TypeOK, Statuses, Live, Verdicts, Tables, Kept
<1>1. ASSUME NEW r \in Runs, Begin(r) PROVE Kept
  BY <1>1 DEF Begin, Works, SetStatus
<1>2. ASSUME NEW r \in Runs, Log(r) PROVE Kept
  BY <1>2 DEF Log, Works
<1>3. ASSUME NEW r \in Runs, Record(r) PROVE Kept
  BY <1>3 DEF Record, Works
<1>4. ASSUME NEW r \in Runs, Verdict(r) PROVE Kept
  BY <1>4 DEF Verdict, Works, SetStatus
<1>5. ASSUME NEW r \in Runs, Raises(r) PROVE Kept
  BY <1>5 DEF Raises, Works, SetStatus
<1>6. ASSUME NEW r \in Runs, Submit(r) PROVE Kept
  <2>1. Active(AuthClaim(r)) /\ UNCHANGED <<entries, lines, stream, faults>>
    BY <1>6 DEF Submit, Active
  <2>2. QED
    BY <1>6, <2>1 DEF Submit, SetStatus, Posted
<1>7. ASSUME NEW r \in Runs, SubmitUnanswered(r) PROVE Kept
  BY <1>7 DEF SubmitUnanswered, Fault
<1>8. ASSUME NEW c \in Clients, Read(c) PROVE Kept
  <2>1. /\ ~ Sent(c)
        /\ \A d \in Clients \ {c} : stream'[d] = stream[d]
    BY <1>8, ReadsEffect DEF Read, Running, Sent
  <2>2. QED
    BY <1>8, <2>1 DEF Read
<1>9. ASSUME NEW c \in Clients, SendEvent(c) PROVE Kept
  <2>1. /\ ~ Sent(c)
        /\ \A d \in Clients \ {c} : stream'[d] = stream[d]
    BY <1>9, SendEffect DEF SendEvent, Running, Sent
  <2>2. QED
    BY <1>9, <2>1 DEF SendEvent
<1>10. ASSUME NEW c \in Clients, CheckStatus(c) PROVE Kept
  <2>1. /\ ~ Sent(c)
        /\ \A d \in Clients \ {c} : stream'[d] = stream[d]
    BY <1>10, CheckEffect DEF CheckStatus, Running, Sent
  <2>2. QED
    BY <1>10, <2>1 DEF CheckStatus
<1>11. ASSUME NEW c \in Clients, Drain(c) PROVE Kept
  <2>1. /\ ~ Sent(c)
        /\ \A d \in Clients \ {c} : stream'[d] = stream[d]
    BY <1>11, ReadsEffect DEF Drain, Running, Sent
  <2>2. QED
    BY <1>11, <2>1 DEF Drain
<1>12. ASSUME NEW c \in Clients, Disconnect(c) PROVE Kept
  <2>1. UNCHANGED <<status, entries, lines, stream>> /\ faults' = faults + 1
    BY <1>12 DEF Disconnect, Fault
  <2>2. QED
    BY <2>1
<1>13. CASE Restart
  <2>1. UNCHANGED <<status, entries, lines, stream>> /\ faults' = faults + 1
    BY <1>13 DEF Restart, Fault
  <2>2. QED
    BY <2>1
<1>14. CASE UNCHANGED <<status, entries, lines, stream, faults>>
  BY <1>14
<1>15. QED
  BY <1>1, <1>2, <1>3, <1>4, <1>5, <1>6, <1>7, <1>8, <1>9, <1>10, <1>11, <1>12, <1>13, <1>14
     DEF Next, execute_pipeline, submit_pipeline, logs, stream_sse, get_run_status, Grant, Unregister,
         PostRun, SubmitRefused, OpenStream, RunNotFound, AskStatus, StatusNotFound, ListJobs,
         AnswerStatus, StreamEnds, Release, Exit, Goto, Claim, vars

\* A generator drains the log when its run is over.
LEMMA StepDrains ==
  ASSUME TypeOK, Tables, Claimed, Posted, DrainsLast, [Next]_vars
  PROVE  DrainsLast'
<1> USE ClientParts, StepKeeps DEF Kept, DrainsLast
<1>1. ASSUME NEW c \in Clients, Read(c) PROVE DrainsLast'
  <2>1. /\ stream'[c].at = "send"
        /\ \A d \in Clients \ {c} : stream'[d] = stream[d]
    BY <1>1, ClientParts, ReadsEffect DEF Read, TypeOK
  <2>2. QED
    BY <1>1, <2>1 DEF Read, Running
<1>2. ASSUME NEW c \in Clients, SendEvent(c) PROVE DrainsLast'
  <2>1. /\ stream'[c].at = stream[c].at
        /\ stream'[c].offset = stream[c].offset
        /\ \A d \in Clients \ {c} : stream'[d] = stream[d]
    BY <1>2, ClientParts, SendEffect DEF SendEvent, TypeOK
  <2>2. QED
    BY <1>2, <2>1 DEF SendEvent, Running
<1>3. ASSUME NEW c \in Clients, CheckStatus(c) PROVE DrainsLast'
  <2> DEFINE l == IF Of(c) \in checker /\ status[Of(c)] \in Live THEN "read" ELSE "drain"
  <2>1. stream' = [stream EXCEPT ![c].at = l] /\ l \in {"read", "drain"}
    BY <1>3 DEF CheckStatus
  <2>2. l = "drain" => status[Of(c)] \in Verdicts
    BY <1>3 DEF CheckStatus, Running, Claimed, Active, Tables, TypeOK, Statuses
  <2> HIDE DEF l
  <2>3. /\ stream'[c].at = l
        /\ \A d \in Clients \ {c} : stream'[d] = stream[d]
    BY <2>1, CheckEffect DEF TypeOK
  <2>4. QED
    BY <2>1, <2>2, <2>3
<1>4. ASSUME NEW c \in Clients, Drain(c) PROVE DrainsLast'
  <2>1. /\ stream[c].at = "drain"
        /\ stream'[c].offset = lines[Of(c)]
        /\ \A d \in Clients \ {c} : stream'[d] = stream[d]
    BY <1>4, ClientParts, ReadsEffect DEF Drain, Running, TypeOK
  <2>2. QED
    BY <1>4, <2>1
<1>5. CASE UNCHANGED <<stream>>
  BY <1>5
<1>6. QED
  BY <1>1, <1>2, <1>3, <1>4, <1>5
     DEF Next, execute_pipeline, submit_pipeline, logs, stream_sse, get_run_status, Grant, Begin, Log,
         Record, Verdict, Raises, Unregister, PostRun, Submit, SubmitRefused, SubmitUnanswered,
         OpenStream, RunNotFound, AskStatus, StatusNotFound, ListJobs, AnswerStatus,
         StreamEnds, Disconnect, Restart, SetStatus, Release, Claim, Reply, Goto, Exit,
         Fault, vars

\* The command learns the verdict, and exits with it.
LEMMA StepCommand ==
  ASSUME TypeOK, Tables, Claimed, Posted, DrainsLast, CommandSees, AnswersTrue, [Next]_vars
  PROVE  CommandSees'
<1> USE ClientParts, StepKeeps DEF Kept, Sent, CommandSees, Verdicts
<1>0. \A r \in Runs :
        client[r].exit = 1 => faults' > 0 \/ status'[r] \in {"none", "failed"}
  BY DEF Posted
<1> USE <1>0
<1>post. ASSUME NEW r \in Runs, PostRun(r) PROVE CommandSees'
  <2>1. /\ client' \in [Clients -> ClientStates]
        /\ client'[r].at = "posted"
        /\ client'[r].answer = client[r].answer
        /\ client'[r].exit = client[r].exit
        /\ \A d \in Clients \ {r} : client'[d] = client[d]
    BY <1>post, ClientParts, GotoEffect DEF PostRun, TypeOK
  <2>2. QED
    BY <1>post, <2>1 DEF PostRun, Claim
<1>1. ASSUME NEW r \in Runs, Submit(r) PROVE CommandSees'
  <2>1. /\ client' \in [Clients -> ClientStates]
        /\ client[r].at = "posted" =>
             /\ client'[r].at = "submitted"
             /\ client'[r].answer = client[r].answer /\ client'[r].exit = client[r].exit
        /\ client[r].at # "posted" => client' = client
        /\ \A d \in Clients \ {r} : client'[d] = client[d]
    BY <1>1, ClientParts, SubmitEffect DEF TypeOK
  <2>2. QED
    BY <1>1, <2>1 DEF Submit, Posted, Active, Tables
<1>2. ASSUME NEW r \in Runs, SubmitRefused(r) PROVE CommandSees'
  <2>1. /\ client' \in [Clients -> ClientStates]
        /\ client[r].at = "posted" =>
             /\ client'[r].at = "exit"
             /\ client'[r].answer = client[r].answer /\ client'[r].exit = 1
        /\ client[r].at # "posted" => client' = client
        /\ \A d \in Clients \ {r} : client'[d] = client[d]
    BY <1>2, ClientParts, RefusedEffect DEF TypeOK
  <2>2. QED
    BY <1>2, <2>1 DEF SubmitRefused, Posted, Active
<1>3. ASSUME NEW r \in Runs, SubmitUnanswered(r) PROVE CommandSees'
  <2>1. /\ client' \in [Clients -> ClientStates]
        /\ client'[r].at = "exit"
        /\ client'[r].answer = client[r].answer
        /\ client'[r].exit = 1
        /\ \A d \in Clients \ {r} : client'[d] = client[d]
    BY <1>3, ClientParts, ExitEffect DEF SubmitUnanswered, TypeOK
  <2>2. faults' > 0
    BY <1>3, ClientParts DEF SubmitUnanswered, Fault, TypeOK
  <2>3. QED
    BY <2>1, <2>2
<1>4. ASSUME NEW c \in Clients, OpenStream(c) PROVE CommandSees'
  <2>1. /\ client' \in [Clients -> ClientStates]
        /\ client'[c].at = "streaming"
        /\ client'[c].answer = client[c].answer
        /\ client'[c].exit = client[c].exit
        /\ \A d \in Clients \ {c} : client'[d] = client[d]
    BY <1>4, ClientParts, GotoEffect DEF OpenStream, TypeOK
  <2>2. QED
    BY <1>4, <2>1 DEF OpenStream, MayFollow, Claim
<1>5. ASSUME NEW c \in Clients, RunNotFound(c) PROVE CommandSees'
  <2>1. /\ client' \in [Clients -> ClientStates]
        /\ client'[c].at = "exit"
        /\ client'[c].answer = client[c].answer
        /\ client'[c].exit = 1
        /\ \A d \in Clients \ {c} : client'[d] = client[d]
    BY <1>5, ClientParts, ExitEffect DEF RunNotFound, TypeOK
  <2>2. c \in Runs => faults' > 0
    BY <1>5, ClientParts DEF RunNotFound, MayFollow, Tables
  <2>3. QED
    BY <2>1, <2>2
<1>6. ASSUME NEW c \in Clients, AskStatus(c) PROVE CommandSees'
  <2>1. /\ client' \in [Clients -> ClientStates]
        /\ client'[c].at = "asked"
        /\ client'[c].answer.status = status[Of(c)]
        /\ client'[c].answer.code = client[c].answer.code
        /\ client'[c].exit = client[c].exit
        /\ \A d \in Clients \ {c} : client'[d] = client[d]
    BY <1>6, ClientParts, AskEffect DEF TypeOK
  <2>2. QED
    BY <1>6, <2>1 DEF AskStatus, MayAsk
<1>7. ASSUME NEW c \in Clients, StatusNotFound(c) PROVE CommandSees'
  <2>1. /\ client' \in [Clients -> ClientStates]
        /\ client'[c].at = "exit"
        /\ client'[c].answer.code = 404
        /\ client'[c].answer.status = client[c].answer.status
        /\ client'[c].answer.listed = client[c].answer.listed
        /\ client'[c].exit = 1
        /\ \A d \in Clients \ {c} : client'[d] = client[d]
    BY <1>7, ClientParts, ReceiveEffect DEF StatusNotFound, TypeOK
  <2>2. c \in Runs => faults' > 0
    BY <1>7, ClientParts DEF StatusNotFound, MayAsk, Tables
  <2>3. QED
    BY <2>1, <2>2
<1>8. ASSUME NEW c \in Clients, ListJobs(c) PROVE CommandSees'
  <2>1. /\ client' \in [Clients -> ClientStates]
        /\ client'[c].at = "listing"
        /\ client'[c].answer.listed = entries[Of(c)]
        /\ client'[c].answer.status = client[c].answer.status
        /\ client'[c].answer.code = client[c].answer.code
        /\ client'[c].exit = client[c].exit
        /\ \A d \in Clients \ {c} : client'[d] = client[d]
    BY <1>8, ClientParts, ListEffect DEF TypeOK
  <2>2. QED
    BY <1>8, <2>1 DEF ListJobs
<1>9. ASSUME NEW c \in Clients, AnswerStatus(c) PROVE CommandSees'
  <2> DEFINE whole == client[c].answer.listed = entries[Of(c)]
             good == whole /\ client[c].answer.status = "succeeded"
             k == IF whole THEN 200 ELSE 500
             e == IF good \/ (whole /\ c \in Watchers) THEN 0 ELSE 1
  <2>1. Receive(c, k, e) /\ k \in {200, 404, 500} /\ e \in {0, 1} /\ client[c].at = "listing"
    BY <1>9 DEF AnswerStatus
  <2>2. c \in Runs => IF e = 0 THEN status[c] = "succeeded" ELSE status[c] = "failed"
    BY <2>1, ClientParts, ClientsAssumption DEF CommandSees, AnswersTrue
  <2> HIDE DEF k, e
  <2>3. /\ client'[c].at = "exit"
        /\ client'[c].exit = e
        /\ \A d \in Clients \ {c} : client'[d] = client[d]
    BY <2>1, ReceiveEffect DEF TypeOK
  <2>4. QED
    BY <2>1, <2>2, <2>3
<1>10. ASSUME NEW c \in Clients, StreamEnds(c) PROVE CommandSees'
  <2>1. CASE client' = client
    BY <2>1
  <2>2. CASE Goto(c, "ended") /\ c \in Runs /\ client[c].at = "streaming"
    <3>1. /\ client'[c].at = "ended"
          /\ client'[c].exit = client[c].exit
          /\ \A d \in Clients \ {c} : client'[d] = client[d]
      BY <2>2, GotoEffect DEF TypeOK
    <3>2. Sent(c) /\ status[c] \in Verdicts
      BY <1>10, <2>2 DEF StreamEnds, Running, Sent, DrainsLast
    <3>3. QED
      BY <2>2, <3>1, <3>2
  <2>3. CASE Exit(c, 0) /\ c \notin Runs
    <3>1. \A d \in Clients \ {c} : client'[d] = client[d]
      BY <2>3, ExitEffect DEF TypeOK
    <3>2. QED
      BY <2>3, <3>1
  <2>4. QED
    BY <1>10, <2>1, <2>2, <2>3 DEF StreamEnds
<1>11. ASSUME NEW c \in Clients, Disconnect(c) PROVE CommandSees'
  <2>1. /\ client' \in [Clients -> ClientStates]
        /\ client'[c].at = "exit"
        /\ client'[c].answer = client[c].answer
        /\ client'[c].exit = 1
        /\ \A d \in Clients \ {c} : client'[d] = client[d]
    BY <1>11, ClientParts, ExitEffect DEF Disconnect, TypeOK
  <2>2. faults' > 0
    BY <1>11, ClientParts DEF Disconnect, Fault, TypeOK
  <2>3. QED
    BY <2>1, <2>2
<1>12. CASE Restart
  <2>1. \A c \in Clients :
          /\ client'[c].answer = client[c].answer
          /\ \/ client'[c].at = client[c].at /\ client'[c].exit = client[c].exit
             \/ client'[c].at = "exit" /\ client'[c].exit = 1
    BY <1>12, RestartEffect DEF TypeOK
  <2>2. faults' > 0
    BY <1>12 DEF Restart, Fault, TypeOK
  <2>3. QED
    BY <2>1, <2>2
<1>13. CASE UNCHANGED <<client>>
  BY <1>13
<1>14. QED
  BY <1>post, <1>1, <1>2, <1>3, <1>4, <1>5, <1>6, <1>7, <1>8, <1>9, <1>10, <1>11, <1>12, <1>13
     DEF Next, execute_pipeline, submit_pipeline, logs, stream_sse, get_run_status, Grant, Begin, Log,
         Record, Verdict, Raises, Unregister, Read, SendEvent, CheckStatus, Drain,
         SetStatus, Release, Reads, vars

\* What an answer says of a run that is over stays true.
LEMMA StepAnswers ==
  ASSUME TypeOK, Tables, Claimed, Posted, DrainsLast, CommandSees, AnswersTrue, [Next]_vars
  PROVE  AnswersTrue'
<1> USE ClientParts, StepKeeps DEF Kept, AnswersTrue, Verdicts
<1>post. ASSUME NEW r \in Runs, PostRun(r) PROVE AnswersTrue'
  <2>1. /\ client' \in [Clients -> ClientStates]
        /\ client'[r].at = "posted"
        /\ client'[r].answer = client[r].answer
        /\ client'[r].exit = client[r].exit
        /\ \A d \in Clients \ {r} : client'[d] = client[d]
    BY <1>post, ClientParts, GotoEffect DEF PostRun, TypeOK
  <2>2. QED
    BY <1>post, <2>1 DEF PostRun, Claim
<1>1. ASSUME NEW r \in Runs, Submit(r) PROVE AnswersTrue'
  <2>1. /\ client' \in [Clients -> ClientStates]
        /\ client[r].at = "posted" =>
             /\ client'[r].at = "submitted"
             /\ client'[r].answer = client[r].answer /\ client'[r].exit = client[r].exit
        /\ client[r].at # "posted" => client' = client
        /\ \A d \in Clients \ {r} : client'[d] = client[d]
    BY <1>1, ClientParts, SubmitEffect DEF TypeOK
  <2>2. QED
    BY <1>1, <2>1 DEF Submit, SetStatus
<1>2. ASSUME NEW r \in Runs, SubmitRefused(r) PROVE AnswersTrue'
  <2>1. /\ client' \in [Clients -> ClientStates]
        /\ client[r].at = "posted" =>
             /\ client'[r].at = "exit"
             /\ client'[r].answer = client[r].answer /\ client'[r].exit = 1
        /\ client[r].at # "posted" => client' = client
        /\ \A d \in Clients \ {r} : client'[d] = client[d]
    BY <1>2, ClientParts, RefusedEffect DEF TypeOK
  <2>2. QED
    BY <1>2, <2>1 DEF SubmitRefused, Release
<1>3. ASSUME NEW r \in Runs, SubmitUnanswered(r) PROVE AnswersTrue'
  <2>1. /\ client' \in [Clients -> ClientStates]
        /\ client'[r].at = "exit"
        /\ client'[r].answer = client[r].answer
        /\ client'[r].exit = 1
        /\ \A d \in Clients \ {r} : client'[d] = client[d]
    BY <1>3, ClientParts, ExitEffect DEF SubmitUnanswered, TypeOK
  <2>2. QED
    BY <1>3, <2>1 DEF SubmitUnanswered, Fault
<1>4. ASSUME NEW c \in Clients, OpenStream(c) PROVE AnswersTrue'
  <2>1. /\ client' \in [Clients -> ClientStates]
        /\ client'[c].at = "streaming"
        /\ client'[c].answer = client[c].answer
        /\ client'[c].exit = client[c].exit
        /\ \A d \in Clients \ {c} : client'[d] = client[d]
    BY <1>4, ClientParts, GotoEffect DEF OpenStream, TypeOK
  <2>2. QED
    BY <1>4, <2>1 DEF OpenStream, MayFollow, Claim
<1>5. ASSUME NEW c \in Clients, RunNotFound(c) PROVE AnswersTrue'
  <2>1. /\ client' \in [Clients -> ClientStates]
        /\ client'[c].at = "exit"
        /\ client'[c].answer = client[c].answer
        /\ client'[c].exit = 1
        /\ \A d \in Clients \ {c} : client'[d] = client[d]
    BY <1>5, ClientParts, ExitEffect DEF RunNotFound, TypeOK
  <2>2. QED
    BY <1>5, <2>1 DEF RunNotFound, MayFollow
<1>6. ASSUME NEW c \in Clients, AskStatus(c) PROVE AnswersTrue'
  <2>1. /\ client' \in [Clients -> ClientStates]
        /\ client'[c].at = "asked"
        /\ client'[c].answer.status = status[Of(c)]
        /\ client'[c].answer.code = client[c].answer.code
        /\ client'[c].exit = client[c].exit
        /\ \A d \in Clients \ {c} : client'[d] = client[d]
    BY <1>6, ClientParts, AskEffect DEF TypeOK
  <2>2. status[Of(c)] # "none" /\ client[c].at # "exit"
    BY <1>6, ClientParts DEF AskStatus, MayAsk, CommandSees
  <2>3. QED
    BY <2>1, <2>2
<1>7. ASSUME NEW c \in Clients, StatusNotFound(c) PROVE AnswersTrue'
  <2>1. /\ client' \in [Clients -> ClientStates]
        /\ client'[c].at = "exit"
        /\ client'[c].answer.code = 404
        /\ client'[c].answer.status = client[c].answer.status
        /\ client'[c].answer.listed = client[c].answer.listed
        /\ client'[c].exit = 1
        /\ \A d \in Clients \ {c} : client'[d] = client[d]
    BY <1>7, ClientParts, ReceiveEffect DEF StatusNotFound, TypeOK
  <2>2. QED
    BY <1>7, <2>1 DEF StatusNotFound, MayAsk
<1>8. ASSUME NEW c \in Clients, ListJobs(c) PROVE AnswersTrue'
  <2>1. /\ client' \in [Clients -> ClientStates]
        /\ client'[c].at = "listing"
        /\ client'[c].answer.listed = entries[Of(c)]
        /\ client'[c].answer.status = client[c].answer.status
        /\ client'[c].answer.code = client[c].answer.code
        /\ client'[c].exit = client[c].exit
        /\ \A d \in Clients \ {c} : client'[d] = client[d]
    BY <1>8, ClientParts, ListEffect DEF TypeOK
  <2>2. QED
    BY <1>8, <2>1 DEF ListJobs
<1>9. ASSUME NEW c \in Clients, AnswerStatus(c) PROVE AnswersTrue'
  <2> DEFINE whole == client[c].answer.listed = entries[Of(c)]
             good == whole /\ client[c].answer.status = "succeeded"
             k == IF whole THEN 200 ELSE 500
             e == IF good \/ (whole /\ c \in Watchers) THEN 0 ELSE 1
  <2>1. Receive(c, k, e) /\ k \in {200, 404, 500} /\ e \in {0, 1} /\ client[c].at = "listing"
    BY <1>9 DEF AnswerStatus
  <2>2. k = 500 => client[c].answer.status \in Live /\ c \in Watchers
    <3>1. client[c].answer.status \in Statuses
      BY DEF TypeOK, ClientStates, Answers
    <3>2. k = 500 => client[c].answer.status \notin Verdicts
      BY <2>1, ClientParts
    <3>3. QED
      BY <2>1, <3>1, <3>2, ClientParts DEF Statuses, CommandSees
  <2> HIDE DEF k, e
  <2>3. /\ client'[c].at = "exit"
        /\ client'[c].answer.code = k
        /\ client'[c].answer.status = client[c].answer.status
        /\ client'[c].answer.listed = client[c].answer.listed
        /\ \A d \in Clients \ {c} : client'[d] = client[d]
    BY <2>1, ReceiveEffect DEF TypeOK
  <2>4. QED
    BY <2>1, <2>2, <2>3
<1>10. ASSUME NEW c \in Clients, StreamEnds(c) PROVE AnswersTrue'
  <2>1. CASE client' = client
    BY <2>1
  <2>2. CASE Goto(c, "ended") /\ client[c].at = "streaming"
    <3>1. /\ client'[c].at = "ended"
          /\ client'[c].answer = client[c].answer
          /\ \A d \in Clients \ {c} : client'[d] = client[d]
      BY <2>2, GotoEffect DEF TypeOK
    <3>2. QED
      BY <2>2, <3>1
  <2>3. CASE Exit(c, 0)
    <3>1. /\ client'[c].at = "exit"
          /\ client'[c].answer = client[c].answer
          /\ \A d \in Clients \ {c} : client'[d] = client[d]
      BY <2>3, ExitEffect DEF TypeOK
    <3>2. QED
      BY <3>1
  <2>4. QED
    BY <1>10, <2>1, <2>2, <2>3 DEF StreamEnds
<1>11. ASSUME NEW c \in Clients, Disconnect(c) PROVE AnswersTrue'
  <2>1. /\ client' \in [Clients -> ClientStates]
        /\ client'[c].at = "exit"
        /\ client'[c].answer = client[c].answer
        /\ client'[c].exit = 1
        /\ \A d \in Clients \ {c} : client'[d] = client[d]
    BY <1>11, ClientParts, ExitEffect DEF Disconnect, TypeOK
  <2>2. QED
    BY <1>11, <2>1 DEF Disconnect, Fault
<1>12. CASE Restart
  <2>1. \A c \in Clients :
          /\ client'[c].answer = client[c].answer
          /\ \/ client'[c].at = client[c].at /\ client'[c].exit = client[c].exit
             \/ client'[c].at = "exit" /\ client'[c].exit = 1
    BY <1>12, RestartEffect DEF TypeOK
  <2>2. faults' > 0
    BY <1>12 DEF Restart, Fault, TypeOK
  <2>3. QED
    BY <2>1, <2>2
<1>13. CASE UNCHANGED <<client>>
  BY <1>13
<1> HIDE DEF Kept, AnswersTrue, Verdicts
<1>14. QED
  BY <1>post, <1>1, <1>2, <1>3, <1>4, <1>5, <1>6, <1>7, <1>8, <1>9, <1>10, <1>11, <1>12, <1>13,
     ZenonT(60)
     DEF Next, execute_pipeline, submit_pipeline, logs, stream_sse, get_run_status, Grant, Begin, Log,
         Record, Verdict, Raises, Unregister, Read, SendEvent, CheckStatus, Drain,
         SetStatus, Release, Reads, vars

-----------------------------------------------------------------------------
\* The invariant holds before the first submission.
LEMMA InitInv == ASSUME Init PROVE IInv
<1> USE ClientParts DEF Init
<1>1. TypeOK
  BY DEF TypeOK, Statuses, ClientStates, Answers, NoAnswer, StreamStates, Claims
<1>2. Tables /\ Claimed /\ Posted /\ RunsInFront /\ RunGoesFirst
  BY DEF Tables, Claimed, Posted, Active, RunsInFront, RunGoesFirst, Verdicts
<1>3. DrainsLast /\ CommandSees
  BY DEF DrainsLast, CommandSees
<1>4. AnswersTrue
  BY DEF AnswersTrue, NoAnswer, Verdicts
<1>5. QED
  BY <1>1, <1>2, <1>3, <1>4 DEF IInv

\* The invariant is inductive, for any number of runs, jobs and clients.
THEOREM Invariance == Spec => []IInv
<1>1. Init => IInv
  BY InitInv
<1>2. IInv /\ [Next]_vars => IInv'
  BY StepType, StepTables, StepClaimed, StepPosted, StepInFront, StepGoesFirst, StepDrains,
     StepCommand, StepAnswers DEF IInv
<1>3. QED
  BY <1>1, <1>2, PTL DEF Spec

\* Followers get the pool's threads only after the run that they follow (the
\* executor's queue, RunGoesFirst): the run's claim stands before theirs.
THEOREM RunsGoFirst == Spec => []RunGoesFirst
<1>1. IInv => RunGoesFirst
  BY DEF IInv
<1>2. QED
  BY <1>1, Invariance, PTL

\* The exit code of `forge run --follow` (ExitHonest): the command exits with 0
\* when it has seen a run succeed to the end of its log, and when a run that
\* succeeded makes it exit with 1 something broke.
THEOREM ExitIsHonest == Spec => []ExitHonest
<1>1. IInv => ExitHonest
  BY ClientParts DEF IInv, ExitHonest, CommandSees, DrainsLast, Sent, Verdicts
<1>2. QED
  BY <1>1, Invariance, PTL

\* Answers of GET /runs/{run_id} (AnswersConsistent): with a terminal status come
\* all entries of the run, and only an answer begun before is ever torn.
THEOREM AnswersAreConsistent == Spec => []AnswersConsistent
<1>1. IInv => AnswersConsistent
  BY ClientParts DEF IInv, AnswersConsistent, AnswersTrue, Tables
<1>2. QED
  BY <1>1, Invariance, PTL
=============================================================================
