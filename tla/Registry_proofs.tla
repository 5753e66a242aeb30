---------------------------- MODULE Registry_proofs ----------------------------
(***************************************************************************)
(* The registry keeps its promises: the inductive invariant of Registry    *)
(* and what follows from it, for any publishes and downloads, any          *)
(* coordinates and bodies, and any number of kills and failed writes.      *)
(***************************************************************************)
EXTENDS Registry, TLAPS

InLoop == {"store", "write", "insert", "created"}

TypeOK ==
  /\ rows \in [Coordinates -> Contents \cup {NoRow}]
  /\ blobs \in [Contents -> {"absent", "partial", "full"}]
  /\ req \in [Publishes -> Requests]
  /\ at \in [Publishes -> {"idle", "reading", "answered"} \cup InLoop]
  /\ answer \in [Publishes -> {"none", "201", "400", "401", "409", "500", "lost"}]
  /\ loop \in Publishes \cup {Nobody}
  /\ dl \in [Downloads -> DownloadStates]
  /\ faults \in Nat

\* A handler is in its second stretch exactly while it holds the event loop, and
\* only with a verified body.
OneInLoop ==
  \A p \in Publishes :
    /\ at[p] \in InLoop <=> loop = p
    /\ at[p] \in InLoop => req[p].kind = "good"
    /\ at[p] = "reading" => req[p].kind # "refused"

AnsweredOnce == \A p \in Publishes : at[p] = "answered" <=> answer[p] # "none"

\* The publish has got its coordinate, whether its client has heard of it, will
\* hear of it or never will.
Owns(p) == at[p] = "created" \/ answer[p] = "201"
Owned(p) == Owns(p) \/ answer[p] = "lost"

\* A coordinate has the content of the publish that owns it, and there are not
\* two of them.
OwnerHasRow == \A p \in Publishes : Owns(p) => rows[req[p].coord] = req[p].content

OneOwner ==
  \A p, q \in Publishes :
    Owns(p) /\ Owns(q) /\ req[p].coord = req[q].coord => p = q

\* No coordinate has a row without a verified publish, and none is refused as
\* taken that has no row.
RowHasOwner ==
  \A c \in Coordinates : rows[c] # NoRow =>
    \E p \in Publishes :
      Owned(p) /\ req[p] = [coord |-> c, content |-> rows[c], kind |-> "good"]

ConflictHasRow ==
  \A p \in Publishes : answer[p] = "409" => rows[req[p].coord] # NoRow

\* Without faults a partial blob is the one that is being written, so what a row
\* or a handler past the writing refers to is there in full.
BlobsWhole ==
  faults = 0 =>
    /\ \A x \in Contents : blobs[x] = "partial" =>
         \E p \in Publishes : at[p] = "write" /\ req[p].content = x
    /\ \A p \in Publishes :
         at[p] \in {"insert", "created"} => blobs[req[p].content] = "full"
    /\ \A c \in Coordinates : rows[c] # NoRow => blobs[rows[c]] = "full"

\* A download under way has found a row, and later its blob.
DownloadsFound ==
  \A d \in Downloads :
    /\ dl[d].at \in {"row", "blob"} => dl[d].sha # NoRow
    /\ dl[d].at = "blob" => blobs[dl[d].sha] # "absent"
    /\ dl[d].sha # NoRow /\ faults = 0 => blobs[dl[d].sha] = "full"

IInv ==
  /\ TypeOK
  /\ OneInLoop /\ AnsweredOnce
  /\ OwnerHasRow /\ OneOwner /\ RowHasOwner /\ ConflictHasRow
  /\ BlobsWhole /\ DownloadsFound
  /\ DownloadsIntact

-----------------------------------------------------------------------------
USE NoRowAssumption, NobodyAssumption, FaultsAssumption DEF disk

\* ReadBlob answers one download; what it has found stays.
LEMMA ReadEffect ==
  ASSUME TypeOK, DownloadsFound, NEW d \in Downloads, ReadBlob(d)
  PROVE  /\ dl' \in [Downloads -> DownloadStates]
         /\ dl'[d].at = "answered" /\ dl'[d].sha = dl[d].sha
         /\ \A e \in Downloads \ {d} : dl'[e] = dl[e]
         /\ UNCHANGED <<rows, blobs, req, at, answer, loop, faults>>
<1>1. dl[d] \in DownloadStates /\ dl[d].at = "blob" /\ dl \in [Downloads -> DownloadStates]
  BY DEF ReadBlob, TypeOK
<1>2. dl[d].sha \in Contents /\ blobs[dl[d].sha] # "absent"
  BY <1>1 DEF DownloadsFound, DownloadStates
<1>3. blobs[dl[d].sha] \in {"partial", "full"}
  BY <1>2 DEF TypeOK
<1>4. PICK b \in {"404", "partial", "full"} :
        dl' = [dl EXCEPT ![d].at = "answered", ![d].body = b]
  BY <1>3 DEF ReadBlob
<1> DEFINE x == dl[d]
           y == [[x EXCEPT !.at = "answered"] EXCEPT !.body = b]
<1>5. dl' = [dl EXCEPT ![d] = y]
  BY <1>4
<1> HIDE DEF x
<1>6. x \in DownloadStates
  BY <1>1 DEF x
<1>7. y \in DownloadStates /\ y.at = "answered" /\ y.sha = x.sha
  BY <1>6 DEF DownloadStates
<1> HIDE DEF y
<1>8. UNCHANGED <<rows, blobs, req, at, answer, loop, faults>>
  BY DEF ReadBlob
<1>9. QED
  BY <1>1, <1>5, <1>7, <1>8 DEF x

\* Every step keeps the types.
LEMMA StepType == TypeOK /\ OneInLoop /\ DownloadsFound /\ [Next]_vars => TypeOK'
<1> SUFFICES ASSUME TypeOK, OneInLoop, DownloadsFound, [Next]_vars PROVE TypeOK'
  OBVIOUS
<1> USE DEF TypeOK, Requests, DownloadStates, InLoop, OneInLoop, DownloadsFound
<1>1. ASSUME NEW p \in Publishes, Check(p)
      PROVE  TypeOK'
  BY <1>1 DEF Check, Answer, Refused
<1>2. ASSUME NEW p \in Publishes, Verify(p)
      PROVE  TypeOK'
  <2>1. /\ at' \in [Publishes -> {"idle", "reading", "answered"} \cup InLoop]
        /\ answer' \in [Publishes -> {"none", "201", "400", "401", "409", "500", "lost"}]
        /\ loop' \in Publishes \cup {Nobody}
    BY <1>2 DEF Verify, Answer
  <2>2. UNCHANGED <<rows, blobs, req, dl, faults>>
    BY <1>2 DEF Verify
  <2>3. QED
    BY <2>1, <2>2
<1>3. ASSUME NEW p \in Publishes, StoreBlob(p)
      PROVE  TypeOK'
  BY <1>3 DEF StoreBlob
<1>4. ASSUME NEW p \in Publishes, WriteBlob(p)
      PROVE  TypeOK'
  BY <1>4 DEF WriteBlob
<1>5. ASSUME NEW p \in Publishes, WriteFails(p) \/ InsertFails(p)
      PROVE  TypeOK'
  BY <1>5 DEF WriteFails, InsertFails, Answer
<1>6. ASSUME NEW p \in Publishes, Insert(p)
      PROVE  TypeOK'
  <2>1. req[p].coord \in Coordinates /\ req[p].content \in Contents
    OBVIOUS
  <2>2. /\ rows' \in [Coordinates -> Contents \cup {NoRow}]
        /\ at' \in [Publishes -> {"idle", "reading", "answered"} \cup InLoop]
        /\ answer' \in [Publishes -> {"none", "201", "400", "401", "409", "500", "lost"}]
        /\ loop' \in Publishes \cup {Nobody}
    <3>1. CASE rows[req[p].coord] # NoRow
      BY <1>6, <2>1, <3>1 DEF Insert, Answer
    <3>2. CASE rows[req[p].coord] = NoRow
      BY <1>6, <2>1, <3>2 DEF Insert, Answer
    <3>3. QED
      BY <3>1, <3>2
  <2>3. UNCHANGED <<blobs, req, dl, faults>>
    BY <1>6 DEF Insert
  <2>4. QED
    BY <2>2, <2>3
<1>7. ASSUME NEW p \in Publishes, Created(p)
      PROVE  TypeOK'
  BY <1>7 DEF Created, Answer
<1>8. ASSUME NEW d \in Downloads, GetArtifact(d)
      PROVE  TypeOK'
  BY <1>8 DEF GetArtifact
<1>9. ASSUME NEW d \in Downloads, BlobExists(d)
      PROVE  TypeOK'
  <2>1. dl[d] \in DownloadStates /\ dl[d].sha \in Contents
    BY <1>9 DEF BlobExists
  <2>2. /\ [dl[d] EXCEPT !.at = "answered", !.body = "404"] \in DownloadStates
        /\ [dl[d] EXCEPT !.at = "blob"] \in DownloadStates
    BY <2>1
  <2>3. QED
    BY <1>9, <2>2 DEF BlobExists
<1>10. ASSUME NEW d \in Downloads, ReadBlob(d)
      PROVE  TypeOK'
  BY <1>10, ReadEffect
<1>11. CASE Crash
  <2>1. ASSUME NEW d \in Downloads
        PROVE  [dl[d] EXCEPT !.at = "answered"] \in DownloadStates
    <3>1. dl[d] \in DownloadStates
      OBVIOUS
    <3>2. QED
      BY <3>1
  <2>2. dl' \in [Downloads -> DownloadStates]
    BY <1>11, <2>1 DEF Crash
  <2>3. QED
    BY <1>11, <2>2 DEF Crash
<1>12. CASE Finished \/ UNCHANGED vars
  BY <1>12 DEF Finished, vars
<1>13. QED
  BY <1>1, <1>2, <1>3, <1>4, <1>5, <1>6, <1>7, <1>8, <1>9, <1>10, <1>11, <1>12
     DEF Next, Publish, Download

\* A handler enters its second stretch only when nobody is in it, and gives the loop
\* away when it leaves; a kill empties both.
LEMMA StepLoop == TypeOK /\ OneInLoop /\ [Next]_vars => OneInLoop'
<1> SUFFICES ASSUME TypeOK, OneInLoop, [Next]_vars PROVE OneInLoop'
  OBVIOUS
<1> USE DEF TypeOK, InLoop, OneInLoop, Requests
<1>1. ASSUME NEW p \in Publishes, Check(p)
      PROVE  OneInLoop'
  BY <1>1 DEF Check, Answer, Refused
<1>2. ASSUME NEW p \in Publishes, Verify(p)
      PROVE  OneInLoop'
  BY <1>2 DEF Verify, Answer
<1>3. ASSUME NEW p \in Publishes, StoreBlob(p)
      PROVE  OneInLoop'
  BY <1>3 DEF StoreBlob
<1>4. ASSUME NEW p \in Publishes, WriteBlob(p)
      PROVE  OneInLoop'
  BY <1>4 DEF WriteBlob
<1>5. ASSUME NEW p \in Publishes, WriteFails(p) \/ InsertFails(p)
      PROVE  OneInLoop'
  BY <1>5 DEF WriteFails, InsertFails, Answer
<1>6. ASSUME NEW p \in Publishes, Insert(p)
      PROVE  OneInLoop'
  BY <1>6 DEF Insert, Answer
<1>7. ASSUME NEW p \in Publishes, Created(p)
      PROVE  OneInLoop'
  BY <1>7 DEF Created, Answer
<1>8. ASSUME NEW d \in Downloads, GetArtifact(d)
      PROVE  OneInLoop'
  BY <1>8 DEF GetArtifact
<1>9. ASSUME NEW d \in Downloads, BlobExists(d)
      PROVE  OneInLoop'
  BY <1>9 DEF BlobExists
<1>10. ASSUME NEW d \in Downloads, ReadBlob(d)
      PROVE  OneInLoop'
  BY <1>10 DEF ReadBlob
<1>11. CASE Crash
  BY <1>11 DEF Crash
<1>12. CASE Finished \/ UNCHANGED vars
  BY <1>12 DEF Finished, vars
<1>13. QED
  BY <1>1, <1>2, <1>3, <1>4, <1>5, <1>6, <1>7, <1>8, <1>9, <1>10, <1>11, <1>12
     DEF Next, Publish, Download

\* A publish is over exactly when its client has an answer or will never get one.
LEMMA StepAnswered == TypeOK /\ AnsweredOnce /\ [Next]_vars => AnsweredOnce'
<1> SUFFICES ASSUME TypeOK, AnsweredOnce, [Next]_vars PROVE AnsweredOnce'
  OBVIOUS
<1> USE DEF TypeOK, InLoop, AnsweredOnce
<1>1. ASSUME NEW p \in Publishes, Check(p)
      PROVE  AnsweredOnce'
  BY <1>1 DEF Check, Answer, Refused
<1>2. ASSUME NEW p \in Publishes, Verify(p)
      PROVE  AnsweredOnce'
  BY <1>2 DEF Verify, Answer
<1>3. ASSUME NEW p \in Publishes, StoreBlob(p)
      PROVE  AnsweredOnce'
  BY <1>3 DEF StoreBlob
<1>4. ASSUME NEW p \in Publishes, WriteBlob(p)
      PROVE  AnsweredOnce'
  BY <1>4 DEF WriteBlob
<1>5. ASSUME NEW p \in Publishes, WriteFails(p) \/ InsertFails(p)
      PROVE  AnsweredOnce'
  BY <1>5 DEF WriteFails, InsertFails, Answer
<1>6. ASSUME NEW p \in Publishes, Insert(p)
      PROVE  AnsweredOnce'
  BY <1>6 DEF Insert, Answer
<1>7. ASSUME NEW p \in Publishes, Created(p)
      PROVE  AnsweredOnce'
  BY <1>7 DEF Created, Answer
<1>8. ASSUME NEW d \in Downloads, GetArtifact(d)
      PROVE  AnsweredOnce'
  BY <1>8 DEF GetArtifact
<1>9. ASSUME NEW d \in Downloads, BlobExists(d)
      PROVE  AnsweredOnce'
  BY <1>9 DEF BlobExists
<1>10. ASSUME NEW d \in Downloads, ReadBlob(d)
      PROVE  AnsweredOnce'
  BY <1>10 DEF ReadBlob
<1>11. CASE Crash
  BY <1>11 DEF Crash
<1>12. CASE Finished \/ UNCHANGED vars
  BY <1>12 DEF Finished, vars
<1>13. QED
  BY <1>1, <1>2, <1>3, <1>4, <1>5, <1>6, <1>7, <1>8, <1>9, <1>10, <1>11, <1>12
     DEF Next, Publish, Download

\* An owner's row is neither replaced nor removed: Insert finds no row, so there is
\* no owner before, and writes its own.
LEMMA StepOwnerHasRow ==
  TypeOK /\ OneInLoop /\ AnsweredOnce /\ OneOwner /\ OwnerHasRow /\ [Next]_vars
    => OwnerHasRow'
<1> SUFFICES ASSUME TypeOK, OneInLoop, AnsweredOnce, OneOwner, OwnerHasRow, [Next]_vars
             PROVE  OwnerHasRow'
  OBVIOUS
<1> USE DEF TypeOK, InLoop, OneInLoop, AnsweredOnce, OneOwner, OwnerHasRow, Requests, Owns
<1>1. ASSUME NEW p \in Publishes, Check(p)
      PROVE  OwnerHasRow'
  BY <1>1 DEF Check, Answer, Refused
<1>2. ASSUME NEW p \in Publishes, Verify(p)
      PROVE  OwnerHasRow'
  BY <1>2 DEF Verify, Answer
<1>3. ASSUME NEW p \in Publishes, StoreBlob(p)
      PROVE  OwnerHasRow'
  BY <1>3 DEF StoreBlob
<1>4. ASSUME NEW p \in Publishes, WriteBlob(p)
      PROVE  OwnerHasRow'
  BY <1>4 DEF WriteBlob
<1>5. ASSUME NEW p \in Publishes, WriteFails(p) \/ InsertFails(p)
      PROVE  OwnerHasRow'
  BY <1>5 DEF WriteFails, InsertFails, Answer
<1>6. ASSUME NEW p \in Publishes, Insert(p)
      PROVE  OwnerHasRow'
  BY <1>6 DEF Insert, Answer
<1>7. ASSUME NEW p \in Publishes, Created(p)
      PROVE  OwnerHasRow'
  BY <1>7 DEF Created, Answer
<1>8. ASSUME NEW d \in Downloads, GetArtifact(d)
      PROVE  OwnerHasRow'
  BY <1>8 DEF GetArtifact
<1>9. ASSUME NEW d \in Downloads, BlobExists(d)
      PROVE  OwnerHasRow'
  BY <1>9 DEF BlobExists
<1>10. ASSUME NEW d \in Downloads, ReadBlob(d)
      PROVE  OwnerHasRow'
  BY <1>10 DEF ReadBlob
<1>11. CASE Crash
  BY <1>11 DEF Crash
<1>12. CASE Finished \/ UNCHANGED vars
  BY <1>12 DEF Finished, vars
<1>13. QED
  BY <1>1, <1>2, <1>3, <1>4, <1>5, <1>6, <1>7, <1>8, <1>9, <1>10, <1>11, <1>12
     DEF Next, Publish, Download

\* Only Insert makes an owner, and a rival that was one already would have a row.
LEMMA StepOneOwner ==
  TypeOK /\ OneInLoop /\ AnsweredOnce /\ OneOwner /\ OwnerHasRow /\ [Next]_vars
    => OneOwner'
<1> SUFFICES ASSUME TypeOK, OneInLoop, AnsweredOnce, OneOwner, OwnerHasRow, [Next]_vars
             PROVE  OneOwner'
  OBVIOUS
<1> USE DEF TypeOK, InLoop, OneInLoop, AnsweredOnce, OneOwner, OwnerHasRow, Requests, Owns
<1>1. ASSUME NEW p \in Publishes, Check(p)
      PROVE  OneOwner'
  BY <1>1 DEF Check, Answer, Refused
<1>2. ASSUME NEW p \in Publishes, Verify(p)
      PROVE  OneOwner'
  BY <1>2 DEF Verify, Answer
<1>3. ASSUME NEW p \in Publishes, StoreBlob(p)
      PROVE  OneOwner'
  BY <1>3 DEF StoreBlob
<1>4. ASSUME NEW p \in Publishes, WriteBlob(p)
      PROVE  OneOwner'
  BY <1>4 DEF WriteBlob
<1>5. ASSUME NEW p \in Publishes, WriteFails(p) \/ InsertFails(p)
      PROVE  OneOwner'
  BY <1>5 DEF WriteFails, InsertFails, Answer
<1>6. ASSUME NEW p \in Publishes, Insert(p)
      PROVE  OneOwner'
  BY <1>6 DEF Insert, Answer
<1>7. ASSUME NEW p \in Publishes, Created(p)
      PROVE  OneOwner'
  BY <1>7 DEF Created, Answer
<1>8. ASSUME NEW d \in Downloads, GetArtifact(d)
      PROVE  OneOwner'
  BY <1>8 DEF GetArtifact
<1>9. ASSUME NEW d \in Downloads, BlobExists(d)
      PROVE  OneOwner'
  BY <1>9 DEF BlobExists
<1>10. ASSUME NEW d \in Downloads, ReadBlob(d)
      PROVE  OneOwner'
  BY <1>10 DEF ReadBlob
<1>11. CASE Crash
  BY <1>11 DEF Crash
<1>12. CASE Finished \/ UNCHANGED vars
  BY <1>12 DEF Finished, vars
<1>13. QED
  BY <1>1, <1>2, <1>3, <1>4, <1>5, <1>6, <1>7, <1>8, <1>9, <1>10, <1>11, <1>12
     DEF Next, Publish, Download

\* A row is written by a verified publish, which owns it from then on, also when it
\* is killed before its answer.
LEMMA StepRowHasOwner ==
  TypeOK /\ OneInLoop /\ AnsweredOnce /\ RowHasOwner /\ [Next]_vars => RowHasOwner'
<1> SUFFICES ASSUME TypeOK, OneInLoop, AnsweredOnce, RowHasOwner, [Next]_vars
             PROVE  RowHasOwner'
  OBVIOUS
<1> USE DEF TypeOK, InLoop, OneInLoop, AnsweredOnce, RowHasOwner, Requests, Owns, Owned
<1>1. ASSUME NEW p \in Publishes, Check(p)
      PROVE  RowHasOwner'
  BY <1>1 DEF Check, Answer, Refused
<1>2. ASSUME NEW p \in Publishes, Verify(p)
      PROVE  RowHasOwner'
  BY <1>2 DEF Verify, Answer
<1>3. ASSUME NEW p \in Publishes, StoreBlob(p)
      PROVE  RowHasOwner'
  BY <1>3 DEF StoreBlob
<1>4. ASSUME NEW p \in Publishes, WriteBlob(p)
      PROVE  RowHasOwner'
  BY <1>4 DEF WriteBlob
<1>5. ASSUME NEW p \in Publishes, WriteFails(p) \/ InsertFails(p)
      PROVE  RowHasOwner'
  BY <1>5 DEF WriteFails, InsertFails, Answer
<1>6. ASSUME NEW p \in Publishes, Insert(p)
      PROVE  RowHasOwner'
  BY <1>6 DEF Insert, Answer
<1>7. ASSUME NEW p \in Publishes, Created(p)
      PROVE  RowHasOwner'
  BY <1>7 DEF Created, Answer
<1>8. ASSUME NEW d \in Downloads, GetArtifact(d)
      PROVE  RowHasOwner'
  BY <1>8 DEF GetArtifact
<1>9. ASSUME NEW d \in Downloads, BlobExists(d)
      PROVE  RowHasOwner'
  BY <1>9 DEF BlobExists
<1>10. ASSUME NEW d \in Downloads, ReadBlob(d)
      PROVE  RowHasOwner'
  BY <1>10 DEF ReadBlob
<1>11. CASE Crash
  BY <1>11 DEF Crash
<1>12. CASE Finished \/ UNCHANGED vars
  BY <1>12 DEF Finished, vars
<1>13. QED
  BY <1>1, <1>2, <1>3, <1>4, <1>5, <1>6, <1>7, <1>8, <1>9, <1>10, <1>11, <1>12
     DEF Next, Publish, Download

\* Who is told 409 has met a row, and rows stay.
LEMMA StepConflict ==
  TypeOK /\ OneInLoop /\ AnsweredOnce /\ ConflictHasRow /\ [Next]_vars => ConflictHasRow'
<1> SUFFICES ASSUME TypeOK, OneInLoop, AnsweredOnce, ConflictHasRow, [Next]_vars
             PROVE  ConflictHasRow'
  OBVIOUS
<1> USE DEF TypeOK, InLoop, OneInLoop, AnsweredOnce, ConflictHasRow, Requests
<1>1. ASSUME NEW p \in Publishes, Check(p)
      PROVE  ConflictHasRow'
  BY <1>1 DEF Check, Answer, Refused
<1>2. ASSUME NEW p \in Publishes, Verify(p)
      PROVE  ConflictHasRow'
  BY <1>2 DEF Verify, Answer
<1>3. ASSUME NEW p \in Publishes, StoreBlob(p)
      PROVE  ConflictHasRow'
  BY <1>3 DEF StoreBlob
<1>4. ASSUME NEW p \in Publishes, WriteBlob(p)
      PROVE  ConflictHasRow'
  BY <1>4 DEF WriteBlob
<1>5. ASSUME NEW p \in Publishes, WriteFails(p) \/ InsertFails(p)
      PROVE  ConflictHasRow'
  BY <1>5 DEF WriteFails, InsertFails, Answer
<1>6. ASSUME NEW p \in Publishes, Insert(p)
      PROVE  ConflictHasRow'
  BY <1>6 DEF Insert, Answer
<1>7. ASSUME NEW p \in Publishes, Created(p)
      PROVE  ConflictHasRow'
  BY <1>7 DEF Created, Answer
<1>8. ASSUME NEW d \in Downloads, GetArtifact(d)
      PROVE  ConflictHasRow'
  BY <1>8 DEF GetArtifact
<1>9. ASSUME NEW d \in Downloads, BlobExists(d)
      PROVE  ConflictHasRow'
  BY <1>9 DEF BlobExists
<1>10. ASSUME NEW d \in Downloads, ReadBlob(d)
      PROVE  ConflictHasRow'
  BY <1>10 DEF ReadBlob
<1>11. CASE Crash
  BY <1>11 DEF Crash
<1>12. CASE Finished \/ UNCHANGED vars
  BY <1>12 DEF Finished, vars
<1>13. QED
  BY <1>1, <1>2, <1>3, <1>4, <1>5, <1>6, <1>7, <1>8, <1>9, <1>10, <1>11, <1>12
     DEF Next, Publish, Download

\* The handler that holds the loop is the only one that writes, so another handler
\* finds a blob absent or in full.
LEMMA StepBlobs == TypeOK /\ OneInLoop /\ BlobsWhole /\ [Next]_vars => BlobsWhole'
<1> SUFFICES ASSUME TypeOK, OneInLoop, BlobsWhole, [Next]_vars PROVE BlobsWhole'
  OBVIOUS
<1> USE DEF TypeOK, InLoop, OneInLoop, BlobsWhole, Requests
<1>1. ASSUME NEW p \in Publishes, Check(p)
      PROVE  BlobsWhole'
  BY <1>1 DEF Check, Answer, Refused
<1>2. ASSUME NEW p \in Publishes, Verify(p)
      PROVE  BlobsWhole'
  BY <1>2 DEF Verify, Answer
<1>3. ASSUME NEW p \in Publishes, StoreBlob(p)
      PROVE  BlobsWhole'
  BY <1>3 DEF StoreBlob
<1>4. ASSUME NEW p \in Publishes, WriteBlob(p)
      PROVE  BlobsWhole'
  BY <1>4 DEF WriteBlob
<1>5. ASSUME NEW p \in Publishes, WriteFails(p) \/ InsertFails(p)
      PROVE  BlobsWhole'
  BY <1>5 DEF WriteFails, InsertFails, Answer
<1>6. ASSUME NEW p \in Publishes, Insert(p)
      PROVE  BlobsWhole'
  BY <1>6 DEF Insert, Answer
<1>7. ASSUME NEW p \in Publishes, Created(p)
      PROVE  BlobsWhole'
  BY <1>7 DEF Created, Answer
<1>8. ASSUME NEW d \in Downloads, GetArtifact(d)
      PROVE  BlobsWhole'
  BY <1>8 DEF GetArtifact
<1>9. ASSUME NEW d \in Downloads, BlobExists(d)
      PROVE  BlobsWhole'
  BY <1>9 DEF BlobExists
<1>10. ASSUME NEW d \in Downloads, ReadBlob(d)
      PROVE  BlobsWhole'
  BY <1>10 DEF ReadBlob
<1>11. CASE Crash
  BY <1>11 DEF Crash
<1>12. CASE Finished \/ UNCHANGED vars
  BY <1>12 DEF Finished, vars
<1>13. QED
  BY <1>1, <1>2, <1>3, <1>4, <1>5, <1>6, <1>7, <1>8, <1>9, <1>10, <1>11, <1>12
     DEF Next, Publish, Download

\* A download keeps what it has found: rows stay and blobs are never removed.
LEMMA StepFound == TypeOK /\ BlobsWhole /\ DownloadsFound /\ [Next]_vars => DownloadsFound'
<1> SUFFICES ASSUME TypeOK, BlobsWhole, DownloadsFound, [Next]_vars PROVE DownloadsFound'
  OBVIOUS
<1> USE DEF TypeOK, Requests, DownloadStates, BlobsWhole, DownloadsFound
<1>1. ASSUME NEW p \in Publishes, Check(p)
      PROVE  DownloadsFound'
  BY <1>1 DEF Check, Answer, Refused
<1>2. ASSUME NEW p \in Publishes, Verify(p)
      PROVE  DownloadsFound'
  BY <1>2 DEF Verify, Answer
<1>3. ASSUME NEW p \in Publishes, StoreBlob(p)
      PROVE  DownloadsFound'
  BY <1>3 DEF StoreBlob
<1>4. ASSUME NEW p \in Publishes, WriteBlob(p)
      PROVE  DownloadsFound'
  BY <1>4 DEF WriteBlob
<1>5. ASSUME NEW p \in Publishes, WriteFails(p) \/ InsertFails(p)
      PROVE  DownloadsFound'
  BY <1>5 DEF WriteFails, InsertFails, Answer
<1>6. ASSUME NEW p \in Publishes, Insert(p)
      PROVE  DownloadsFound'
  BY <1>6 DEF Insert, Answer
<1>7. ASSUME NEW p \in Publishes, Created(p)
      PROVE  DownloadsFound'
  BY <1>7 DEF Created, Answer
<1>8. ASSUME NEW d \in Downloads, GetArtifact(d)
      PROVE  DownloadsFound'
  BY <1>8 DEF GetArtifact
<1>9. ASSUME NEW d \in Downloads, BlobExists(d)
      PROVE  DownloadsFound'
  BY <1>9 DEF BlobExists
<1>10. ASSUME NEW d \in Downloads, ReadBlob(d)
      PROVE  DownloadsFound'
  <2>1. /\ dl'[d].at = "answered" /\ dl'[d].sha = dl[d].sha
        /\ \A e \in Downloads \ {d} : dl'[e] = dl[e]
        /\ UNCHANGED <<blobs, faults>>
    BY <1>10, ReadEffect
  <2>2. QED
    BY <2>1
<1>11. CASE Crash
  BY <1>11 DEF Crash
<1>12. CASE Finished \/ UNCHANGED vars
  BY <1>12 DEF Finished, vars
<1>13. QED
  BY <1>1, <1>2, <1>3, <1>4, <1>5, <1>6, <1>7, <1>8, <1>9, <1>10, <1>11, <1>12
     DEF Next, Publish, Download

\* A download's answer is the blob it has read.
LEMMA StepIntact ==
  TypeOK /\ DownloadsFound /\ DownloadsIntact /\ [Next]_vars => DownloadsIntact'
<1> SUFFICES ASSUME TypeOK, DownloadsFound, DownloadsIntact, [Next]_vars
             PROVE  DownloadsIntact'
  OBVIOUS
<1> USE DEF TypeOK, DownloadStates, DownloadsFound, DownloadsIntact
<1>1. ASSUME NEW p \in Publishes, Check(p)
      PROVE  DownloadsIntact'
  BY <1>1 DEF Check, Answer, Refused
<1>2. ASSUME NEW p \in Publishes, Verify(p)
      PROVE  DownloadsIntact'
  BY <1>2 DEF Verify, Answer
<1>3. ASSUME NEW p \in Publishes, StoreBlob(p)
      PROVE  DownloadsIntact'
  BY <1>3 DEF StoreBlob
<1>4. ASSUME NEW p \in Publishes, WriteBlob(p)
      PROVE  DownloadsIntact'
  BY <1>4 DEF WriteBlob
<1>5. ASSUME NEW p \in Publishes, WriteFails(p) \/ InsertFails(p)
      PROVE  DownloadsIntact'
  BY <1>5 DEF WriteFails, InsertFails, Answer
<1>6. ASSUME NEW p \in Publishes, Insert(p)
      PROVE  DownloadsIntact'
  BY <1>6 DEF Insert, Answer
<1>7. ASSUME NEW p \in Publishes, Created(p)
      PROVE  DownloadsIntact'
  BY <1>7 DEF Created, Answer
<1>8. ASSUME NEW d \in Downloads, GetArtifact(d)
      PROVE  DownloadsIntact'
  BY <1>8 DEF GetArtifact
<1>9. ASSUME NEW d \in Downloads, BlobExists(d)
      PROVE  DownloadsIntact'
  BY <1>9 DEF BlobExists
<1>10. ASSUME NEW d \in Downloads, ReadBlob(d)
      PROVE  DownloadsIntact'
  BY <1>10 DEF ReadBlob
<1>11. CASE Crash
  BY <1>11 DEF Crash
<1>12. CASE Finished \/ UNCHANGED vars
  BY <1>12 DEF Finished, vars
<1>13. QED
  BY <1>1, <1>2, <1>3, <1>4, <1>5, <1>6, <1>7, <1>8, <1>9, <1>10, <1>11, <1>12
     DEF Next, Publish, Download

-----------------------------------------------------------------------------
(* The invariant and what it says of answers, rows and downloads *)

\* An empty registry satisfies the invariant.
LEMMA InitInv == Init => IInv
BY DEF Init, IInv, TypeOK, OneInLoop, AnsweredOnce, OwnerHasRow, OneOwner, RowHasOwner,
       ConflictHasRow, BlobsWhole, DownloadsFound, DownloadsIntact, InLoop, Owns,
       Requests, DownloadStates

\* The invariant: a coordinate has one owner, whose row stands, and the blobs of
\* rows are whole, however publishes interleave and whenever the process stops.
THEOREM Invariance == Spec => []IInv
<1>1. IInv /\ [Next]_vars => IInv'
  BY StepType, StepLoop, StepAnswered, StepOwnerHasRow, StepOneOwner, StepRowHasOwner,
     StepConflict, StepBlobs, StepFound, StepIntact DEF IInv
<1>2. QED
  BY InitInv, <1>1, PTL DEF Spec

\* In every reachable state the answers that publishers have got are true: a 201
\* is for the content that the coordinate then has and went to one client only,
\* a 409 is due to another publish that has got the coordinate (publish_artifact,
\* insert_artifact), however publishes interleave and whenever the process is
\* killed.
THEOREM AnswersTrue == Spec => []AnswersAreTrue
<1>1. IInv => AnswersAreTrue
  <2> SUFFICES ASSUME IInv, NEW p \in Publishes
               PROVE  LET rivals == {q \in Publishes \ {p} : req[q].coord = req[p].coord}
                      IN /\ answer[p] = "201" =>
                              /\ rows[req[p].coord] = req[p].content
                              /\ \A q \in rivals : answer[q] # "201"
                         /\ answer[p] = "409" =>
                              \E q \in rivals :
                                /\ rows[req[p].coord] = req[q].content
                                /\ at[q] = "created" \/ answer[q] \in {"201", "lost"}
    BY DEF AnswersAreTrue
  <2> DEFINE rivals == {q \in Publishes \ {p} : req[q].coord = req[p].coord}
  <2>1. ASSUME answer[p] = "201"
        PROVE  /\ rows[req[p].coord] = req[p].content
               /\ \A q \in rivals : answer[q] # "201"
    BY <2>1 DEF IInv, OwnerHasRow, OneOwner, Owns
  <2>2. ASSUME answer[p] = "409"
        PROVE  \E q \in rivals :
                 /\ rows[req[p].coord] = req[q].content
                 /\ at[q] = "created" \/ answer[q] \in {"201", "lost"}
    <3>1. req[p].coord \in Coordinates /\ rows[req[p].coord] # NoRow
      BY <2>2 DEF IInv, TypeOK, Requests, ConflictHasRow
    <3>2. PICK q \in Publishes :
            Owned(q) /\ req[q] = [coord |-> req[p].coord,
                                  content |-> rows[req[p].coord], kind |-> "good"]
      BY <3>1 DEF IInv, RowHasOwner
    <3>3. at[p] = "answered"
      BY <2>2 DEF IInv, AnsweredOnce
    <3>4. q # p
      BY <2>2, <3>2, <3>3 DEF Owned, Owns
    <3>5. QED
      BY <3>2, <3>4 DEF Owned, Owns
  <2>3. QED
    BY <2>1, <2>2
<1>2. QED
  BY Invariance, <1>1, PTL

\* Every row has a verified publish behind it and, as long as nothing fails, its
\* blob is on the disk in full (store_blob before insert_artifact).
THEOREM RowsAreSound == Spec => []RowsSound
<1>1. IInv => RowsSound
  <2> SUFFICES ASSUME IInv, NEW c \in Coordinates, rows[c] # NoRow
               PROVE  /\ \E p \in Publishes :
                           req[p] = [coord |-> c, content |-> rows[c], kind |-> "good"]
                      /\ faults = 0 => blobs[rows[c]] = "full"
    BY DEF RowsSound
  <2>1. QED
    BY DEF IInv, RowHasOwner, BlobsWhole
<1>2. QED
  BY Invariance, <1>1, PTL

\* As long as nothing fails a download of a published coordinate gets the whole
\* body, or a 404 when the body is empty (fetch_blob).
THEOREM DownloadsAreIntact == Spec => []DownloadsIntact
<1>1. IInv => DownloadsIntact
  BY DEF IInv
<1>2. QED
  BY Invariance, <1>1, PTL

-----------------------------------------------------------------------------
(* The table implements the write-once store *)

\* A step of the registry publishes one coordinate that is not published yet, or
\* leaves all rows alone.
LEMMA StepStore == TypeOK /\ [Next]_vars => [Store!Next]_rows
<1> SUFFICES ASSUME TypeOK, [Next]_vars PROVE [Store!Next]_rows
  OBVIOUS
<1>1. ASSUME NEW p \in Publishes, Insert(p)
      PROVE  [Store!Next]_rows
  <2>1. req[p].coord \in Coordinates /\ req[p].content \in Contents
    BY DEF TypeOK, Requests
  <2>2. CASE rows[req[p].coord] = NoRow
    <3>1. Store!Publish(req[p].coord, req[p].content)
      BY <1>1, <2>2 DEF Insert, Store!Publish
    <3>2. QED
      BY <2>1, <3>1 DEF Store!Next
  <2>3. CASE rows[req[p].coord] # NoRow
    BY <1>1, <2>3 DEF Insert
  <2>4. QED
    BY <2>2, <2>3
<1>2. ASSUME NEW p \in Publishes,
             Check(p) \/ Verify(p) \/ StoreBlob(p) \/ WriteBlob(p) \/ WriteFails(p)
               \/ InsertFails(p) \/ Created(p)
      PROVE  UNCHANGED rows
  BY <1>2 DEF Check, Verify, StoreBlob, WriteBlob, WriteFails, InsertFails, Created
<1>3. ASSUME NEW d \in Downloads, Download(d)
      PROVE  UNCHANGED rows
  BY <1>3 DEF Download, GetArtifact, BlobExists, ReadBlob
<1>4. CASE Crash \/ Finished \/ UNCHANGED vars
  BY <1>4 DEF Crash, Finished, vars
<1>5. QED
  BY <1>1, <1>2, <1>3, <1>4 DEF Next, Publish

\* The artifacts table is a write-once store: a coordinate is published at most
\* once and keeps its content through everything the service does, kills and
\* failed writes included (UNIQUE(name, version), README.md:63).
THEOREM WriteOnce == Spec => StoreSpec
<1>1. Init => Store!Init
  BY DEF Init, Store!Init
<1>2. IInv => TypeOK
  BY DEF IInv
<1>3. QED
  BY Invariance, <1>1, <1>2, StepStore, PTL DEF Spec, StoreSpec, Store!Spec
=============================================================================
