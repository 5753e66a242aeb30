------------------------------- MODULE Registry -------------------------------
(***************************************************************************)
(* The artifact registry (registry/main.py, metadata.py, storage.py):      *)
(* publish handlers that interleave on one event loop, downloads on the    *)
(* thread pool, the SQLite table and the blob files.                       *)
(*                                                                         *)
(* A publish handler is a coroutine: it has the event loop to itself from  *)
(* its start to "await file.read()", and again from there to its end.  The *)
(* second stretch is split where the disk changes, because downloads run   *)
(* beside it and the process may be killed inside it.                      *)
(*                                                                         *)
(* SHA-256 is taken to be injective, so a blob's name is its content.      *)
(***************************************************************************)
EXTENDS Integers, FiniteSets

CONSTANTS
  Publishes,     \* the publish requests sent to the registry
  Downloads,     \* the download requests sent to the registry
  Coordinates,   \* pairs (name, version)
  Contents,      \* artifact bodies
  Empty,         \* the zero-byte body, or no body of this instance
  NoRow, Nobody, \* "no such row" and "no handler"
  MAX_FAULTS     \* bound on kills and failed writes

ASSUME NoRowAssumption == NoRow \notin Contents
ASSUME NobodyAssumption == Nobody \notin Publishes
ASSUME FaultsAssumption == MAX_FAULTS \in Nat

VARIABLES
  rows,      \* table artifacts: coordinate -> sha256 (durable)
  blobs,     \* blob file per content: absent, partial or full (durable)
  req,       \* what each publish request carries
  at,        \* where each publish handler is
  answer,    \* the HTTP status the client of a publish sees
  loop,      \* the handler that has the event loop
  dl,        \* the coordinate and the progress of each download
  faults     \* kills and failed writes so far

vars == <<rows, blobs, req, at, answer, loop, dl, faults>>
disk == <<rows, blobs>>

HttpStatuses == {"201", "400", "401", "409", "500"}

\* "refused" stands for a bad token or version, "mismatch" for a declared
\* checksum that is not the body's.
Requests == [coord : Coordinates, content : Contents,
             kind : {"good", "mismatch", "refused"}]

\* A download first reads the row, then looks for the blob, then reads it.
DownloadStates ==
  [coord : Coordinates, sha : Contents \cup {NoRow},
   at : {"idle", "row", "blob", "answered"},
   body : {"none", "404", "partial", "full"}]

Init ==
  /\ rows = [c \in Coordinates |-> NoRow]
  /\ blobs = [x \in Contents |-> "absent"]
  /\ req \in [Publishes -> Requests]
  /\ at = [p \in Publishes |-> "idle"]
  /\ answer = [p \in Publishes |-> "none"]
  /\ loop = Nobody
  /\ dl \in [Downloads -> {d \in DownloadStates :
                             d.at = "idle" /\ d.sha = NoRow /\ d.body = "none"}]
  /\ faults = 0

-----------------------------------------------------------------------------
(* POST /artifacts/{name}/{version} *)

Answer(p, a) ==
  /\ answer' = [answer EXCEPT ![p] = a]
  /\ at' = [at EXCEPT ![p] = "answered"]

\* require_auth finds no token with the hash of the one sent, or is_valid_semver
\* does not take the version.
Refused(p) == req[p].kind = "refused"

\* The token, the version and the existing row are checked; then the handler
\* gives the loop away at "await file.read()".
Check(p) ==
  /\ at[p] = "idle"
  /\ loop = Nobody
  /\ \/ /\ Refused(p)
        /\ Answer(p, "401") \/ Answer(p, "400")
     \/ /\ ~ Refused(p) /\ rows[req[p].coord] # NoRow
        /\ Answer(p, "409")
     \/ /\ ~ Refused(p) /\ rows[req[p].coord] = NoRow
        /\ at' = [at EXCEPT ![p] = "reading"]
        /\ UNCHANGED answer
  /\ UNCHANGED <<disk, req, loop, dl, faults>>

\* Mutant: the declared checksum is not compared.
VerifyNothing(p) ==
  /\ at[p] = "reading"
  /\ loop = Nobody
  /\ at' = [at EXCEPT ![p] = "store"]
  /\ loop' = p
  /\ UNCHANGED <<disk, req, answer, dl, faults>>

\* Mutant: the rest of the handler runs on a pool thread, off the event loop.
VerifyOffLoop(p) ==
  /\ at[p] = "reading"
  /\ \/ req[p].kind = "mismatch" /\ Answer(p, "400")
     \/ /\ req[p].kind = "good"
        /\ at' = [at EXCEPT ![p] = "store"]
        /\ UNCHANGED answer
  /\ UNCHANGED <<disk, req, loop, dl, faults>>

\* The body is there: verify_checksum.
Verify(p) ==
  /\ at[p] = "reading"
  /\ loop = Nobody
  /\ \/ /\ req[p].kind = "mismatch"
        /\ Answer(p, "400")
        /\ UNCHANGED loop
     \/ /\ req[p].kind = "good"
        /\ at' = [at EXCEPT ![p] = "store"]
        /\ loop' = p
        /\ UNCHANGED answer
  /\ UNCHANGED <<disk, req, dl, faults>>

\* store_blob: a blob that exists, in whatever state, is not written again;
\* write_bytes creates the file empty and then fills it.
StoreBlob(p) ==
  /\ at[p] = "store"
  /\ LET x == req[p].content IN
       \/ /\ blobs[x] # "absent"
          /\ at' = [at EXCEPT ![p] = "insert"]
          /\ UNCHANGED blobs
       \/ /\ blobs[x] = "absent"
          /\ blobs' = [blobs EXCEPT ![x] = IF x = Empty THEN "full" ELSE "partial"]
          /\ at' = [at EXCEPT ![p] = "write"]
  /\ UNCHANGED <<rows, req, answer, loop, dl, faults>>

WriteBlob(p) ==
  /\ at[p] = "write"
  /\ blobs' = [blobs EXCEPT ![req[p].content] = "full"]
  /\ at' = [at EXCEPT ![p] = "insert"]
  /\ UNCHANGED <<rows, req, answer, loop, dl, faults>>

\* write_bytes raises (a full disk): the file stays as far as it was written.
WriteFails(p) ==
  /\ at[p] = "write"
  /\ faults < MAX_FAULTS
  /\ faults' = faults + 1
  /\ Answer(p, "500")
  /\ loop' = Nobody
  /\ UNCHANGED <<disk, req, dl>>

\* Mutant: INSERT OR REPLACE.
InsertReplaces(p) ==
  /\ at[p] = "insert"
  /\ rows' = [rows EXCEPT ![req[p].coord] = req[p].content]
  /\ at' = [at EXCEPT ![p] = "created"]
  /\ UNCHANGED <<blobs, req, answer, loop, dl, faults>>

\* Mutant: a publish that loses the race tries again.
InsertRetries(p) ==
  /\ at[p] = "insert"
  /\ LET c == req[p].coord IN
       \/ rows[c] # NoRow /\ at' = [at EXCEPT ![p] = "store"] /\ UNCHANGED rows
       \/ /\ rows[c] = NoRow
          /\ rows' = [rows EXCEPT ![c] = req[p].content]
          /\ at' = [at EXCEPT ![p] = "created"]
  /\ UNCHANGED <<blobs, req, answer, loop, dl, faults>>

\* insert_artifact: UNIQUE(name, version) decides; the row is durable before
\* the handler answers.
Insert(p) ==
  /\ at[p] = "insert"
  /\ LET c == req[p].coord IN
       \/ /\ rows[c] # NoRow
          /\ Answer(p, "409")
          /\ loop' = Nobody
          /\ UNCHANGED rows
       \/ /\ rows[c] = NoRow
          /\ rows' = [rows EXCEPT ![c] = req[p].content]
          /\ at' = [at EXCEPT ![p] = "created"]
          /\ UNCHANGED <<answer, loop>>
  /\ UNCHANGED <<blobs, req, dl, faults>>

\* insert_artifact raises anything but the violation of UNIQUE (a locked
\* database, a full disk): no row, and the blob stays.
InsertFails(p) ==
  /\ at[p] = "insert"
  /\ faults < MAX_FAULTS
  /\ faults' = faults + 1
  /\ Answer(p, "500")
  /\ loop' = Nobody
  /\ UNCHANGED <<disk, req, dl>>

Created(p) ==
  /\ at[p] = "created"
  /\ Answer(p, "201")
  /\ loop' = Nobody
  /\ UNCHANGED <<disk, req, dl, faults>>

-----------------------------------------------------------------------------
(* GET /artifacts/{name}/{version} *)

GetArtifact(d) ==
  /\ dl[d].at = "idle"
  /\ LET row == rows[dl[d].coord] IN
       dl' = [dl EXCEPT ![d].sha = row,
                        ![d].at = IF row = NoRow THEN "answered" ELSE "row",
                        ![d].body = IF row = NoRow THEN "404" ELSE "none"]
  /\ UNCHANGED <<disk, req, at, answer, loop, faults>>

BlobExists(d) ==
  /\ dl[d].at = "row"
  /\ dl' = IF blobs[dl[d].sha] = "absent"
             THEN [dl EXCEPT ![d].at = "answered", ![d].body = "404"]
             ELSE [dl EXCEPT ![d].at = "blob"]
  /\ UNCHANGED <<disk, req, at, answer, loop, faults>>

\* "if not data": no bytes read are taken for no blob.
ReadBlob(d) ==
  /\ dl[d].at = "blob"
  /\ \/ /\ dl[d].sha # Empty
        /\ dl' = [dl EXCEPT ![d].at = "answered", ![d].body = blobs[dl[d].sha]]
     \/ /\ dl[d].sha = Empty \/ blobs[dl[d].sha] = "partial"
        /\ dl' = [dl EXCEPT ![d].at = "answered", ![d].body = "404"]
  /\ UNCHANGED <<disk, req, at, answer, loop, faults>>

-----------------------------------------------------------------------------

\* The process is killed and started again: the disk is what is left, the
\* clients of the requests in flight get no answer.
Crash ==
  /\ faults < MAX_FAULTS
  /\ faults' = faults + 1
  /\ answer' = [p \in Publishes |->
                  IF at[p] \in {"idle", "answered"} THEN answer[p] ELSE "lost"]
  /\ at' = [p \in Publishes |-> IF at[p] = "idle" THEN "idle" ELSE "answered"]
  /\ dl' = [d \in Downloads |->
              IF dl[d].at \in {"row", "blob"}
                THEN [dl[d] EXCEPT !.at = "answered"] ELSE dl[d]]
  /\ loop' = Nobody
  /\ UNCHANGED <<disk, req>>

Publish(p) == \/ Check(p) \/ Verify(p) \/ StoreBlob(p) \/ WriteBlob(p)
              \/ Insert(p) \/ Created(p)

Download(d) == GetArtifact(d) \/ BlobExists(d) \/ ReadBlob(d)

Finished ==
  /\ \A p \in Publishes : at[p] = "answered"
  /\ \A d \in Downloads : dl[d].at = "answered"
  /\ UNCHANGED vars

Next ==
  \/ \E p \in Publishes : Publish(p) \/ WriteFails(p) \/ InsertFails(p)
  \/ \E d \in Downloads : Download(d)
  \/ Crash
  \/ Finished

Spec == Init /\ [][Next]_vars

\* The event loop resumes every coroutine that is ready, the pool runs every
\* download.
Fairness == /\ \A p \in Publishes : WF_vars(Publish(p))
            /\ \A d \in Downloads : WF_vars(Download(d))

FairSpec == Spec /\ Fairness

-----------------------------------------------------------------------------
(* Properties *)

\* What a client is told of its publish is so, whoever else publishes and
\* whenever the process was killed (README.md:77): 201 for what the coordinate
\* then keeps, to one client only; 409 only when another publish has got the
\* coordinate, which may be one whose client never heard of it.
AnswersAreTrue ==
  \A p \in Publishes :
    LET rivals == {q \in Publishes \ {p} : req[q].coord = req[p].coord} IN
    /\ answer[p] = "201" =>
         /\ rows[req[p].coord] = req[p].content
         /\ \A q \in rivals : answer[q] # "201"
    /\ answer[p] = "409" =>
         \E q \in rivals :
           /\ rows[req[p].coord] = req[q].content
           /\ at[q] = "created" \/ answer[q] \in {"201", "lost"}

\* No row is without a verified upload behind it; and without kills and failed
\* writes its blob is on the disk in full before the row can be seen.
RowsSound ==
  \A c \in Coordinates : rows[c] # NoRow =>
    /\ \E p \in Publishes :
         req[p] = [coord |-> c, content |-> rows[c], kind |-> "good"]
    /\ faults = 0 => blobs[rows[c]] = "full"

\* Beside any publishes a download of a published coordinate gets the whole body
\* (fetch_blob), unless that is empty: then it is told that there is nothing.
DownloadsIntact ==
  \A d \in Downloads : dl[d].at = "answered" /\ dl[d].sha # NoRow /\ faults = 0 =>
    dl[d].body = IF dl[d].sha = Empty THEN "404" ELSE "full"

\* Every publish and every download under way ends with an answer to its client,
\* whatever the others do and whatever earlier kills have left on the disk, unless
\* something fails meanwhile: a killed request is not answered at all.
AllAnswered ==
  \A f \in 0 .. MAX_FAULTS :
    /\ \A p \in Publishes :
         at[p] # "answered" /\ faults = f ~> answer[p] \in HttpStatuses \/ faults > f
    /\ \A d \in Downloads :
         dl[d].at # "answered" /\ faults = f ~> dl[d].body # "none" \/ faults > f

\* The table is a write-once store.
Store == INSTANCE ArtifactStore
           WITH Coordinates <- Coordinates, Contents <- Contents, NoRow <- NoRow,
                rows <- rows
StoreSpec == Store!Spec

\* README.md:63 ("Server-side checksum verification on upload"): a publish
\* that is acknowledged has its body in the store.
AcceptedIsStored ==
  \A p \in Publishes : answer[p] = "201" => blobs[req[p].content] = "full"
=============================================================================
