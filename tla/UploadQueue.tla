---------------------------- MODULE UploadQueue ----------------------------
(***************************************************************************)
(* The upload of one recording: the page's UploadQueue (uploader.ts) and   *)
(* the parts of useRecorder that feed it, talking to the ChunkLedger over  *)
(* a network that may lose a request or its answer.  Chunks are numbered   *)
(* in the order in which the engine hands them over.                       *)
(***************************************************************************)
EXTENDS ChunkLedger

CONSTANTS
  Chunks,       \* bound: chunks that the engine hands over
  MaxAttempts,  \* MAX_ATTEMPTS: failures before a chunk is given up
  CommitField,  \* the field of the commit's body that names the recording
  NetFaults,    \* may a request or its answer be lost?
  PageMayDie,   \* may the page be closed or crash?
  MayRemove     \* may the user delete the recording from the library?

ASSUME ChunksAssumption == Chunks \in Nat /\ Key = 1..Chunks
ASSUME AttemptsAssumption == MaxAttempts \in Nat \ {0}
ASSUME FieldAssumption == CommitField \in {"sessionId", "recordingId"}
ASSUME PageAssumption ==
  NetFaults \in BOOLEAN /\ PageMayDie \in BOOLEAN /\ MayRemove \in BOOLEAN

VARIABLES
  session,      \* "new", "creating", then serverOk: "online" or "offline"
  page,         \* is the page open?
  ready,        \* chunks handed over so far
  local,        \* chunks in the recovery store
  queue,        \* UploadQueue.queue
  attempts,     \* attempts of the task at its head
  step,         \* the await that drain() is at
  conn,         \* the handler serving the page's request, if it awaits one
  reclaiming,   \* the chunk being deleted locally, if there is one
  done,         \* chunks reported to onUploaded
  givenUp,      \* chunks reported to onError
  stopped       \* has completeRecording been called?

clientVars == <<session, page, ready, local, queue, attempts, step, conn,
                reclaiming, done, givenUp, stopped>>
vars == <<ledgerVars, clientVars>>

Queued == {queue[i] : i \in 1..Len(queue)}
Taken == done \cup givenUp

ClientTypeOK ==
  /\ session \in {"new", "creating", "online", "offline"}
  /\ page \in {"open", "dead"}
  /\ ready \in 0..Chunks
  /\ local \subseteq Key
  /\ queue \in Seq(Key)
  /\ attempts \in 0..(MaxAttempts - 1)
  /\ step \in {"target", "put", "commit", "backoff", "reclaim"}
  /\ conn \subseteq Handler
  /\ reclaiming \subseteq Key
  /\ done \subseteq Key
  /\ givenUp \subseteq Key
  /\ stopped \in BOOLEAN

TypeOK == LedgerTypeOK /\ ClientTypeOK

Init ==
  /\ LedgerInit
  /\ session = "new" /\ page = "open"
  /\ ready = 0 /\ local = {}
  /\ queue = <<>> /\ attempts = 0 /\ step = "target"
  /\ conn = {} /\ reclaiming = {}
  /\ done = {} /\ givenUp = {} /\ stopped = FALSE

-----------------------------------------------------------------------------
(* A request of the page is served by handler h; what is not in ledgerVars *)
(* besides `handler` stays as it is.                                       *)

Sent(h, op, S) ==
  /\ h \notin conn
  /\ Accept(h, op, S)
  /\ UNCHANGED <<recording, rows, counted, pending, blob, acked>>

Answered(r) == \E h \in conn : handler[h] = Free(r)

-----------------------------------------------------------------------------
(* useRecorder.start: the recording is created on the server first; when   *)
(* that fails the session stays offline.                                   *)

SendCreate(h) ==
  /\ page = "open" /\ session = "new"
  /\ Sent(h, "create", {})
  /\ session' = "creating" /\ conn' = {h}
  /\ UNCHANGED <<page, ready, local, queue, attempts, step, reclaiming, done,
                 givenUp, stopped>>

CreateAnswered ==
  /\ session = "creating"
  /\ \/ Answered("ok") /\ session' = "online"
     \/ Answered("failed") /\ session' = "offline"
  /\ conn' = {}
  /\ UNCHANGED <<ledgerVars, page, ready, local, queue, attempts, step,
                 reclaiming, done, givenUp, stopped>>

\* The request does not arrive, or its answer does not.
CreateLost ==
  /\ NetFaults
  /\ page = "open" /\ session \in {"new", "creating"}
  /\ session' = "offline" /\ conn' = {}
  /\ UNCHANGED <<ledgerVars, page, ready, local, queue, attempts, step,
                 reclaiming, done, givenUp, stopped>>

-----------------------------------------------------------------------------
\* (mutant) a new chunk is uploaded before those that wait
EnqueueFirst(k) == queue' = <<k>> \o queue

Enqueue(k) == queue' = Append(queue, k)

\* onChunkReady: the chunk is durable locally, and queued if the recording
\* was created.
ChunkReady ==
  /\ page = "open" /\ session \in {"online", "offline"}
  /\ ready < Chunks
  /\ ready' = ready + 1
  /\ local' = local \cup {ready + 1}
  /\ IF session = "online" THEN Enqueue(ready + 1) ELSE UNCHANGED queue
  /\ UNCHANGED <<ledgerVars, session, page, attempts, step, conn, reclaiming,
                 done, givenUp, stopped>>

-----------------------------------------------------------------------------
(* UploadQueue.drain and upload: one task at a time, its three requests    *)
(* one after the other.                                                    *)

Uploading == page = "open" /\ queue # <<>> /\ step \in {"target", "put", "commit"}

\* A commit whose body does not name the recording is refused by the
\* ValidationPipe and reaches no handler.
Valid == step = "commit" => CommitField = "recordingId"

Send(h) ==
  /\ Uploading /\ conn = {} /\ Valid
  /\ Sent(h, step, {Head(queue)})
  /\ conn' = {h}
  /\ UNCHANGED <<session, page, ready, local, queue, attempts, step, reclaiming,
                 done, givenUp, stopped>>

\* (mutants) the local copy is deleted as soon as the bytes are sent; the
\* bytes are not sent; the copy that is deleted is that of the next task
ReclaimAfterPut ==
  \/ step = "target" /\ step' = "put" /\ UNCHANGED <<queue, attempts, reclaiming, done>>
  \/ /\ step = "put"
     /\ step' = "reclaim" /\ reclaiming' = {Head(queue)}
     /\ done' = done \cup {Head(queue)}
     /\ queue' = Tail(queue) /\ attempts' = 0
  \/ step = "commit" /\ UNCHANGED <<step, queue, attempts, reclaiming, done>>

SkipPut ==
  \/ step = "target" /\ step' = "commit" /\ UNCHANGED <<queue, attempts, reclaiming, done>>
  \/ /\ step = "commit"
     /\ step' = "reclaim" /\ reclaiming' = {Head(queue)}
     /\ done' = done \cup {Head(queue)}
     /\ queue' = Tail(queue) /\ attempts' = 0

ReclaimNext ==
  \/ step = "target" /\ step' = "put" /\ UNCHANGED <<queue, attempts, reclaiming, done>>
  \/ step = "put" /\ step' = "commit" /\ UNCHANGED <<queue, attempts, reclaiming, done>>
  \/ /\ step = "commit"
     /\ step' = "reclaim"
     /\ reclaiming' = IF Len(queue) = 1 THEN {} ELSE {queue[2]}
     /\ done' = done \cup {Head(queue)}
     /\ queue' = Tail(queue) /\ attempts' = 0

Advance ==
  \/ step = "target" /\ step' = "put" /\ UNCHANGED <<queue, attempts, reclaiming, done>>
  \/ step = "put" /\ step' = "commit" /\ UNCHANGED <<queue, attempts, reclaiming, done>>
  \/ /\ step = "commit"
     /\ step' = "reclaim" /\ reclaiming' = {Head(queue)}
     /\ done' = done \cup {Head(queue)}
     /\ queue' = Tail(queue) /\ attempts' = 0

Succeed ==
  /\ Uploading /\ Answered("ok")
  /\ conn' = {}
  /\ Advance
  /\ UNCHANGED <<ledgerVars, session, page, ready, local, givenUp, stopped>>

\* (mutant) the attempts of a task are not counted
RetryForever == step' = "backoff" /\ UNCHANGED <<queue, attempts, givenUp>>

\* The catch block of drain.
Retry ==
  IF attempts + 1 < MaxAttempts
    THEN step' = "backoff" /\ attempts' = attempts + 1 /\ UNCHANGED <<queue, givenUp>>
    ELSE /\ step' = "target" /\ attempts' = 0
         /\ queue' = Tail(queue) /\ givenUp' = givenUp \cup {Head(queue)}

Fail ==
  /\ conn' = {}
  /\ Retry
  /\ UNCHANGED <<ledgerVars, session, page, ready, local, reclaiming, done,
                 stopped>>

\* The request ends in an error answer.
Refused ==
  /\ Uploading
  /\ Answered("failed") \/ (conn = {} /\ ~Valid)
  /\ Fail

\* The request or its answer is lost; a handler that is serving it goes on.
Lost == NetFaults /\ Uploading /\ Fail

BackedOff ==
  /\ page = "open" /\ step = "backoff"
  /\ step' = "target"
  /\ UNCHANGED <<ledgerVars, session, page, ready, local, queue, attempts, conn,
                 reclaiming, done, givenUp, stopped>>

\* deleteChunk, whose failure is swallowed.
Reclaim ==
  /\ page = "open" /\ step = "reclaim"
  /\ local' \in {local, local \ reclaiming}
  /\ step' = "target" /\ reclaiming' = {}
  /\ UNCHANGED <<ledgerVars, session, page, ready, queue, attempts, conn, done,
                 givenUp, stopped>>

-----------------------------------------------------------------------------
\* useRecorder.stop: completeRecording, whose outcome is ignored.
Complete(h) ==
  /\ page = "open" /\ session \in {"online", "offline"} /\ ~stopped
  /\ stopped' = TRUE
  /\ Sent(h, "complete", {})
  /\ UNCHANGED <<session, page, ready, local, queue, attempts, step, conn,
                 reclaiming, done, givenUp>>

\* The user deletes the recording in the library, in this page or another.
Remove(h) ==
  /\ MayRemove /\ Exists
  /\ Sent(h, "remove", {})
  /\ UNCHANGED clientVars

\* The queue lived in memory; nothing enqueues its chunks again.
PageDies ==
  /\ PageMayDie
  /\ page = "open" /\ page' = "dead"
  /\ queue' = <<>> /\ attempts' = 0 /\ step' = "target"
  /\ conn' = {} /\ reclaiming' = {}
  /\ UNCHANGED <<ledgerVars, session, ready, local, done, givenUp, stopped>>

-----------------------------------------------------------------------------
Server == Serve /\ UNCHANGED clientVars

Client ==
  \/ CreateAnswered \/ CreateLost \/ ChunkReady
  \/ Succeed \/ Refused \/ Lost \/ BackedOff \/ Reclaim \/ PageDies
  \/ \E h \in Handler : SendCreate(h) \/ Send(h) \/ Complete(h) \/ Remove(h)

Next == Server \/ Client

Spec == Init /\ [][Next]_vars

\* A live page runs its queue and the server serves what it has accepted;
\* faults and the user owe nothing.
Fairness ==
  /\ \A h \in Handler : WF_vars(Step(h) /\ UNCHANGED clientVars)
  /\ SF_vars(\E h \in Handler : Send(h))
  /\ WF_vars(Succeed) /\ WF_vars(Refused)
  /\ WF_vars(BackedOff) /\ WF_vars(Reclaim)

FairSpec == Spec /\ Fairness

-----------------------------------------------------------------------------
(* Safety.                                                                 *)

\* Every chunk that the engine handed over is in the recovery store or in the
\* ledger, through lost answers, retries, orphaned handlers and restarts,
\* until the user deletes the recording (uploader.ts drain).
LocalOrCloud ==
  \A k \in 1..ready : k \in local \/ k \in rows \/ recording = "removed"

\* The ledger fills in the order of the recording: before a chunk all earlier
\* ones have been committed or given up, late commits of lost requests
\* included (uploader.ts drain).
UploadedInOrder ==
  \A k \in rows : \A j \in 1..(k - 1) : j \in rows \cup givenUp

\* A chunk that was given up keeps its local copy, also when a commit of one
\* of its lost requests is done later (uploader.ts drain, catch block).
GivenUpIsKept == givenUp \subseteq local

-----------------------------------------------------------------------------
(* The invariant that the three, and the refinement, rest on.              *)

\* The queue of a recording that was created holds the newest chunks in their
\* order; all older ones are done or given up, and not both.
Settled == ready - Len(queue)
QueueInOrder ==
  /\ Len(queue) <= ready
  /\ page = "open" /\ session = "online" =>
       /\ 1..Settled = Taken
       /\ \A i \in 1..Len(queue) : queue[i] = Settled + i
  /\ Taken \subseteq 1..ready /\ done \cap givenUp = {}

\* What drain() is doing fits the queue and the session.
DrainInStep ==
  /\ session \in {"new", "creating"} => ready = 0
  /\ page = "dead" \/ session # "online" => queue = <<>> /\ step = "target"
  /\ page = "dead" => conn = {}
  /\ step \in {"put", "commit", "backoff"} => queue # <<>>
  /\ step \in {"backoff", "reclaim"} => conn = {}
  /\ reclaiming \subseteq done /\ \A j, k \in reclaiming : j = k

\* Whoever serves the commit of the head has it in the ledger when it says so.
ServesHead(h) ==
  \/ handler[h].op = "commit" /\ handler[h].chunk = {Head(queue)}
  \/ handler[h] = Free("failed")
  \/ handler[h] = Free("ok") /\ Head(queue) \in acked

AnswersAreTrue == step = "commit" => \A h \in conn : ServesHead(h)

\* A commit under way, also one that the page no longer waits for, is of one
\* chunk, and what is older was committed or given up.
OlderSettled(k) == \A j \in 1..(k - 1) : j \in acked \cup givenUp
CommitsInOrder ==
  /\ \A h \in Handler : handler[h].op = "commit" =>
       \E k \in 1..ready : handler[h].chunk = {k} /\ OlderSettled(k)
  /\ \A k \in rows : OlderSettled(k)

\* Whatever left the recovery store had its commit answered.
DoneIsAcked ==
  /\ done \subseteq acked
  /\ 1..ready \subseteq local \cup done

\* Only the page creates the recording, once.
CreatedOnce ==
  /\ session = "new" => recording = "none" /\ Idle("remove") /\ Idle("create")
  /\ ~Idle("create") => recording = "none" /\ Idle("remove")
  /\ \A g, h \in Handler :
       handler[g].op = "create" /\ handler[h].op = "create" => g = h

\* With atomic PUTs a chunk's bytes are stored before its commit is sent, so no
\* commit, verified or not, makes a row without them.
ServesPut(h) ==
  \/ handler[h].op = "put" /\ handler[h].chunk = {Head(queue)}
  \/ handler[h] = Free("failed")
  \/ handler[h] = Free("ok") /\ blob[Head(queue)] = "whole"

PutBeforeCommit ==
  AtomicPut =>
    /\ rows \subseteq Whole
    /\ \A h \in Handler :
         /\ ~At(h, "put", "writing")
         /\ handler[h].op = "commit" => handler[h].chunk \subseteq Whole
    /\ step = "put" => \A h \in conn : ServesPut(h)
    /\ step = "commit" => blob[Head(queue)] = "whole"

\* The inductive invariant of page, network and server (uploader.ts drain).
UploadInv ==
  /\ QueueInOrder /\ DrainInStep /\ AnswersAreTrue /\ CommitsInOrder
  /\ DoneIsAcked /\ CreatedOnce /\ PutBeforeCommit

-----------------------------------------------------------------------------
(* Liveness.                                                               *)

\* A queued chunk does not stay queued: it is uploaded or reported to onError,
\* unless the page dies first (uploader.ts drain).
EnqueuedSettles ==
  \A k \in Key : k \in Queued ~> (k \in Taken \/ page = "dead")

-----------------------------------------------------------------------------
(* Refinement.                                                             *)

\* The page is one of the clients that ChunkLedger allows for: LedgerSpec is
\* a property of this module too, and so is whatever follows from it.

\* Page, network and server together keep the custody of the chunks: a chunk
\* is never without an owner (uploader.ts, chunks.service.ts).
Custody == INSTANCE ChunkCustody WITH
  stored <- 1..ready, local <- local, cloud <- rows,
  deleted <- recording = "removed"

ImplementsCustody == Custody!CSpec

-----------------------------------------------------------------------------
(* What the documentation says and the code does not do.                   *)

\* uploader.ts:29: the queue can "retry indefinitely", README.md:61: a laptop
\* "simply drains its queue when it reconnects" -- so no chunk is given up.
NothingGivenUp == givenUp = {}

=============================================================================
