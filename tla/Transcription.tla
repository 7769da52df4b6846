--------------------------- MODULE Transcription ---------------------------
(***************************************************************************)
(* Transcription of one recording: TranscriptionService.request, which     *)
(* writes two rows and then adds a job to the BullMQ queue, and            *)
(* TranscriptionProcessor, the worker that takes one job at a time and     *)
(* writes the two rows again at every stage.  Requests, the worker, the    *)
(* upload of further chunks and the deletion of the recording interleave   *)
(* at every await.                                                         *)
(*                                                                         *)
(* The status is kept twice, in the transcript and in the recording.  A    *)
(* text is known by the job whose run returned it.                         *)
(***************************************************************************)
EXTENDS Integers, FiniteSets

CONSTANTS
  Job,          \* bound: jobs ever queued
  Channel, MaxChunks,  \* bound: chunks committed per channel
  Attempts,     \* of a job (3 in the code)
  DbFaults,     \* may a database or storage call fail?
  QueueFaults,  \* may Redis refuse a job?
  ServerDies    \* may the process, worker and handlers, be restarted?

ASSUME TranscriptionAssumption ==
  /\ Job \subseteq Nat /\ IsFiniteSet(Job) /\ MaxChunks \in Nat
  /\ Attempts \in Nat \ {0}
  /\ DbFaults \in BOOLEAN /\ QueueFaults \in BOOLEAN /\ ServerDies \in BOOLEAN

VARIABLES
  chunks,       \* committed chunks of each channel
  transcript,   \* the transcript row: its status and text
  recStatus,    \* recording.transcriptStatus, "deleted" without the row
  summary,      \* is there a summary row?
  request,      \* how many requests have the status, or the job, still to write
  jobs,         \* the queue: state, failed attempts and stalls of each job
  worker,       \* the job that runs and the statement it is at
  faulted       \* history: a call failed or the process died

rowVars == <<chunks, transcript, recStatus, summary>>
trVars == <<chunks, transcript, recStatus, summary, request, jobs, worker,
            faulted>>

Exists == recStatus # "deleted"
Idle == [job |-> {}, at |-> "idle"]
Stages ==
  {"mark", "markRec", "assemble", "drive", "store", "storeRec", "summary"}
Statuses == {"queued", "processing", "completed", "failed"}

TypeOK ==
  /\ chunks \in [Channel -> 0..MaxChunks]
  /\ transcript \in [status : Statuses \cup {"none"}, text : SUBSET Job]
  /\ recStatus \in Statuses \cup {"none", "deleted"}
  /\ summary \in BOOLEAN
  /\ request \in [{"status", "enqueue"} -> Nat]
  /\ jobs \in [Job -> [state : {"unused", "waiting", "active", "done", "dead"},
                       failed : 0..Attempts, stalled : 0..1]]
  /\ worker \in [job : SUBSET Job,
                 at : Stages \cup {"idle", "fail", "failRec", "giveUp",
                                  "giveUpRec"}]
  /\ faulted \in BOOLEAN

TranscriptionInit ==
  /\ chunks = [c \in Channel |-> 0]
  /\ transcript = [status |-> "none", text |-> {}]
  /\ recStatus = "none" /\ summary = FALSE
  /\ request = [s \in {"status", "enqueue"} |-> 0]
  /\ jobs = [j \in Job |-> [state |-> "unused", failed |-> 0, stalled |-> 0]]
  /\ worker = Idle /\ faulted = FALSE

-----------------------------------------------------------------------------
(* TranscriptionService.request.  The rows of a recording that was deleted *)
(* are gone, and an update or an upsert of them throws.                    *)

\* (mutant) the text of an earlier run is dropped
ResetTranscript(s) == transcript' = [status |-> s, text |-> {}]

\* The transcript is created or set back to 'queued'; its text stays.
SetTranscript(s) == transcript' = [transcript EXCEPT !.status = s]

Pending == request["status"] + request["enqueue"]
Unused(j) == jobs[j].state = "unused"

\* findUnique and the upsert.
Request ==
  /\ Exists
  /\ Pending < Cardinality({j \in Job : Unused(j)})
  /\ SetTranscript("queued")
  /\ request' = [request EXCEPT !["status"] = @ + 1]
  /\ UNCHANGED <<chunks, recStatus, summary, jobs, worker, faulted>>

RequestStatus ==
  /\ request["status"] > 0
  /\ \/ /\ Exists /\ recStatus' = "queued"
        /\ request' = [request EXCEPT !["status"] = @ - 1, !["enqueue"] = @ + 1]
     \/ /\ ~Exists /\ UNCHANGED recStatus
        /\ request' = [request EXCEPT !["status"] = @ - 1]
  /\ UNCHANGED <<chunks, transcript, summary, jobs, worker, faulted>>

\* queue.add; every page asks for a summary too (api.ts requestTranscription).
Enqueue ==
  /\ request["enqueue"] > 0
  /\ \E j \in Job :
       /\ \A i \in Job : Unused(i) <=> i >= j
       /\ jobs' = [jobs EXCEPT ![j].state = "waiting"]
  /\ request' = [request EXCEPT !["enqueue"] = @ - 1]
  /\ UNCHANGED <<rowVars, worker, faulted>>

\* The statuses are written by then: nothing takes them back.
RequestFails ==
  /\ \E s \in {"status", "enqueue"} :
       /\ IF s = "status" THEN DbFaults ELSE QueueFaults
       /\ request[s] > 0 /\ request' = [request EXCEPT ![s] = @ - 1]
  /\ faulted' = TRUE
  /\ UNCHANGED <<rowVars, jobs, worker>>

-----------------------------------------------------------------------------
(* TranscriptionProcessor.process.                                         *)

At(s) == worker.at = s
Goto(s) == worker' = [worker EXCEPT !.at = s]

\* BullMQ runs one job at a time; one that waits for its backoff may be
\* overtaken by a later one.  Without a driver, in a process started with
\* another configuration, the job fails at once and for good.
Take(j) ==
  /\ worker = Idle /\ jobs[j].state = "waiting"
  /\ jobs' = [jobs EXCEPT ![j].state = "active"]
  /\ \E at \in {"mark", "giveUp"} : worker' = [job |-> {j}, at |-> at]
  /\ UNCHANGED <<rowVars, request, faulted>>

\* A write of the transcript, then one of the recording; without the rows
\* the first throws, and so does the second.
WriteTranscript(at, s, next, broken) ==
  /\ At(at)
  /\ \/ Exists /\ SetTranscript(s) /\ Goto(next)
     \/ ~Exists /\ UNCHANGED transcript /\ Goto(broken)
  /\ UNCHANGED <<chunks, recStatus, summary, request, jobs, faulted>>

WriteRecording(at, s, next, broken) ==
  /\ At(at)
  /\ \/ Exists /\ recStatus' = s /\ Goto(next)
     \/ ~Exists /\ UNCHANGED recStatus /\ Goto(broken)
  /\ UNCHANGED <<chunks, transcript, summary, request, jobs, faulted>>

Mark == WriteTranscript("mark", "processing", "markRec", "fail")
MarkRec == WriteRecording("markRec", "processing", "assemble", "fail")

\* assembleAudio: without a chunk the job fails for good.
Assemble ==
  /\ At("assemble")
  /\ Goto(IF \E c \in Channel : chunks[c] > 0 THEN "drive" ELSE "giveUp")
  /\ UNCHANGED <<rowVars, request, jobs, faulted>>

\* driver.transcribe, a service outside, returns a text or throws.
Drive ==
  /\ At("drive")
  /\ Goto("store") \/ Goto("fail")
  /\ UNCHANGED <<rowVars, request, jobs, faulted>>

\* (mutant) the recording is marked before the text is stored
StoreLast ==
  /\ At("store") /\ Exists
  /\ recStatus' = "completed" /\ Goto("storeRec")
  /\ UNCHANGED <<chunks, transcript, summary, request, jobs, faulted>>

Store ==
  /\ At("store")
  /\ \/ Exists /\ transcript' = [status |-> "completed", text |-> worker.job]
        /\ Goto("storeRec")
     \/ ~Exists /\ UNCHANGED transcript /\ Goto("fail")
  /\ UNCHANGED <<chunks, recStatus, summary, request, jobs, faulted>>

StoreRec == WriteRecording("storeRec", "completed", "summary", "fail")
\* The job is over.
End(state) ==
  /\ jobs' = [j \in Job |-> IF j \notin worker.job THEN jobs[j] ELSE
                [jobs[j] EXCEPT !.state = state]]
  /\ worker' = Idle

\* A summarizer that throws is replaced by the heuristic one.
Summarize ==
  /\ At("summary")
  /\ \/ Exists /\ summary' = TRUE /\ End("done")
     \/ ~Exists /\ Goto("fail") /\ UNCHANGED <<summary, jobs>>
  /\ UNCHANGED <<chunks, transcript, recStatus, request, faulted>>

\* A statement of the try block throws.
Throw ==
  /\ DbFaults /\ worker.at \in Stages
  /\ Goto("fail") /\ faulted' = TRUE
  /\ UNCHANGED <<rowVars, request, jobs>>

AfterFailure(j) == IF jobs[j].failed + 1 < Attempts THEN "waiting" ELSE "dead"

\* (mutant) the attempts of a job are not counted
RetryForEver ==
  /\ jobs' = [j \in Job |-> IF j \notin worker.job THEN jobs[j] ELSE
                [jobs[j] EXCEPT !.state = "waiting"]]
  /\ worker' = Idle

\* The error goes to BullMQ, which tries the job again after a backoff.
Rethrow ==
  /\ jobs' = [j \in Job |-> IF j \notin worker.job THEN jobs[j] ELSE
                [jobs[j] EXCEPT !.failed = @ + 1, !.state = AfterFailure(j)]]
  /\ worker' = Idle

Return == IF worker.at \in {"fail", "failRec"} THEN Rethrow ELSE End("done")

\* fail(): setStatus('failed') of both rows.  Its own failure is swallowed;
\* the catch block then throws the error on, a job without audio is done.
FailTranscript ==
  /\ worker.at \in {"fail", "giveUp"}
  /\ \/ /\ Exists /\ SetTranscript("failed") /\ UNCHANGED <<jobs, faulted>>
        /\ Goto(IF At("fail") THEN "failRec" ELSE "giveUpRec")
     \/ ~Exists /\ Return /\ UNCHANGED <<transcript, faulted>>
     \/ DbFaults /\ Return /\ faulted' = TRUE /\ UNCHANGED transcript
  /\ UNCHANGED <<chunks, recStatus, summary, request>>

\* (mutant) only the transcript is marked
FailHalf ==
  /\ worker.at \in {"failRec", "giveUpRec"}
  /\ Return
  /\ UNCHANGED <<chunks, transcript, recStatus, summary, request, faulted>>

FailRecording ==
  /\ worker.at \in {"failRec", "giveUpRec"}
  /\ Return
  /\ \/ Exists /\ recStatus' = "failed" /\ UNCHANGED faulted
     \/ ~Exists /\ UNCHANGED <<recStatus, faulted>>
     \/ DbFaults /\ faulted' = TRUE /\ UNCHANGED recStatus
  /\ UNCHANGED <<chunks, transcript, summary, request>>

-----------------------------------------------------------------------------
(* The rest of the world.                                                  *)

\* The process is restarted: its requests are gone, and BullMQ gives a stalled
\* job to a worker once more, and fails it when it stalls again.
Restart ==
  /\ ServerDies
  /\ worker # Idle \/ Pending > 0
  /\ jobs' = [j \in Job |-> IF j \notin worker.job THEN jobs[j] ELSE
                IF jobs[j].stalled = 0
                  THEN [jobs[j] EXCEPT !.stalled = 1, !.state = "waiting"]
                  ELSE [jobs[j] EXCEPT !.state = "dead"]]
  /\ worker' = Idle
  /\ request' = [s \in {"status", "enqueue"} |-> 0]
  /\ faulted' = TRUE
  /\ UNCHANGED rowVars

\* Another chunk is committed (ChunkLedger).
Commit(c) ==
  /\ Exists /\ chunks[c] < MaxChunks
  /\ chunks' = [chunks EXCEPT ![c] = @ + 1]
  /\ UNCHANGED <<transcript, recStatus, summary, request, jobs, worker,
                 faulted>>

\* RecordingsService.remove: the rows go by cascade.
Delete ==
  /\ Exists
  /\ chunks' = [c \in Channel |-> 0]
  /\ transcript' = [status |-> "none", text |-> {}]
  /\ recStatus' = "deleted" /\ summary' = FALSE
  /\ UNCHANGED <<request, jobs, worker, faulted>>

-----------------------------------------------------------------------------
Process ==
  \/ Mark \/ MarkRec \/ Assemble \/ Drive \/ Store \/ StoreRec \/ Summarize
  \/ FailTranscript \/ FailRecording
  \/ \E j \in Job : Take(j)

TranscriptionNext ==
  \/ Request \/ RequestStatus \/ Enqueue \/ RequestFails
  \/ Process \/ Throw \/ Restart \/ Delete
  \/ \E c \in Channel : Commit(c)

TranscriptionSpec == TranscriptionInit /\ [][TranscriptionNext]_trVars

\* The worker runs as long as it has a job; nobody else owes a step.
FairTranscription == TranscriptionSpec /\ WF_trVars(Process)

-----------------------------------------------------------------------------
Live(j) == jobs[j].state \in {"waiting", "active"}
Quiet == (\A j \in Job : ~Live(j)) /\ Pending = 0

\* When nothing is under way and no call failed, the library's status and the
\* viewer's say the same, and nobody waits for a transcript that no job will
\* write: whatever requests, retries and commits were interleaved
\* (transcription.service.ts request, transcription.processor.ts process).
QuietIsSettled ==
  Quiet /\ ~faulted /\ Exists =>
    recStatus = transcript.status /\ recStatus \notin {"queued", "processing"}

\* A recording whose status is 'completed', or that has a summary, has its
\* text, also between the writes of a job and after any fault
\* (transcription.processor.ts process).
CompletedHasText ==
  summary \/ "completed" \in {recStatus, transcript.status} =>
    transcript.text # {}

\* Every job that was queued ends (transcription.service.ts attempts: 3).
JobsEnd == \A j \in Job : Live(j) ~> ~Live(j)

\* The transcript row is a TranscriptLifecycle.
Lifecycle == INSTANCE TranscriptLifecycle WITH
  Text <- Job, text <- transcript.text,
  status <- IF Exists THEN transcript.status ELSE "deleted"

ImplementsLifecycle == Lifecycle!TSpec

=============================================================================
