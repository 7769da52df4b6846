------------------------------ MODULE Library ------------------------------
(***************************************************************************)
(* The library page for one recording: the list (Library.tsx) and the      *)
(* transcript viewer (TranscriptViewer.tsx), which polls while a           *)
(* transcription runs.  Answers arrive in any order, may be lost, and are  *)
(* stale by then: the worker goes on and the recording may be deleted.     *)
(* The list reads the status in the recording's row, the viewer the one in *)
(* the transcript's, which is written first.  What happens to the latter   *)
(* is what TranscriptLifecycle says; Transcription implements that.        *)
(***************************************************************************)
EXTENDS Integers

CONSTANTS
  Call,         \* bound: requests of the page in flight
  MaxRuns,      \* bound: transcription runs asked for
  Retries,      \* attempts of a run that fail before its last one
  NetFaults,    \* may a request, or its answer, be lost?
  ServerFaults, \* may queue.add, a write of a status or a whole run fail?
  MayDelete     \* may the recording be deleted?

ASSUME LibraryAssumption ==
  /\ MaxRuns \in Nat /\ Retries \in Nat /\ NetFaults \in BOOLEAN
  /\ ServerFaults \in BOOLEAN /\ MayDelete \in BOOLEAN

VARIABLES
  status, text, \* the transcript row
  copy,         \* recording.transcriptStatus
  runs,         \* jobs that are not over, runs asked for, failed attempts of one
  due,          \* what the worker has yet to write to the recording
  listed,       \* the status in the list, "deleted" if it has no such row
  view,         \* the status in the viewer, or "closed"
  calls         \* the page's requests

rowVars == <<status, text, copy>>
workerVars == <<runs, due>>
pageVars == <<listed, view>>
vars == <<rowVars, workerVars, pageVars, calls>>

Row == INSTANCE TranscriptLifecycle WITH Text <- {"text"}

Exists == status # "deleted"
Asks(kind) == [kind |-> kind, at |-> "sent", answer |-> "none"]
NoCall == [kind |-> "none", at |-> "free", answer |-> "none"]

Init ==
  /\ Row!TInit /\ copy = "none"
  /\ runs = [open |-> 0, asked |-> 0, failed |-> 0] /\ due = "none"
  /\ listed = "deleted" /\ view = "closed"
  /\ calls = [c \in Call |-> NoCall]

-----------------------------------------------------------------------------
(* The page's requests: sent, answered by the server, delivered.           *)

Ask(c, kind) == calls[c] = NoCall /\ calls' = [calls EXCEPT ![c] = Asks(kind)]
Answer(c, a) == calls' = [calls EXCEPT ![c].at = "answered", ![c].answer = a]
Asked(c, kinds) == calls[c].at = "sent" /\ calls[c].kind \in kinds

\* GET /recordings and /search leave out a recording that is gone, GET
\* /recordings/:id/transcript is 404 without its row.
ServeRead(c) ==
  /\ \/ Asked(c, {"list"}) /\ Answer(c, copy)
     \/ Asked(c, {"poll"})
        /\ Answer(c, IF status \in {"none", "deleted"} THEN "error" ELSE status)
  /\ UNCHANGED <<rowVars, workerVars, pageVars>>

\* POST /recordings/:id/transcribe writes the transcript, the recording, and
\* then adds the job.  The rows of a recording that is gone cannot be written.
Step(c, at) == calls' = [calls EXCEPT ![c].at = at]

MarkTranscript(c) ==
  /\ Asked(c, {"transcribe", "generate", "left"})
  /\ \/ ~Exists /\ Answer(c, "error") /\ UNCHANGED rowVars
     \/ Row!Requested /\ Step(c, "marked") /\ UNCHANGED copy
  /\ UNCHANGED <<workerVars, pageVars>>

MarkRecording(c) ==
  /\ calls[c].at = "marked"
  /\ \/ ~Exists /\ Answer(c, "error") /\ UNCHANGED copy
     \/ Exists /\ copy' = "queued" /\ Step(c, "queuing")
  /\ UNCHANGED <<status, text, workerVars, pageVars>>

Enqueue(c) ==
  /\ calls[c].at = "queuing" /\ Answer(c, "ok")
  /\ runs' = [runs EXCEPT !.open = @ + 1]
  /\ UNCHANGED <<rowVars, due, pageVars>>

\* What was written before stays: 'queued', and no job.
RequestFails(c) ==
  /\ ServerFaults /\ calls[c].at \in {"marked", "queuing"} /\ Answer(c, "error")
  /\ UNCHANGED <<rowVars, workerVars, pageVars>>

Serve(c) == ServeRead(c) \/ MarkTranscript(c) \/ MarkRecording(c) \/ Enqueue(c)

\* A request, or its answer, is lost.
CallFails(c) ==
  /\ NetFaults /\ calls[c].at \in {"sent", "answered"} /\ calls[c].answer # "error"
  /\ Answer(c, "error")
  /\ UNCHANGED <<rowVars, workerVars, pageVars>>

-----------------------------------------------------------------------------
(* Library.tsx.                                                            *)

\* load(): on mount, for a search.
Load(c) == view = "closed" /\ Ask(c, "list") /\ UNCHANGED <<rowVars, workerVars, pageVars>>

Listed(c, a) ==
  /\ listed' = IF a = "error" THEN listed ELSE a
  /\ calls' = [calls EXCEPT ![c] = NoCall]
  /\ UNCHANGED view

\* What the row of a recording offers.
Offers == IF listed = "deleted" THEN {}
          ELSE {"view"} \cup (IF listed = "none" THEN {"transcribe"} ELSE {})

AsksForRun == runs.asked < MaxRuns /\ runs' = [runs EXCEPT !.asked = @ + 1]

\* Nothing keeps the button from being clicked again.
Transcribe(c) ==
  /\ view = "closed" /\ "transcribe" \in Offers /\ AsksForRun
  /\ Ask(c, "transcribe") /\ UNCHANGED <<rowVars, due, pageVars>>

\* The list is loaded again after a request that was accepted.
Transcribed(c, a) ==
  /\ calls' = [calls EXCEPT ![c] = IF a = "error" THEN NoCall ELSE Asks("list")]
  /\ UNCHANGED pageVars

\* The viewer starts from the status in the list and loads the transcript.
Open(c) ==
  /\ view = "closed" /\ "view" \in Offers
  /\ view' = listed
  /\ Ask(c, "poll") /\ UNCHANGED <<rowVars, workerVars, listed>>

\* Answers for the viewer that was closed are dropped; the list is loaded.  A
\* run it has asked for goes on.
Close(c) ==
  /\ view # "closed" /\ calls[c] = NoCall /\ view' = "closed"
  /\ calls' = [d \in Call |->
       IF d = c THEN Asks("list")
       ELSE IF calls[d].kind = "poll" THEN NoCall
       ELSE IF calls[d].kind = "generate" THEN [calls[d] EXCEPT !.kind = "left"] ELSE calls[d]]
  /\ UNCHANGED <<rowVars, workerVars, listed>>

-----------------------------------------------------------------------------
(* TranscriptViewer.tsx.                                                   *)

\* What the viewer shows for its status.
Pane == CASE view = "none" -> "generate"
          [] view \in {"queued", "processing"} -> "spinner"
          [] view = "failed" -> "retry"
          [] view = "completed" -> "lines"
          [] OTHER -> "nothing"

\* (mutant) the interval runs for one of the two statuses only
PollingQueued == view = "queued"

\* An interval runs as long as the status is one of these.
Polling == view \in {"queued", "processing"}

Tick(c) == Polling /\ Ask(c, "poll") /\ UNCHANGED <<rowVars, workerVars, pageVars>>

\* (mutant) a transcript that does not load leaves the status as it is
KeepStatus(a) == IF a = "error" THEN view ELSE a

\* loadTranscript: what does not load is taken for not requested.
LoadedStatus(a) == IF a = "error" THEN "none" ELSE a

Loaded(c, a) ==
  /\ view' = LoadedStatus(a)
  /\ calls' = [calls EXCEPT ![c] = NoCall] /\ UNCHANGED listed

\* The button is disabled while its request is under way.
Generate(c) ==
  /\ Pane \in {"generate", "retry"} /\ (\A d \in Call : calls[d].kind # "generate")
  /\ AsksForRun /\ Ask(c, "generate") /\ UNCHANGED <<rowVars, due, pageVars>>

Generated(c, a) ==
  /\ view' = IF a = "error" THEN view ELSE "queued"
  /\ calls' = [calls EXCEPT ![c] = NoCall] /\ UNCHANGED listed

Deliver(c) ==
  /\ calls[c].at = "answered"
  /\ LET k == calls[c].kind  a == calls[c].answer IN
     \/ k = "list" /\ Listed(c, a)
     \/ k = "transcribe" /\ Transcribed(c, a)
     \/ k = "poll" /\ Loaded(c, a)
     \/ k = "generate" /\ Generated(c, a)
     \/ k = "left" /\ calls' = [calls EXCEPT ![c] = NoCall] /\ UNCHANGED pageVars
  /\ UNCHANGED <<rowVars, workerVars>>

-----------------------------------------------------------------------------
(* The worker, and the deletion through the API.                           *)

\* A write of the transcript, with that of the recording to come.
Writes(s) == due = "none" /\ due' = s /\ UNCHANGED <<copy, pageVars, calls>>

WorkerStarts ==
  /\ runs.open > 0 /\ status # "processing" /\ Row!Started
  /\ Writes("processing") /\ UNCHANGED runs

\* An attempt fails; BullMQ tries again.
AttemptFails ==
  /\ runs.open > 0 /\ runs.failed < Retries /\ Row!Failed
  /\ Writes("failed") /\ runs' = [runs EXCEPT !.failed = @ + 1]

RunEnds ==
  /\ runs.open > 0
  /\ \/ Row!Completed /\ Writes("completed")
     \/ Row!Failed /\ Writes("failed")
  /\ runs' = [runs EXCEPT !.open = @ - 1, !.failed = 0]

\* The second write, which fails without the row.
Copies ==
  /\ due # "none" /\ due' = "none"
  /\ \/ Exists /\ copy' = due
     \/ (ServerFaults \/ ~Exists) /\ UNCHANGED copy
  /\ UNCHANGED <<status, text, runs, pageVars, calls>>

\* A job that stalls twice, or whose fail() fails too, ends without a word, and
\* so does that of a recording that is gone.
RunDies ==
  /\ runs.open > 0 /\ (ServerFaults \/ ~Exists)
  /\ runs' = [runs EXCEPT !.open = @ - 1, !.failed = 0] /\ due' = "none"
  /\ UNCHANGED <<rowVars, pageVars, calls>>

Delete ==
  /\ MayDelete /\ Exists /\ Row!Deleted /\ copy' = "deleted"
  /\ UNCHANGED <<workerVars, pageVars, calls>>

-----------------------------------------------------------------------------
User(c) ==
  Load(c) \/ Transcribe(c) \/ Open(c) \/ Close(c) \/ Generate(c)

Worker == WorkerStarts \/ AttemptFails \/ RunEnds \/ Copies \/ RunDies

Next ==
  \/ \E c \in Call : User(c) \/ Tick(c) \/ Serve(c) \/ RequestFails(c) \/ CallFails(c) \/ Deliver(c)
  \/ Worker \/ Delete

\* Handlers go on, answers come, the interval fires, a job ends one way or the
\* other; the user owes nothing.
Fairness ==
  /\ \A c \in Call : WF_vars(Serve(c)) /\ WF_vars(Deliver(c))
  /\ SF_vars(\E c \in Call : Tick(c))
  /\ WF_vars(RunEnds \/ RunDies) /\ WF_vars(Copies)

FairSpec == Init /\ [][Next]_vars /\ Fairness

-----------------------------------------------------------------------------
\* The row says that a run is under way, and there is none: its job was never
\* queued, or ended without a word.
Abandoned ==
  /\ status \in {"queued", "processing"} /\ runs.open = 0
  /\ \A c \in Call : calls[c].at \notin {"marked", "queuing"}

\* The viewer does not say "Transcribing..." for ever: with answers lost,
\* delayed and overtaken, a second run requested meanwhile or the recording
\* deleted, the spinner ends, unless the row itself was abandoned by the
\* service (TranscriptViewer.tsx loadTranscript, the interval).
SpinnerEnds == Pane = "spinner" ~> Pane # "spinner" \/ Abandoned

=============================================================================
