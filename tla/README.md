# EchoVault: a TLA+ verification project

EchoVault records the audio of a browser tab and of the microphone, keeps every
chunk in IndexedDB before it is uploaded, uploads it to a NestJS backend, and
transcribes, searches and exports what arrived. This directory holds TLA+ modules
translated from that code, the TLC configurations that check them and the proofs
that TLAPS checks. `PROJECT.json` maps every definition to the source lines it
stands for, and lists the hazards of the code with the properties aimed at them.

## 1. Inventory

### Capture (packages/audio-engine, in the web page or the extension's offscreen document)

| Part | State it keeps | Operations | Talks to |
|---|---|---|---|
| `AudioRecorder` (recorder.ts) | engine state, rotation and level timers, pause clock, chunk count | `start`, `pause`, `resume`, `stop`, `dispose`, the rotation timer, `persistChunk` | its channel recorders (calls), the store (async requests), the app (events, `onChunkReady`) |
| `ChannelRecorder` (channel-recorder.ts) | `active`, `finalizing`, the current `MediaRecorder` | `start`, `rotate`, `pause`, `resume`, `stop`, `handleStop` (the stop event) | `MediaRecorder` (events), its `ChunkBuffer` |
| `ChunkBuffer` (chunk-buffer.ts) | parts, bytes, sequence, start offset | `addPart`, `rotate` | - |
| `RecoveryStore` (recovery-store.ts) | object stores `manifests` and `chunks` in IndexedDB, which survive a crash | put/get manifest, `markClosed` (get, then put), put/get/delete chunk, `deleteSession`, `listOpenSessions` | IndexedDB, shared with every open page of the app |
| `RecoveryManager` and the banner | the list read when a page opens | `findRecoverable`, `reassemble`, `discard` | the store |

Hard: five sources of events (timer, user, encoder events, track end, IndexedDB
answers) interleave around a stop event that arrives later than the `stop()` that
asked for it; a crash at any step; a second page; read-modify-write of the
manifest across two transactions. Right means: no audio vanishes, chunks
reassemble in order, a crash costs the newest audio and nothing older, upload
never precedes durability, a dead session is found and a closed one is not.

### Upload (apps/web) and the chunk ledger (apps/backend)

| Part | State | Operations | Talks to |
|---|---|---|---|
| `UploadQueue` (uploader.ts) | queue with attempts, `running` | `enqueue`, `drain`, `upload` (ticket, PUT, commit) | API client, the store |
| `ApiClient` (api.ts) | access and refresh token | `request` with one refresh on 401 | backend over HTTP |
| `useRecorder` | recorder, uploader and `serverOk` of the session | `start`, `stop`, `reset` | engine, queue, API |
| `ChunksService` | chunk rows, unique per recording, channel and sequence | `requestUploadTarget`, `storeBytes`, `commit` | storage, `RecordingsService` |
| `RecordingsService` | recording rows with sums and status | `create`, `complete`, `remove`, `recomputeStats` | database |
| Storage | bytes by key | put, get, delete | disk or S3 |

Hard: lost answers and retries, the attempt limit, commits that race with each
other, with `complete` and with `remove`. Right means: a local copy is deleted
only when the server has the bytes and the row, a retry changes nothing, the sums
agree with the rows, a chunk is not forgotten while it is only local.

### The record page and the extension

| Part | State | Operations | Talks to |
|---|---|---|---|
| `useRecorder`, `RecorderPanel` | `recorderRef`, status, `recordingId`; the recorders it made, which outlive it | start, pause, resume, stop, reset, unmounting | the user's permissions, the server, the recorder's events |
| service worker (background.ts) | capture state in memory, a copy in `chrome.storage.session`, the badge | `START_CAPTURE`, `STOP_CAPTURE`, `GET_STATE`, `OFFSCREEN_PROGRESS` | popup and offscreen document (messages); ended by the browser when idle |
| offscreen document, popup | one `recorder` variable, runs of `stopRecording`; the toggle | `OFFSCREEN_START`, `OFFSCREEN_STOP`, `onToggle` | the worker |

Hard: every `start()` and `stop()` goes on after an await with what is held by then; the
worker loses its memory; the document is closed by an earlier stop. Right means: what
records can be paused and stopped, the server is told of a completion only after the stop,
the clock and the chunks' offsets are those of the audio.

### Transcription, library, exports, session

| Part | State | Operations | Talks to |
|---|---|---|---|
| `TranscriptionService`, `TranscriptionProcessor` | the status, twice (`transcripts`, `recordings`), the segments, the summary; the BullMQ queue | request; a job with three attempts, each several writes | database, storage, driver, queue |
| `Library`, `TranscriptViewer` | the status in the list and in the viewer, the poll interval, the summary shown | load, transcribe, open, close, poll, generate | the API; answers in any order |
| `ExportService`, `exportWavClient` | none: an export is a sequence of reads | audio, transcript, notes, zip; WAV in the page | database, storage, ffmpeg |
| `AuthService`, `ApiClient` | `refresh_tokens`; the pair in memory and localStorage | register, login, refresh with rotation; any call with one refresh | each other |

Hard: a job that fails between two writes and is retried while another request is
served; a viewer that polls a row that changes under it; reads of one export with commits,
runs and a deletion between them; two calls that refresh with one token. Right means: the two
statuses agree once nothing is under way and a completed recording has its text; a spinner ends;
what is sent is whole and readable; a page that is signed in can renew its session.

`PROJECT.json` lists every component with its status, the rest of them under section 6.

## 2. Plan

Done, in this order: **CaptureEngine** with **DurableAudio**; **ChunkLedger**;
**UploadQueue** with **ChunkCustody**; **Reassembly** and **Recovery**; **Transcription** with
**TranscriptLifecycle**; **Library**; **TranscriptText** and **Exports**; **Session**;
**Timeline** and **Panel**; **Extension**; proof modules of CaptureEngine, ChunkLedger,
UploadQueue, Transcription, Panel, Extension, Session and Exports.

Next, in order of worth:

1. **CaptureToCloud**: the chunks that the engine hands over, the queue and the ledger in one
   module, against `DurableAudio` with the cloud as the second durable place.
2. Pure algorithms against reference definitions: paging of the search, key sanitising.

## 3. Modules

### CaptureEngine

One session, from the encoder to the local store. Audio is abstracted to
*samples*: the n-th piece a channel's encoder produces is the number n. A sample
moves

    held -> parts -> writes -> store -> reclaimed

that is: inside `MediaRecorder`, in `ChunkBuffer.parts`, in a `putChunk` that is
pending, in IndexedDB, uploaded and deleted locally. Chunks carry the set of their
samples, so order, loss and duplication of audio can be stated; sizes, offsets,
identifiers and MIME types are left out.

| Variables | Code |
|---|---|
| `engine`, `timers`, `stopPc`, `subscribed` | `AudioRecorder.state`, `rotationTimer`, the await `stop()` is at, whether `events.clear()` was called |
| `active`, `finalizing`, `mr`, `track` | fields of `ChannelRecorder`, the state of its `MediaRecorder` and track (`stopping` is `inactive` with the stop event still queued) |
| `held`, `parts`, `sequence`, `captured` | the encoder's buffer, `ChunkBuffer.parts` and `.sequence`, the encoder's progress |
| `writes`, `manifestQ` | pending `putChunk`s; pending requests on the manifests store |
| `manifest`, `store` | IndexedDB |
| `handed`, `reclaimed`, `reported`, `dropped`, `discarded`, `lost`, `banner` | what has been given to `onChunkReady`, deleted after upload, emitted as `error`, lost to a failed write, discarded in the banner, lost in memory by the crash; what a page offers |

Actions, one per handler: `Start` and `CreateManifest` (the two halves of `start()`
around its await, with both ways to fail), `Encode`, `DataAvailable`, `TrackEnds`
(the browser), `RotateAll` (the timer callback over all channels), `HandleStop`
(the stop event: final data, `ChunkBuffer.rotate`, `onChunk`, respawn), `Pause`,
`Resume`, `Stop`, `StopWaited`, `CloseRead`, `CloseWrite`, `CloseFails` (`stop()`
and `markClosed` between their awaits), `Dispose`, `PutChunk`, `PutChunkFails`,
`ReadManifest`, `WriteManifest`, `RefreshFails` (`persistChunk` between its
awaits), `Reclaim`, `Crash`, `FindRecoverable`, `Discard`.

What the environment may do:

- IndexedDB runs transactions on one object store in the order in which they were
  created when one of them writes. `manifestQ` is therefore a queue; chunk writes
  are ordered within a channel, and left unordered between channels, which
  allows more than the browser does. Any request may fail when `StoreFaults`.
- The stop event and its final `dataavailable` are queued in one task sequence
  and no other handler of the engine depends on what lies between, so `HandleStop`
  takes both. `rotate()` and `stop()` only ask for it.
- The 50 ms of `stop()` give no order: `StopWaited` may come before or after the
  stop events and their writes.
- `dispose()` is called only by `reset()` of `useRecorder`, which the page offers
  once the state is `stopped`. `markHandled` has no caller.
- `OtherTab` lets a second page of the app open during the recording.

### DurableAudio

What the engine promises, without chunks, timers, requests and manifests: a sample
is in memory when encoded, leaves memory once, oldest first, to the store or to a
failed write, and a crash takes exactly what is in memory. `CaptureEngine` implements
it under the mapping at `Abstract`.

### ChunkLedger

The backend's side of the upload of one recording. `recording`, `rows`, `counted` and
`pending` are the database: the recording's row, its chunk rows, the rows that
`durationMs` and `sizeBytes` were last summed over, and `hasPendingUploads`. `blob` says
of each storage key whether its bytes are whole, `acked` which commits were answered.
`handler` is what each request that is being served is doing: its kind, its chunk, the
await it is at, and the rows `recomputeStats` has read.

| Actions | Code |
|---|---|
| `Create`, `AssertOwned`, `Finish`, `Delete` | `create`; the ownership check that every other request starts with; the last await of `complete` and of `remove` |
| `PutObject`; `OpenFile`, `WriteFile` | PUT with the S3 driver (one step); with the local driver (`writeFile` truncates, then writes) |
| `CheckBytes`, `Upsert`, `ReadStats`, `WriteStats` | the awaits of `commit` and `recomputeStats` |
| `Break`, `Restart` | a database or storage call throws; the server process is restarted and its handlers are gone |

The database is trusted to run each statement atomically and to enforce the unique key,
the foreign key and the cascade of schema.prisma. The bytes of a chunk are the same in
every upload of it, so equality of checksums is wholeness of the stored bytes; with the
local driver two writers of one file seal the bytes under different IVs and may leave a mixture.
`Request` is any client: `LedgerSpec` makes no assumption on the order of the requests. It
assumes that commits carry their checksum, as the page's do, and that the id of a recording
is fresh (`crypto.randomUUID`): a recording that was deleted is not created again.

### UploadQueue

The page and the network, composed with the ledger: the module extends `ChunkLedger`, and
`Server` is its `Serve`. Chunks are numbered in the order in which the engine hands them
over.

| Variables | Code |
|---|---|
| `session` | where `useRecorder.start` is with `createRecording`, then `serverOk` (`online`, `offline`) |
| `ready`, `local` | chunks given to `onChunkReady`; chunks in the recovery store |
| `queue`, `attempts`, `step` | `UploadQueue.queue`, the attempts of its head, the await `drain` is at |
| `conn` | the handler that serves the request the page waits for |
| `reclaiming`, `done`, `givenUp` | the `deleteChunk` in flight; what went to `onUploaded` and to `onError` |
| `page`, `stopped` | is the page alive; was `completeRecording` called |

`drain` is one loop, so `step` is all of its control. `Send` starts one of the three requests of
`upload`; `Succeed` takes its answer and goes on (`Advance`); `Refused` and `Lost` go to the
catch block (`Retry`). After `Lost` a handler may go on serving a request that nobody waits
for: its commit can land later, during the retry or after the chunk was given up. A chunk is
removed from the queue before `deleteChunk`, as in the code. `Complete` is the request of `stop()`,
whose answer is ignored; `Remove` is the user in the library, at any time.

`CommitField` is the name of the field that carries the recording's id in the body of the
commit. The code sends `sessionId` (uploader.ts:95) and the DTO asks for `recordingId`, so
with the code's value no commit is ever accepted; the run `doc_commit_field` has that value. All
other runs have `recordingId`, the field API.md documents: they check the rest of the
protocol, which the mismatch would hide. The theorems hold for both values.

### ChunkCustody

What the upload promises, without queue, requests, handlers and retries: a stored chunk stays local
until the cloud has it, the cloud takes a chunk over only from a local copy and keeps it until the
user deletes the recording. `UploadQueue` implements it under the mapping at `Custody`.

### Reassembly and Recovery

`Reassembly` has the two algorithms that look at recovered chunks, `planReassembly` (the banner)
and `RecoveryManager.reassemble` (the download), as operators over a list of chunks. `Recovery` extends
the engine and applies them to the store in every reachable state, so their inputs are what
the engine, the reclaiming upload, a crash and a second page really leave. The loops are written without recursion, so that
they can be proved about: a sum of bytes is the size of a disjoint union (`Total`), the stable sort puts each chunk behind as many as
precede it (`Rank`), of the chunks with one number the last of the largest survives the loop (`Seen`). `GetChunks` is a set of lists:
the index fixes the order of the numbers and not that of two channels with the same number.

### Transcription and TranscriptLifecycle

One recording. `transcript`, `recStatus`, `summary` and `chunks` are the rows; `request` counts the
requests that still have a write or the `queue.add` to do; `jobs` is the BullMQ queue with failed
attempts and stalls; `worker` is the job that runs (concurrency 1) and the statement it is at. A text is known by
the job whose run returned it. Every database write is a step, each can throw (`Throw`, `RequestFails`,
the branches of `FailTranscript` and `FailRecording`), and `Restart` ends the process: BullMQ gives a stalled job to
a worker once more. `TranscriptLifecycle` is what readers may rely on: the text is replaced by
the text of a run and by nothing else, there is no completion without a text, and the row goes with the
recording. `Library` and `Exports` use that abstraction as their worker, `Transcription` implements it.

### Library

The list and the viewer for one recording. `calls` are the page's requests (sent, answered, delivered), so an
answer is as old as its delivery is late. `view` is the viewer's status, `Pane` what it renders;
`Tick` is the poll interval, which the effect keeps only while the status says a run is under way. A request for a
transcript is served statement by statement (`MarkTranscript`, `MarkRecording`, `Enqueue`); with `ServerFaults` it may fail between
them (`RequestFails`), the worker's second write may fail (`Copies`) and a run may end without a word (`RunDies`: a job that stalls twice,
or whose `fail()` fails too). Each leaves a row that says a run is under way when there is none: `Abandoned`. The page has no
means to see that, so its spinner keeps turning; `SpinnerEnds` says that nothing else keeps it turning, and with `ServerFaults = FALSE` TLC finds that it always
ends. Two answers that React handles in one rendering are delivered one after the other.

### TranscriptText and Exports

`TranscriptText` has the pure code as operators: speakers by gaps, the heuristic summary, the text, VTT, SRT and
Markdown documents, the PDF with its objects and pages, the viewer's grouping. A line of captions is a record of
what it is made of (a cue's times and words), a line of notes the sequence of its words, a word a sequence of letters, not empty: spaces in a row
count as one. A letter is one that the PDF can show, a question mark, or one outside Latin-1, which `Sanitize` turns into a question mark: `PdfReadsBack` says that
of every letter, and of nothing more. The notes have all their sections, what the user wrote included. What `wrapLine` puts on a line are pieces of words (`Piece`: which word of the line, from which letter to which), so that
`Spells` can tell whether a reader gets every letter once and in order. A block of the viewer has the segments up to which as many runs of
one speaker have begun as its number says.
`Exports` is an export as the sequence of its reads (`Reads`), with commits, runs, summaries and the
deletion in between; a document is built from what was read. `Transcode` gives ffmpeg what the code gives it, one file (`Inputs`) with the chunks of the
channel end to end. Each chunk is a WebM file of its own, and how many of them ffmpeg decodes is its own affair (`Decoded`: the first at least). `ExportsAreWhole`
is therefore about what an export was made from; that a converted one has all of it is what the comments say (`TranscodesAreContinuous`), and
nothing in the code sees to it: as an invariant of this model it is violated. The WAV that the page makes decodes the chunks one by one.

### Session

The API client, the sign-in screen and the auth service for one user of one page. A token is
the second it was issued in: the payload holds nothing else that differs, so two tokens of one
second are equal, as in the code. A call's record is where its `request()` is, through `tryRefresh`, and at the service between finding
the row, revoking it and issuing the next; of several live rows with one token, `findFirst` without an order finds any. `shape` is the shape of the refresh answer:
the service sends a flat pair (auth.service.ts:117) and the client reads `data.tokens` (api.ts:78),
so with the code's value no refresh ever succeeds (`doc_refresh`); `session` checks both shapes, so that the
mismatch does not hide the rest of the protocol. `misread` says that the page could not read the last pair it was granted: with the flat
shape every refresh ends so. A registration is two steps, the account and its first pair, and may fail between them (`SignInFails`).

`SessionSurvives` says that overlapping refreshes do not sign a page out among themselves. A signed-in page that can no longer renew its session has lost an answer
or met a failed write (`faulty`), could not read its last pair (`misread`), or two of the tokens were issued in one second. Of the code as it is, it says this: up to
its first refresh a page is safe whatever happens beside it, and the answer's shape is what ends it there. Without the premise on the seconds TLC finds two refreshes of
one second after which the page holds a token without a live row.

### Timeline and Panel

`Timeline` is the recorder's clock as a record (`getOffsetMs`, `pause`, `resume`, and the offsets that
`ChunkBuffer.rotate` gives), with the time spent in the state `recording` as history (`active`): audio of an encoder that a
rotation respawned during a pause is in no clock, and the cut marks the recording as `blurred`. `Panel` is the page
around it: `rec` has for every start how far it and its stop have got, whether the panel that made it is
still there (`mine`) and listens (`heard`); `ref`, `status`, `shown` are the hook's. `slips` names the four
orders of events after which the page does lose a recorder: a second start during the prompts
(`overlap`), leaving the panel (`left`), a completion answered when the hook holds a later recorder (`late`), a start
that fails with some channels running (`broken`). The properties say that nothing else does.

### Extension

`memory`, `stored` and `badge` are the worker's, `toggles` the exchanges of the popup: one run of `onToggle` or `refreshState` with the worker's handlers of the
messages it sends. `held`, `rec` and `stops` are the offscreen document's. Handlers are split at every await: `GetState` takes the storage's answer and
`Answered` assigns it, whatever the state is by then; `SetStarted` and `SetStopped` assign the new state and call `persist()`, whose writes are under way in `writes` and
reach the storage in the order of their calls (`Lands`); the badge comes after that (`SetBadge`). `Progress` merges its numbers into the state in memory and persists the whole.
`Sleep` resets the memory when no handler is under way and no write is.

Its `slips` are what makes the code lose a recorder: an answer to `GET_STATE` that is older than what the worker has noted since (`stale`), a sleeping
worker woken by a progress message (`woken`), overlapping starts (`starts`), a start or stop while the
document is about to be closed (`ending`), a stop of a recorder that is starting (`early`). A start that fails (`failed`) is harmless. The properties say that nothing
else does, and the list is not longer than it must be: with any one of the five allowed alone, TLC finds both properties violated.

### Proofs and instances

The modules named `...Proofs` hold the theorems (section 5); those named `MC...` the constants and the symmetry
of the TLC instances.

## 4. Runs

| Run | Bounds | Shows |
|---|---|---|
| `capture` | one device channel, 3 samples, faults, a second page, fairness | safety of one channel through rotations, pauses, track end, stop, crash, recovery and the second page's discard; that the gaps recovery reports are explained and plan and download agree (`GapsAreExplained`); that the engine implements `DurableAudio`; `StopFlushes`, `StopReturns`, `RotationCompletes`, `StoredIsHandedOver` |
| `capture_two` | two channels, one with a device, 2 samples each, faults, no second page | `CrashedSessionIsOffered` and the inductive invariant, with channels out of step under one timer |
| `ledger` | two chunks, two requests at a time, local driver, failing calls, restarts | any client: `CountedArrived`, `AckedIsCommitted`, `RemovedLeavesNoRows` |
| `upload` | two chunks, two handlers, two attempts, S3's atomic PUTs, all faults, fairness | `LocalOrCloud`, `UploadedInOrder`, `GivenUpIsKept`, `UploadedIsSafe`, the inductive invariant, that the upload implements `ChunkCustody`, and `EnqueuedSettles` |
| `transcription` | two jobs of three attempts, one channel, one chunk, all faults, fairness | the two statuses agree once nothing is under way (`QuietIsSettled`), `CompletedHasText`, that the row implements `TranscriptLifecycle`, and that every job ends |
| `library` | two requests in flight, two runs, one retry, lost answers, failing requests and status writes, runs that die, deletion, fairness | `SpinnerEnds` |
| `documents` | two channels, two chunks each, two runs, the five texts, the title and the notes of `MCExports`, lines of 8 characters, pages of 4 lines, every fault | `ExportsAreWhole`, `CaptionsReadBack`, `PdfReadsBack`, `BlocksAreTurns` |
| `session` | two overlapping calls, three seconds, no sign-in beyond two rows, tokens that live one and two, both answer shapes, fairness | `SessionSurvives`, `CallsEnd` |
| `panel` | three recordings, three units of time, two chunks, failing manifest writes | `LiveIsControlled`, `CompletedIsStopped`, `OffsetIsActiveTime`, `ChunksTile` |
| `extension` | two exchanges, two recordings, one pending write of a progress message beside those of the handlers | `RecordingCanBeStopped`, `NothingIsCut` |
| `doc_commit_field` | two chunks, no faults, eight attempts | the commit lacks the field the backend asks for |
| `doc_refresh` | one call, the service's answer shape | the granted refresh fails the call |

`CHECK_DEADLOCK FALSE` stands where the system may stop: a recording that is over, a ledger with
nothing left to serve, a transcription whose jobs are spent. The other runs check for deadlock.

**Why the bounds are enough.** Three samples give up to three chunks, and one in the encoder, one in the buffer
and one in a pending write at once, which is what the order properties and the liveness need. Two samples on two channels put both
channels at every pair of stages. Two chunks are one that is uploaded and one that waits behind it, which is what order and custody relate.
Two handlers are the page's request and one it no longer waits for, or the completion, or a deletion: every race the page can have
with itself; the run `upload` therefore leaves the third handler to the proofs. Two attempts reach the give-up with one lost request to spare;
`doc_commit_field` uses the code's eight. Two jobs are a run and one requested meanwhile,
with all three attempts of the code. Two requests of a page are one and the one that overtakes it. The five texts have the
edges of the clock, a cue without words, gaps around the threshold, words that fill a line and that exceed one, letters that Latin-1 lacks in the text, the title and the notes. Three seconds with lives of one and two reach an access token that is expired under
a valid refresh token, an expired one, and two pairs of one second. In `panel`, three recordings are one that is stopped, one that runs and one that is started over it. In `extension`, two exchanges
are a click and the poll or the second click it meets, and two recordings are one and the one that replaces it; a third repeats the second. The proofs have none of these bounds.

**Fairness.** `capture`: the browser delivers a pending stop event, IndexedDB answers every request (with success or
failure) and the timer of `stop()` fires, the platform's own guarantee for a page that lives. Nothing is assumed of the user, the encoder, the
rotation timer or crashes. `upload`: the server serves what it has accepted, `drain` sends its next request and takes its
answer, the back-off fires, `deleteChunk` settles; nothing is assumed of the network, `EnqueuedSettles` holds because of the limit on attempts.
`transcription`: the worker runs as long as it has a job; failures and restarts are bounded by the attempts and by
BullMQ's one stall. `library`: a request that arrived is served or fails, answers come, a job ends one way or the other (`RunEnds` or `RunDies`), a second write is done or fails, and the interval fires: strongly fair, since each status
change clears it and sets a new one, so it is not continuously enabled. `session`: the server answers and a continuation that is due runs; the user owes nothing anywhere.

**Where code and documentation disagree.** Each `doc_*` run ends in a counterexample, listed under `findings`:

- `NothingGivenUp`: the page's commit sends `sessionId`, the DTO asks for `recordingId` (API.md documents
  the latter), so without any fault every chunk is given up. All other runs use the documented field.
- `RefreshIsTransparent`: the client reads `data.tokens` of an answer that has no such field; the pair that was
  granted is lost with the old token revoked.

**What the models also show**, which no run of its own checks:

Capture and recovery:
- 50 ms after the channels were stopped, `stop()` closes the manifest even if the last chunk is still in memory, and
  recovery does not look at closed sessions. The other way round, a chunk's manifest refresh that read before `markClosed` and
  writes after it reopens a session that was stopped (recorder.ts:170).
- The rotation timer runs on while paused, and the respawned encoder records (channel-recorder.ts:71); offsets taken
  during a pause count the pause in progress (recorder.ts:75), which `ChunksTile` leaves out as `blurred`.
- If `markClosed` fails, `stop()` throws and the engine stays in `stopping`, in which the page offers no button.
- When a device's track ends, its channel dies without an event; a respawn that throws does the same.
- One crash can cost a channel two chunks: one whose write is pending and the buffered one. No gap is reported for a lost tail, and
  chunks that were uploaded and reclaimed are reported as gaps: `missing` cannot tell the two apart.
- With a second tab open, it offers, and may discard, a session that is being recorded.

Upload and ledger:
- After eight failures the queue drops the chunk for good, although uploader.ts:29 promises to retry; a recording started
  offline never queues a chunk although the page says it will sync.
- `complete` and a commit recompute the summary at once and the older reading may be written last: totals that miss a chunk.
- The first commit clears `hasPendingUploads` while the page holds further chunks.
- With the local driver a retried upload rewrites the committed file in place; a restart in between leaves it torn
  under a row that says `uploaded` (`upload` with `AtomicPut = FALSE` violates `UploadedIsSafe`).

Transcription, library, exports:
- A failing `queue.add`, or a worker that stalls twice, leaves the status at `queued` or `processing` for good: `QuietIsSettled` excludes it by `faulted`. The viewer's spinner then
  turns for ever, and as long as the status says so, neither list nor viewer has a button to ask again.
- A converted export gives ffmpeg the bytes of all chunks as one input file (export.service.ts:242), where the comments promise files that are
  joined by the concat demuxer (export.service.ts:225, audio-export.ts:26); how much of a recording of several chunks it has is left to ffmpeg. `documents` with
  `TranscodesAreContinuous` finds an export of two chunks with one.
- The PDF shows a question mark for every letter outside Latin-1 (pdf.ts:19): notes in Greek, Cyrillic or Chinese are lost in it, and so are typographic quotes.
- The viewer stops polling after a failed attempt that BullMQ is going to retry (TranscriptViewer.tsx:74), and shows the failure until it is opened again.
- A bundle asked for while a new run is queued leaves out the transcript that the viewer still shows; one whose recording is deleted before its channels are listed is sent without audio.
- `getChunkBlob`, `getFile` and `uploadBytes` use fetch directly: an expired access token fails them without a refresh.

Session, panel, extension:
- Two refreshes of one second issue equal tokens, and which of their rows is revoked is not determined: the page may be left with a token without a live row. A lost
  answer to a refresh signs the page out, since the old token is revoked before the next pair is written. A refresh whose
  answer comes after the sign-out stores its pair again.
- A late answer to `GET_STATE` overwrites what the worker has noted since it was asked for (background.ts:89): an old "off" over a fresh "on" lets a
  second start through, which replaces the recorder of the first.
- Each harmful slip of `Panel` and `Extension` can end in a recorder that runs and that no button reaches.

## 5. Proofs

`CaptureEngineProofs` proves, for every finite set of channels, every set of devices,
every length of recording and both settings of the switches:

- `TypeCorrect`: the types.
- `ChannelsInStep`: `ChannelInv`, the agreement of `MediaRecorder`, buffers and
  `finalizing`. Its parts are corollaries (`RotationEnds`, `StoppedIsEmpty`).
- `OrderHolds`: `OrderInv`. `ReassemblyInOrder` and `CrashTakesTheTail` are not
  inductive: a new chunk is in order only if what is buffered is newer than every
  chunk, if its number is new (`ChunksNumbered`), if pending writes come after settled ones
  (`WritesComeLast`) and if a dead page has nothing in memory (`MemoryDies`). `OrderInv`
  adds exactly these. Corollaries: `ReassemblyIsInOrder`, `CrashTakesOnlyTheTail`.
- `NoAudioVanishes`: `AudioAccounted`, over the types and `OrderInv`.
- `DurableAudioIsKept`: the action property, since a chunk whose write is answered has a
  key no stored chunk has.
- `DurableBeforeUpload`: `HandedOverIsDurable`, strengthened by `HandOverInv`: the
  manifest queue carries refreshes of durable chunks only.
- `EngineImplementsDurableAudio`: initial states map to initial states, and every
  step to a step of `DurableAudio` or a stutter.
- `GapsAreNoLoss`: `GapsHaveCause`, the state behind `GapsAreExplained`: below a chunk whose write was answered every number of its
  channel is of a chunk that was answered too, so what recovery misses there was reclaimed, failed or discarded and is not
  on its way. It needs `NumbersUsed`: the buffer skips no number.
- `RecoveryExplainsGaps`: `GapsAreExplained`, from `GapsAreNoLoss` and `OrderInv`. The store is finite, so a list of it exists
  (`ListExists`); the numbers of a channel differ in the store, so ranks are exactly 0..n - 1 and sorting loses and doubles nothing; a gap
  of the plan lies below a stored chunk and so has a cause; plan and download are complete exactly when no number is missing.
- `CrashedIsOffered`: `CrashedSessionIsOffered` when no second page interferes
  (`OtherTab = FALSE`), by `OfferInv`: before `stop()` nothing in the queue can close the
  manifest, and no audio exists without one.

`ChunkLedgerProofs` proves, for any set of chunks and any number of concurrent requests:

- `LedgerInvHolds`: `LedgerInv`. `CountedArrived` is not inductive: the sums are written from an
  older reading, so `HandlersAgree` adds that what a handler has read or written is still
  there while the recording exists, `NoOrphans` that without the recording there is nothing,
  and `RequestsFollowCreation` that no request can straddle two lives of a recording.
  Corollaries: `SummaryCountsArrived`, `AnsweredCommitStays`, `DeletionIsComplete`.
- `CommittedHasBytes`: `UploadedIsSafe` for any client when PUTs are atomic and verification is on
  (`BytesBeforeRow`). Both premises are needed: with the local driver TLC finds a counterexample, and without
  verification a client may commit what it never sent. The page is not such a client: see `UploadedHasBytes`.

`UploadQueueProofs` proves, for any number of chunks, handlers and attempts and all faults:

- `PageIsAClient`: every step of the upload is a step of `LedgerNext` or a stutter, so what is
  proved of the ledger holds here and is used below.
- `UploadInvHolds`: `UploadInv`. `LocalOrCloud` needs that what is being reclaimed was
  acknowledged (`DoneIsAcked`), which needs that an `ok` to the page's commit is the ledger's
  (`AnswersAreTrue`), which needs that a handler keeps its request and that the page awaits
  one at a time. `UploadedInOrder` needs the order of the queue (`QueueInOrder`) and of the
  commits in flight, those nobody waits for included (`CommitsInOrder`).
- `NoChunkWithoutCustody`, `LedgerFillsInOrder`, `GivenUpStaysLocal`: three of the safety properties.
- `UploadedHasBytes`: `UploadedIsSafe` with atomic PUTs and without verification, as the run `upload` has it. `PutBeforeCommit` says that the bytes are there when the
  page sends a commit, that a commit under way has them, whoever waits for it, and that a PUT only adds bytes.
- `UploadImplementsCustody`: the refinement, each step by its action.

`TranscriptionProofs` proves, for any set of jobs, channels and attempts and all faults:

- `CompletedRowsHaveText`: `CompletedHasText` is not inductive: between the writes of a job the text must already be
  there, at the statements after `store` by the worker's place, and a row without a status has had no request and
  no job (`TextInv`); the worker's job must be active and have attempts left (`WorkerInv`).
- `QuietRowsAgree`: `QuietIsSettled` says nothing about the writes that lead to the quiet state. `SettleInv` does: once no
  request is under way and no job waits behind the one that runs (`NothingBehind`), nobody else writes the rows, and each
  of the worker's places fixes what they hold. `WorkerInv` keeps a second worker out.
- `TranscriptImplementsLifecycle`: each step maps to a step of `TranscriptLifecycle` or a stutter.

`PanelProofs` proves, for any number of recordings and any length of time:

- `RunningIsControlled`: `LiveIsControlled` needs `ControlInv`: while no slip has happened, at most one recording is
  active, from its click to its stop; the hook holds it from the moment its recorder exists; while permissions are asked it
  holds none; a recorder that is stopping still belongs to it. `MineInv` and `OwnInv` say this of every recording of
  the panel on the page, and need fewer slips than the theorem: while starts do not overlap and no completion is late.
- `CompletesWhatStopped`: `CompletedIsStopped`, from the same `OwnInv`: what `stop()` is about to complete is the recording whose
  recorder it waited for.
- `ElapsedIsRecorded`: `OffsetIsActiveTime` needs `ClockInv`, which says where the clock stands during a pause.
- `ChunksTileTheRecording`: `ChunksTile` needs `TileInv`: the chunk that is running began in the time recorded so far, so the
  next cut begins where the last chunk ended.

`ExtensionProofs` proves, for any number of exchanges, recordings and pending writes:

- `RecordingStaysStoppable`: `RecordingCanBeStopped`, and `StopWaitsForAudio`: `NothingIsCut`. Both are consequences of one
  invariant, `ControlInv`, which holds until a slip other than `failed` happens. What the worker has noted last (`Said`) is what the last write under way says, or the
  storage if there is none. The memory is that, or the worker has slept and whoever it serves since is waiting for the storage's answer (`MemoryInv`): memory and stored copy do
  differ between an assignment and its write. A start is alone and finds nothing recording or being stopped
  (`StartInv`); a stop is alone and leaves nothing that records (`StopInv`); the recorder that lives is the one the document holds and that was noted or is about to be
  (`RecorderInv`).

`SessionProofs` proves, for any number of overlapping calls and any lives of the tokens:

- `SignedInSurvives`: `SessionSurvives` is not inductive: a refresh that revokes a row may revoke the one of the pair another
  call is about to store. `HoldInv` excludes it: a pair on its way is live, is in no other answer, and no refresh shows it. This
  holds as long as all issued tokens differ (`DistinctTokens`), no answer was lost and the page could read its last pair, the premises of the property. `KnownInv` says that every token about was issued, `HeardInv` that
  while no answer was lost the page that asked is there, and `LiveInv` is the property without the condition on the page's view.

`ExportsProofs` proves, for any channels and any number of chunks, runs and deletions:

- `SentIsWhole`: `ExportsAreWhole`, of what an export was made from; what ffmpeg makes of its input is no part of it. It needs to know at which read an export is (`TodoInv`: what is left of its plan is a suffix of it), that
  chunk rows only go with the recording (`RowsInv`), and that what was gathered has at least the chunks of the moment the export was asked for
  (`GatherInv`); between the listing and the last read the recording may go, and the export fails.
- `SentTextExists`: captions and plain text that are sent are of a completed text (`SentHasText`). No run states it: it is a by-product of the
  same invariant.
- `ViewerShowsTurns`: `BlocksAreTurns` for any texts a driver may return, if `MaxSpeakers > 1` (the code's default is 4): one speaker alone
  takes no turns, and his text is one block. `BlocksTile` says that the blocks are consecutive stretches of the text, `LabelsTurn` that
  neighbours have different labels exactly after a silence.
- `CaptionsAreRead`: `CaptionsReadBack` for any texts whose times are not before 0, as those of a recording are; the code shows an earlier time
  as 0, which no reader could undo. `StampsRead`: hours, minutes, seconds and milliseconds give the time back; `JoinIsJoined` and `PartsAreParagraphs`: a file
  that is joined with blank lines is cut at exactly these.
- `PdfIsRead`: `PdfReadsBack` for any texts, summaries and lengths of words, any width of a line and length of a page. `WordIsWrapped` is the step of `wrapLine`: the
  lines that are done and the one under way fit and spell the words so far, whether the word fits, begins a line or is broken (`BrokenIs`);
  `PagesKeepAll` and `ReferencesHold` say that the pages cut the lines without loss and that the objects of the file lead to them.

What the operators of these three compute is proved by the least number: if a statement about the first n elements failed, there would
be a least n where it does (`LeastNatural`, from the well-foundedness of <), and the recursion at n contradicts it. Where a recursive function
must be shown to exist, `RecursionExists` does it for any steps; `FlattenPlaces`, `FlattenConcat` and `FlattenIs` are what the proofs need of `FlattenSeq`.

The proofs rest on the named assumptions on the constants, which TLC evaluates in every run. All the invariants above were checked
by TLC on the instances of the runs before they were proved. Every safety property of a passing run is now a theorem, some under a named premise that their run has:
`UploadedIsSafe` (`AtomicPut`), `CrashedSessionIsOffered` (`OtherTab = FALSE`), `BlocksAreTurns` (`MaxSpeakers > 1`), `CaptionsReadBack` (no time before 0). Left to TLC are the liveness
properties (`StopFlushes`, `StopReturns`, `RotationCompletes`, `StoredIsHandedOver`, `EnqueuedSettles`, `JobsEnd`, `SpinnerEnds`, `CallsEnd`), which
the prover cannot reach, and the two counterexamples of the `doc_*` runs.

## 6. Not modelled

- Mixer, sources, level meter, WAV encoding, event emitter: Web Audio graph and signal arithmetic. A track that ends is an input of the engine.
- The in-memory recovery store, which no browser build selects; `markHandled`, which has no caller.
- Search, configuration, health, encryption at rest, the database client, deployment: stateless queries or start-up glue.
- The meet detector and `MEET_INFO`, which fill in a title; the popup's list of saved files; playback and search results in the library.
- The logout endpoint, which the page never calls; `update` and the listings of recordings; requests of other users and the checks that refuse
  them; the size limit; the expiry of upload tickets; key sanitising; an S3 bucket combined with encryption in the
  application (the page's direct PUT is then not sealed and every commit is refused).
- A recording has one row of chunks in the ledger: several channels share one queue in the code, so their chunks are one sequence there, and
  `durationMs` as a maximum over channels is abstracted to the set it is computed from.
