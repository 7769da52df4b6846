--------------------------- MODULE CaptureEngine ---------------------------
(***************************************************************************)
(* One recording session of the audio engine, from the encoder to the      *)
(* local recovery store: AudioRecorder (recorder.ts) driving one           *)
(* ChannelRecorder and ChunkBuffer per channel, the persist pipeline       *)
(* putChunk -> getManifest -> putManifest, markClosed, a crash of the      *)
(* page, and the RecoveryManager of a page opened later (or beside it).    *)
(*                                                                         *)
(* Audio is abstracted to samples: the n-th piece of encoded audio of a    *)
(* channel is the number n.  A sample moves                                *)
(*                                                                         *)
(*   held  ->  parts  ->  writes  ->  store  ->  reclaimed                 *)
(*   (MediaRecorder) (ChunkBuffer) (putChunk issued) (IndexedDB) (cloud)   *)
(*                                                                         *)
(* and the safety properties say which shortcuts it may never take.        *)
(***************************************************************************)
EXTENDS Integers, Sequences, FiniteSets

CONSTANTS
  Channel,      \* the channels of the session: tab, mic, mixed
  Device,       \* the channels fed by a device or tab, whose track can end
  MaxSamples,   \* bound: samples encoded per channel
  StoreFaults,  \* may an IndexedDB request fail (quota, abort)?
  OtherTab      \* may a second page of the app open during the recording?

ASSUME ChannelAssumption == IsFiniteSet(Channel) /\ Channel # {}
ASSUME DeviceAssumption == Device \subseteq Channel
ASSUME BoundAssumption == MaxSamples \in Nat
ASSUME SwitchAssumption == StoreFaults \in BOOLEAN /\ OtherTab \in BOOLEAN

VARIABLES
  \* AudioRecorder
  engine,       \* RecorderState, or "crashed" once the page has died
  timers,       \* is the rotation interval armed?
  stopPc,       \* how far stop() has got
  subscribed,   \* are the app's event listeners attached?
  \* ChannelRecorder, MediaRecorder and ChunkBuffer, per channel
  active, finalizing,
  mr,           \* state of the channel's current MediaRecorder
  track,        \* is the channel's media track live?
  captured,     \* samples encoded so far
  held,         \* encoded, not yet delivered by dataavailable
  parts,        \* ChunkBuffer.parts
  sequence,     \* ChunkBuffer.sequence
  \* requests in flight to IndexedDB
  writes,       \* chunks whose putChunk is pending
  manifestQ,    \* pending requests on the manifests store, in issue order
  \* IndexedDB: survives a crash
  manifest, store,
  \* outcomes
  handed,       \* chunks given to onChunkReady
  reclaimed,    \* chunks deleted by the uploader after their commit
  reported,     \* chunks whose persistence failure was emitted as `error`
  dropped,      \* chunks whose putChunk failed
  discarded,    \* chunks deleted by the user from the recovery banner
  lost,         \* samples that were only in memory when the page died
  banner        \* does some page offer the session as interrupted?

engineVars == <<engine, timers, stopPc, subscribed>>
channelVars == <<active, finalizing, mr, track, captured, held, parts, sequence>>
requestVars == <<writes, manifestQ>>
storeVars == <<manifest, store>>
outcomeVars == <<handed, reclaimed, reported, dropped, discarded, lost, banner>>
vars == <<engineVars, channelVars, requestVars, storeVars, outcomeVars>>

-----------------------------------------------------------------------------
Chunk == [chan : Channel, seq : Nat, parts : SUBSET Nat]

\* A request on the manifests store.  "create", "closeRead" and "closeWrite"
\* are issued by start() and markClosed(); "read" and "write" by the
\* persistChunk of a chunk, "write" with the closed flag its read returned.
Request ==
  [op : {"create", "closeRead", "closeWrite"}]
    \cup [op : {"read"}, chunk : Chunk]
    \cup [op : {"write"}, chunk : Chunk, closed : BOOLEAN]

InChunks(S, c, n) == \E ch \in S : ch.chan = c /\ n \in ch.parts

SamplesOf(S, c) == UNION {ch.parts : ch \in {x \in S : x.chan = c}}

\* MediaRecorder (external): state /= 'inactive', and stop() on those of S.
Running(c) == mr[c] \in {"recording", "paused"}
StopRecorders(S) ==
  mr' = [c \in Channel |-> IF c \in S /\ Running(c) THEN "stopping" ELSE mr[c]]

Alive == engine \notin {"idle", "crashed"}

TypeOK ==
  /\ engine \in {"idle", "starting", "recording", "paused", "stopping",
                 "stopped", "error", "crashed"}
  /\ timers \in BOOLEAN
  /\ stopPc \in {"none", "wait", "closing", "done", "failed"}
  /\ subscribed \in BOOLEAN
  /\ active \in [Channel -> BOOLEAN]
  /\ finalizing \in [Channel -> BOOLEAN]
  /\ mr \in [Channel -> {"none", "recording", "paused", "stopping", "stopped"}]
  /\ track \in [Channel -> BOOLEAN]
  /\ captured \in [Channel -> Nat]
  /\ held \in [Channel -> SUBSET Nat]
  /\ parts \in [Channel -> SUBSET Nat]
  /\ sequence \in [Channel -> Nat]
  /\ writes \subseteq Chunk
  /\ manifestQ \in Seq(Request)
  /\ manifest \in {"none", "open", "closed"}
  /\ store \subseteq Chunk
  /\ handed \subseteq Chunk
  /\ reclaimed \subseteq Chunk
  /\ reported \subseteq Chunk
  /\ dropped \subseteq Chunk
  /\ discarded \subseteq Chunk
  /\ lost \in [Channel -> SUBSET Nat]
  /\ banner \in BOOLEAN

Init ==
  /\ engine = "idle" /\ timers = FALSE /\ stopPc = "none" /\ subscribed = TRUE
  /\ active = [c \in Channel |-> FALSE]
  /\ finalizing = [c \in Channel |-> FALSE]
  /\ mr = [c \in Channel |-> "none"]
  /\ track = [c \in Channel |-> TRUE]
  /\ captured = [c \in Channel |-> 0]
  /\ held = [c \in Channel |-> {}]
  /\ parts = [c \in Channel |-> {}]
  /\ sequence = [c \in Channel |-> 0]
  /\ writes = {} /\ manifestQ = <<>>
  /\ manifest = "none" /\ store = {}
  /\ handed = {} /\ reclaimed = {} /\ reported = {} /\ dropped = {}
  /\ discarded = {}
  /\ lost = [c \in Channel |-> {}]
  /\ banner = FALSE

-----------------------------------------------------------------------------
(* AudioRecorder.start: the manifest is written first, the channels and    *)
(* the rotation timer start in the continuation of that write.             *)

Start ==
  /\ engine = "idle"
  /\ engine' = "starting"
  /\ manifestQ' = Append(manifestQ, [op |-> "create"])
  /\ UNCHANGED <<timers, stopPc, subscribed, channelVars, writes, storeVars,
                 outcomeVars>>

\* A MediaRecorder of every channel in K is started.
Spawn(K) == mr' = [c \in Channel |-> IF c \in K THEN "recording" ELSE mr[c]]

StartChannels ==
  /\ Spawn(Channel)
  /\ active' = [c \in Channel |-> TRUE]
  /\ timers' = TRUE
  /\ engine' = "recording"

\* The constructor or start() of channel b's MediaRecorder throws: the
\* channels of K were started before it and keep running.
StartBreaks ==
  \E b \in Channel : \E K \in SUBSET (Channel \ {b}) :
    /\ Spawn(K)
    /\ active' = [c \in Channel |-> IF c \in K \cup {b} THEN TRUE
                                                      ELSE active[c]]
    /\ timers' = FALSE
    /\ engine' = "error"

CreateManifest ==
  /\ engine = "starting"
  /\ manifestQ # <<>> /\ Head(manifestQ).op = "create"
  /\ manifestQ' = Tail(manifestQ)
  /\ \/ manifest' = "open" /\ (StartChannels \/ StartBreaks)
     \/ /\ StoreFaults
        /\ engine' = "error"
        /\ UNCHANGED <<manifest, timers, active, mr>>
  /\ UNCHANGED <<stopPc, subscribed, finalizing, track, captured, held, parts,
                 sequence, writes, store, outcomeVars>>

-----------------------------------------------------------------------------
(* MediaRecorder (external): encodes while "recording", delivers what it   *)
(* holds every second, and answers stop() with a last delivery and the     *)
(* stop event, one task.                                                   *)

Encode(c) ==
  /\ mr[c] = "recording"
  /\ captured[c] < MaxSamples
  /\ captured' = [captured EXCEPT ![c] = @ + 1]
  /\ held' = [held EXCEPT ![c] = @ \cup {captured[c] + 1}]
  /\ UNCHANGED <<engineVars, active, finalizing, mr, track, parts, sequence,
                 requestVars, storeVars, outcomeVars>>

DataAvailable(c) ==
  /\ Running(c)
  /\ held[c] # {}
  /\ parts' = [parts EXCEPT ![c] = @ \cup held[c]]
  /\ held' = [held EXCEPT ![c] = {}]
  /\ UNCHANGED <<engineVars, active, finalizing, mr, track, captured, sequence,
                 requestVars, storeVars, outcomeVars>>

\* The shared tab is closed or the microphone unplugged.
TrackEnds(c) ==
  /\ c \in Device /\ track[c]
  /\ mr[c] \in {"recording", "paused", "stopping"}
  /\ track' = [track EXCEPT ![c] = FALSE]
  /\ StopRecorders({c})
  /\ UNCHANGED <<engineVars, active, finalizing, captured, held, parts,
                 sequence, requestVars, storeVars, outcomeVars>>

-----------------------------------------------------------------------------
(* ChannelRecorder and ChunkBuffer.                                        *)

\* (mutants) the final dataavailable is dropped; the buffer is not reset
FinalizeBuffered(c) ==
  /\ parts' = [parts EXCEPT ![c] = {}] /\ held' = [held EXCEPT ![c] = {}]
  /\ \/ parts[c] = {} /\ UNCHANGED <<writes, sequence>>
     \/ /\ parts[c] # {}
        /\ writes' = writes \cup
                       {[chan |-> c, seq |-> sequence[c], parts |-> parts[c]]}
        /\ sequence' = [sequence EXCEPT ![c] = @ + 1]

FinalizeKeepsParts(c) ==
  LET full == parts[c] \cup held[c]
  IN  /\ parts' = [parts EXCEPT ![c] = full] /\ held' = [held EXCEPT ![c] = {}]
      /\ \/ full = {} /\ UNCHANGED <<writes, sequence>>
         \/ /\ full # {}
            /\ writes' = writes \cup
                           {[chan |-> c, seq |-> sequence[c], parts |-> full]}
            /\ sequence' = [sequence EXCEPT ![c] = @ + 1]

\* ChunkBuffer.rotate of channel c with the final dataavailable included;
\* the finalized chunk's persistChunk issues its putChunk at once.
Finalize(c) ==
  LET full == parts[c] \cup held[c]
  IN  /\ parts' = [parts EXCEPT ![c] = {}]
      /\ held' = [held EXCEPT ![c] = {}]
      /\ \/ full = {} /\ UNCHANGED <<writes, sequence>>
         \/ /\ full # {}
            /\ writes' = writes \cup
                           {[chan |-> c, seq |-> sequence[c], parts |-> full]}
            /\ sequence' = [sequence EXCEPT ![c] = @ + 1]

\* The MediaRecorder's stop event: handleStop finalizes the chunk and, while
\* the channel is active, starts the next MediaRecorder -- which throws, and
\* leaves the channel without one, when the track has ended.
HandleStop(c) ==
  /\ mr[c] = "stopping"
  /\ Finalize(c)
  /\ finalizing' = [finalizing EXCEPT ![c] = FALSE]
  /\ mr' = [mr EXCEPT ![c] = IF active[c] /\ track[c] THEN "recording"
                                                      ELSE "stopped"]
  /\ UNCHANGED <<engineVars, active, track, captured, manifestQ, storeVars,
                 outcomeVars>>

\* (mutant) no check that the MediaRecorder is running
CanRotateStopped(c) == active[c] /\ ~finalizing[c]

CanRotate(c) == active[c] /\ ~finalizing[c] /\ Running(c)

\* The rotation interval fires: every channel is rotated, whatever the
\* engine's state.
RotateAll ==
  /\ timers
  /\ \E c \in Channel : CanRotate(c)
  /\ finalizing' = [c \in Channel |-> finalizing[c] \/ CanRotate(c)]
  /\ StopRecorders({c \in Channel : CanRotate(c)})
  /\ UNCHANGED <<engineVars, active, track, captured, held, parts, sequence,
                 requestVars, storeVars, outcomeVars>>

Pause ==
  /\ engine = "recording"
  /\ engine' = "paused"
  /\ mr' = [c \in Channel |-> IF mr[c] = "recording" THEN "paused" ELSE mr[c]]
  /\ UNCHANGED <<timers, stopPc, subscribed, active, finalizing, track,
                 captured, held, parts, sequence, requestVars, storeVars,
                 outcomeVars>>

Resume ==
  /\ engine = "paused"
  /\ engine' = "recording"
  /\ mr' = [c \in Channel |-> IF mr[c] = "paused" THEN "recording" ELSE mr[c]]
  /\ UNCHANGED <<timers, stopPc, subscribed, active, finalizing, track,
                 captured, held, parts, sequence, requestVars, storeVars,
                 outcomeVars>>

-----------------------------------------------------------------------------
(* AudioRecorder.stop: stop every channel, wait 50 ms, close the mixer,    *)
(* mark the manifest closed (a read and a write), report "stopped".        *)

\* (mutant) paused MediaRecorders are not stopped
StopUnpaused ==
  /\ active' = [c \in Channel |-> FALSE]
  /\ StopRecorders({c \in Channel : mr[c] = "recording"})
  /\ track' = [c \in Channel |-> FALSE]

StopChannels ==
  /\ active' = [c \in Channel |-> FALSE]
  /\ StopRecorders(Channel)
  /\ track' = [c \in Channel |-> FALSE]

Stop ==
  /\ engine \in {"recording", "paused"}
  /\ engine' = "stopping" /\ stopPc' = "wait"
  /\ timers' = FALSE
  /\ StopChannels
  /\ UNCHANGED <<subscribed, finalizing, captured, held, parts, sequence,
                 requestVars, storeVars, outcomeVars>>

\* The 50 ms are over: nothing says the stop events and writes are.
StopWaited ==
  /\ engine = "stopping" /\ stopPc = "wait"
  /\ stopPc' = "closing"
  /\ manifestQ' = Append(manifestQ, [op |-> "closeRead"])
  /\ UNCHANGED <<engine, timers, subscribed, channelVars, writes, storeVars,
                 outcomeVars>>

\* The page calls dispose() only from reset(), offered once "stopped".
Dispose ==
  /\ engine = "stopped" /\ subscribed
  /\ subscribed' = FALSE
  /\ timers' = FALSE
  /\ StopChannels
  /\ UNCHANGED <<engine, stopPc, finalizing, captured, held, parts, sequence,
                 requestVars, storeVars, outcomeVars>>

-----------------------------------------------------------------------------
(* The recovery store.  Read-write transactions on one object store run in *)
(* the order they were created: chunk writes of a channel in sequence      *)
(* order, manifest requests in the order of manifestQ.                     *)

\* (mutant) writes may be answered in any order
AnyWrite(ch) == ch \in writes

NextWrite(ch) ==
  /\ ch \in writes
  /\ \A w \in writes : w.chan = ch.chan => ch.seq <= w.seq

\* (mutant) a key without the sequence number
SameChannel(a, b) == a.chan = b.chan

SameKey(a, b) == a.chan = b.chan /\ a.seq = b.seq

\* (mutant) the catch block is empty
ReportNothing(ch) == UNCHANGED reported

\* An `error` event reaches the app only while it listens.
Report(ch) == reported' = IF subscribed THEN reported \cup {ch} ELSE reported

PutChunk(ch) ==
  /\ NextWrite(ch)
  /\ store' = {x \in store : ~SameKey(x, ch)} \cup {ch}
  /\ writes' = writes \ {ch}
  /\ manifestQ' = Append(manifestQ, [op |-> "read", chunk |-> ch])
  /\ UNCHANGED <<engineVars, channelVars, manifest, outcomeVars>>

\* (mutant) putChunk is not awaited: its failure does not stop the pipeline
PutChunkIgnored(ch) ==
  /\ StoreFaults
  /\ NextWrite(ch)
  /\ writes' = writes \ {ch}
  /\ manifestQ' = Append(manifestQ, [op |-> "read", chunk |-> ch])
  /\ UNCHANGED <<engineVars, channelVars, storeVars, outcomeVars>>

PutChunkFails(ch) ==
  /\ StoreFaults
  /\ NextWrite(ch)
  /\ writes' = writes \ {ch}
  /\ dropped' = dropped \cup {ch}
  /\ Report(ch)
  /\ UNCHANGED <<engineVars, channelVars, manifestQ, storeVars, handed,
                 reclaimed, discarded, lost, banner>>

ReadManifest ==
  /\ manifestQ # <<>> /\ Head(manifestQ).op = "read"
  /\ manifestQ' = Append(Tail(manifestQ),
                         [op |-> "write", chunk |-> Head(manifestQ).chunk,
                          closed |-> manifest = "closed"])
  /\ manifest # "none"
  /\ UNCHANGED <<engineVars, channelVars, writes, storeVars, outcomeVars>>

\* (mutant) every refresh closes the session
PutManifestClosed(r) == manifest' = "closed"

\* putManifest replaces the whole record by the copy that was read.
PutManifest(r) == manifest' = IF r.closed THEN "closed" ELSE "open"

WriteManifest ==
  /\ manifestQ # <<>> /\ Head(manifestQ).op = "write"
  /\ PutManifest(Head(manifestQ))
  /\ manifestQ' = Tail(manifestQ)
  /\ handed' = handed \cup {Head(manifestQ).chunk}
  /\ UNCHANGED <<engineVars, channelVars, writes, store, reclaimed, reported,
                 dropped, discarded, lost, banner>>

\* The manifest refresh of a stored chunk fails, or finds no manifest to
\* refresh and puts a record without its key: an `error` event, no hand-over.
RefreshFails ==
  /\ manifestQ # <<>> /\ Head(manifestQ).op \in {"read", "write"}
  /\ StoreFaults \/ (Head(manifestQ).op = "read" /\ manifest = "none")
  /\ manifestQ' = Tail(manifestQ)
  /\ Report(Head(manifestQ).chunk)
  /\ UNCHANGED <<engineVars, channelVars, writes, storeVars, handed, reclaimed,
                 dropped, discarded, lost, banner>>

\* markClosed: read the manifest, write it back with closedAt.
CloseRead ==
  /\ manifestQ # <<>> /\ Head(manifestQ).op = "closeRead"
  /\ \/ /\ manifest # "none"
        /\ manifestQ' = Append(Tail(manifestQ), [op |-> "closeWrite"])
        /\ UNCHANGED <<engine, stopPc>>
     \/ /\ manifest = "none"
        /\ manifestQ' = Tail(manifestQ)
        /\ engine' = "stopped" /\ stopPc' = "done"
  /\ UNCHANGED <<timers, subscribed, channelVars, writes, storeVars,
                 outcomeVars>>

CloseWrite ==
  /\ manifestQ # <<>> /\ Head(manifestQ).op = "closeWrite"
  /\ manifest' = "closed"
  /\ manifestQ' = Tail(manifestQ)
  /\ engine' = "stopped" /\ stopPc' = "done"
  /\ UNCHANGED <<timers, subscribed, channelVars, writes, store, outcomeVars>>

\* (mutant) the rejection of markClosed is never seen
CloseFailsUnseen ==
  /\ StoreFaults
  /\ manifestQ # <<>> /\ Head(manifestQ).op \in {"closeRead", "closeWrite"}
  /\ manifestQ' = Tail(manifestQ)
  /\ UNCHANGED <<engineVars, channelVars, writes, storeVars, outcomeVars>>

\* stop() rejects; the engine stays "stopping".
CloseFails ==
  /\ StoreFaults
  /\ manifestQ # <<>> /\ Head(manifestQ).op \in {"closeRead", "closeWrite"}
  /\ manifestQ' = Tail(manifestQ)
  /\ stopPc' = "failed"
  /\ UNCHANGED <<engine, timers, subscribed, channelVars, writes, storeVars,
                 outcomeVars>>

\* The upload queue has committed a handed-over chunk and deletes the local
\* copy (uploader.ts; the queue itself is another module).
Reclaim(ch) ==
  /\ Alive
  /\ ch \in handed \cap store
  /\ store' = store \ {ch}
  /\ reclaimed' = reclaimed \cup {ch}
  /\ UNCHANGED <<engineVars, channelVars, requestVars, manifest, handed,
                 reported, dropped, discarded, lost, banner>>

-----------------------------------------------------------------------------
(* The page dies; recovery runs in the next one, or in another open page.  *)

Crash ==
  /\ Alive
  /\ engine' = "crashed"
  /\ lost' = [c \in Channel |-> held[c] \cup parts[c] \cup SamplesOf(writes, c)]
  /\ timers' = FALSE
  /\ active' = [c \in Channel |-> FALSE]
  /\ finalizing' = [c \in Channel |-> FALSE]
  /\ mr' = [c \in Channel |-> "none"]
  /\ held' = [c \in Channel |-> {}]
  /\ parts' = [c \in Channel |-> {}]
  /\ writes' = {} /\ manifestQ' = <<>>
  /\ UNCHANGED <<stopPc, subscribed, track, captured, sequence, storeVars,
                 handed, reclaimed, reported, dropped, discarded, banner>>

PageOpen == engine = "crashed" \/ (OtherTab /\ engine # "idle")

FindRecoverable ==
  /\ PageOpen
  /\ manifest = "open" /\ store # {}
  /\ ~banner /\ banner' = TRUE
  /\ UNCHANGED <<engineVars, channelVars, requestVars, storeVars, handed,
                 reclaimed, reported, dropped, discarded, lost>>

\* The banner's list was read when the page opened; Discard acts on it.
Discard ==
  /\ banner /\ banner' = FALSE
  /\ manifest' = "none"
  /\ store' = {}
  /\ discarded' = discarded \cup store
  /\ UNCHANGED <<engineVars, channelVars, requestVars, handed, reclaimed,
                 reported, dropped, lost>>

-----------------------------------------------------------------------------
ManifestRequest ==
  \/ CreateManifest \/ ReadManifest \/ WriteManifest \/ RefreshFails
  \/ CloseRead \/ CloseWrite \/ CloseFails

ChunkRequest == \E ch \in writes : PutChunk(ch) \/ PutChunkFails(ch)

Next ==
  \/ Start \/ Pause \/ Resume \/ Stop \/ StopWaited \/ Dispose
  \/ RotateAll
  \/ \E c \in Channel :
       Encode(c) \/ DataAvailable(c) \/ TrackEnds(c) \/ HandleStop(c)
  \/ ChunkRequest
  \/ ManifestRequest
  \/ \E ch \in handed : Reclaim(ch)
  \/ Crash \/ FindRecoverable \/ Discard

Spec == Init /\ [][Next]_vars

\* The browser runs every queued task and IndexedDB answers every request;
\* nothing else (the user, the encoder, the timers) is owed to happen.
Fairness ==
  /\ \A c \in Channel : WF_vars(HandleStop(c))
  /\ WF_vars(ChunkRequest)
  /\ WF_vars(ManifestRequest)
  /\ WF_vars(StopWaited)

FairSpec == Spec /\ Fairness

-----------------------------------------------------------------------------
(* Safety.                                                                 *)

\* Every chunk the session ever finalized, wherever it is now (a crash takes
\* the pending ones); a settled one has had its putChunk answered.
Settled == store \cup reclaimed \cup dropped \cup discarded
Finalized == writes \cup Settled

\* The places a sample of channel c can be in.
InMemory(c, n) == n \in held[c] \/ n \in parts[c] \/ InChunks(writes, c, n)

\* Every encoded sample is accounted for: it is still in memory, in the local
\* store, uploaded and reclaimed, in a chunk whose write failed, discarded by
\* the user, or was in memory when the page died.  No rotation, pause, track
\* end or stop makes audio vanish (channel-recorder.ts handleStop, rotate).
AudioAccounted ==
  \A c \in Channel : \A n \in 1..captured[c] :
    \/ InMemory(c, n)
    \/ InChunks(Settled, c, n)
    \/ n \in lost[c]

\* Concatenating a channel's chunks in sequence order plays its audio in
\* order and plays nothing twice: two chunks with one sequence number are one
\* chunk, samples follow sequence numbers, and what is still buffered comes
\* after every finalized chunk (chunk-buffer.ts rotate, recovery-manager.ts
\* reassemble).
ReassemblyInOrder ==
  /\ \A a, b \in Finalized : a.chan = b.chan =>
       /\ a.seq = b.seq => a = b
       /\ a.seq < b.seq => \A m \in a.parts, n \in b.parts : m < n
  /\ \A a \in Finalized :
       \A m \in a.parts, n \in parts[a.chan] \cup held[a.chan] : m < n
  /\ \A c \in Channel : \A m \in parts[c], n \in held[c] : m < n

\* What a crash takes is the tail of each channel: no sample lost in memory
\* precedes one that is durable (recorder.ts persistChunk over IndexedDB's
\* ordered transactions).
CrashTakesTheTail ==
  \A c \in Channel : \A n \in lost[c] :
    \A ch \in store \cup reclaimed : ch.chan = c => \A m \in ch.parts : m < n

\* Audio is durable before the upload hears of it: a chunk handed to
\* onChunkReady has reached the store, and left it only by a commit or by the
\* user's discard (recorder.ts "persist every finalized chunk BEFORE upload").
HandedOverIsDurable ==
  \A ch \in handed : ch \in store \/ ch \in reclaimed \/ ch \in discarded

\* A channel whose MediaRecorder has stopped holds no audio in memory, so a
\* stopped recorder has nothing left that only its buffers know
\* (channel-recorder.ts handleStop).
StoppedChannelIsEmpty ==
  \A c \in Channel : mr[c] = "stopped" => held[c] = {} /\ parts[c] = {}

\* A rotation in progress always has its stop event still to come: finalizing
\* can never be left set and block every later rotation of the channel
\* (channel-recorder.ts rotate guard).
FinalizingEnds == \A c \in Channel : finalizing[c] => mr[c] = "stopping"

\* A page that dies before stop() was called leaves a session that recovery
\* finds, as soon as one chunk was stored and unless the user discarded it
\* (recovery-store.ts listOpenSessions, recovery-manager.ts findRecoverable).
CrashedSessionIsOffered ==
  engine = "crashed" /\ stopPc = "none" /\ store # {} => manifest = "open"

\* Those two and what they rest on: no MediaRecorder exists before the
\* manifest is written nor after a crash, which also ends every request.
ChannelInv ==
  /\ engine \in {"idle", "starting", "crashed"} =>
       \A c \in Channel : mr[c] = "none"
  /\ StoppedChannelIsEmpty
  /\ FinalizingEnds
  /\ engine = "crashed" => writes = {} /\ manifestQ = <<>>

\* Behind HandedOverIsDurable: the manifest is refreshed only for chunks that
\* are durable already.
Kept == store \cup reclaimed \cup discarded

DurableOnly(q, K) ==
  \A i \in 1..Len(q) : q[i].op \in {"read", "write"} => q[i].chunk \in K

HandOverInv == handed \subseteq Kept /\ DurableOnly(manifestQ, Kept)

\* Behind CrashedSessionIsOffered, when no other page interferes: audio exists
\* only under a manifest, and nothing closes the manifest before stop().
OpensOnly(q) ==
  \A i \in 1..Len(q) : /\ q[i].op \in {"create", "read", "write"}
                       /\ q[i].op = "write" => q[i].closed = FALSE

OfferInv ==
  /\ engine # "crashed" => banner = FALSE
  /\ manifest = "none" =>
       store = {} /\ writes = {} /\ \A c \in Channel : mr[c] = "none"
  /\ stopPc = "none" => manifest # "closed" /\ OpensOnly(manifestQ)

-----------------------------------------------------------------------------
(* The inductive invariant behind the order of the audio: what is in       *)
(* memory or in a chunk was encoded, chunks are not empty and numbered     *)
(* below the buffer's sequence, pending writes follow all settled ones.    *)

InMemoryEmpty ==
  /\ writes = {}
  /\ \A c \in Channel : held[c] = {} /\ parts[c] = {}

SamplesExist ==
  /\ \A c \in Channel : held[c] \cup parts[c] \subseteq 1..captured[c]
  /\ \A a \in Finalized : a.parts \subseteq 1..captured[a.chan]

ChunksNumbered == \A a \in Finalized : a.parts # {} /\ a.seq < sequence[a.chan]

WritesComeLast ==
  \A w \in writes, a \in Settled : a.chan = w.chan => a.seq < w.seq

MemoryDies ==
  IF engine = "crashed" THEN InMemoryEmpty
                        ELSE \A c \in Channel : lost[c] = {}

OrderInv ==
  /\ SamplesExist
  /\ ChunksNumbered
  /\ WritesComeLast
  /\ MemoryDies
  /\ ReassemblyInOrder
  /\ CrashTakesTheTail

InductiveInv ==
  /\ TypeOK /\ ChannelInv /\ OrderInv /\ AudioAccounted /\ HandOverInv
  /\ ~OtherTab => OfferInv

-----------------------------------------------------------------------------
(* Action properties.                                                      *)

\* Durable audio is never overwritten: a stored chunk leaves the store only
\* because the uploader reclaimed it or the user discarded it
\* (recovery-store.ts putChunk, keyed by session, channel and sequence).
DurableIsKept ==
  [][store \subseteq store' \cup reclaimed' \cup discarded']_vars

-----------------------------------------------------------------------------
(* Liveness.                                                               *)

\* Once stop() is called, all audio still in memory reaches the store or an
\* error event, unless the page dies first (recorder.ts stop).
StopFlushes == (engine = "stopping") ~> (InMemoryEmpty \/ engine = "crashed")

\* Once stop() is called it returns: the manifest is closed and "stopped" is
\* reported, or it rejects, or the page dies (recorder.ts stop).
StopReturns ==
  (engine = "stopping") ~>
    (stopPc \in {"done", "failed"} \/ engine = "crashed")

\* A rotation that has begun completes: `finalizing` never blocks the later
\* rotations of a channel for good (channel-recorder.ts rotate, handleStop).
RotationCompletes ==
  \A c \in Channel : finalizing[c] ~> ~finalizing[c]

\* A stored chunk is handed to the uploader, or its failed refresh is
\* reported, unless the page dies or stops listening: no chunk stays local
\* unnoticed (recorder.ts persistChunk).
HasChunk(S, c, k) == \E ch \in S : ch.chan = c /\ ch.seq = k

StoredIsHandedOver ==
  \A c \in Channel, k \in 0..(MaxSamples - 1) :
    HasChunk(store, c, k) ~>
      HasChunk(handed \cup reported, c, k) \/ engine = "crashed" \/ ~subscribed

-----------------------------------------------------------------------------
(* Refinement.                                                             *)

Memory == [c \in Channel |-> held[c] \cup parts[c] \cup SamplesOf(writes, c)]

Durable ==
  [c \in Channel |-> SamplesOf(store \cup reclaimed \cup discarded, c)]

\* The engine implements DurableAudio: through every rotation, pause, track
\* end, stop and failure, audio leaves memory once and oldest first, to the
\* store or to a failed write (recorder.ts, channel-recorder.ts,
\* chunk-buffer.ts, recovery-store.ts).
Abstract == INSTANCE DurableAudio WITH
  alive <- engine # "crashed", encoded <- captured, memory <- Memory,
  durable <- Durable,
  failed <- [c \in Channel |-> SamplesOf(dropped, c)]

ImplementsDurableAudio == Abstract!ASpec

=============================================================================
