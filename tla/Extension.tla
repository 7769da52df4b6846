----------------------------- MODULE Extension -----------------------------
(***************************************************************************)
(* The browser extension: the popup's toggle (popup.ts), the service       *)
(* worker that keeps the capture state (background.ts) and loses its       *)
(* memory whenever it is idle, and the offscreen document that records     *)
(* (offscreen.ts) and is closed when a recording has stopped.  An exchange *)
(* is one run of onToggle or refreshState with the worker's handlers of    *)
(* the messages it sends.  Handlers interleave at every await: between the *)
(* storage's answer and its assignment, a message and its delivery, the    *)
(* new state, its copy in the storage and the badge.                       *)
(***************************************************************************)
EXTENDS Integers, Sequences

CONSTANTS
  Toggle,         \* bound: exchanges of the popup that are under way
  MaxRecordings,  \* bound: starts that reach the offscreen document
  MaxWrites       \* bound: pending writes when a progress message comes

ASSUME ExtensionAssumption == MaxRecordings \in Nat /\ MaxWrites \in Nat

\* The capture state is the session it says is being recorded, or Nobody;
\* Nothing is what the storage answers before the first write.
Id == 1 .. MaxRecordings
Nobody == 0
Nothing == -1
State == Id \cup {Nobody}

VARIABLES
  memory,     \* the worker's state
  stored,     \* captureState in chrome.storage.session
  writes,     \* the calls of storage.set under way, and whose they are
  badge,      \* does the icon say REC?
  toggles,    \* the exchanges: where they are; the state or session at hand
  doc,        \* does the offscreen document exist?
  held,       \* its variable recorder
  rec,        \* the recorders of that document
  stops,      \* its runs of stopRecording, by the recorder they wait for
  slips       \* what has happened of the things named in Slip

copyVars == <<stored, writes>>
workerVars == <<memory, copyVars, badge>>
docVars == <<doc, held, rec, stops>>
vars == <<workerVars, toggles, docVars, slips>>

\* stale: the storage's answer to GET_STATE is older than what the worker has
\* noted since.  woken: a worker that has forgotten a recording is woken by its
\* progress.  starts: a start while another is under way.  ending: a start or
\* a stop while another stop is under way.  early: a stop during a start.
\* failed: the recorder does not start.
Slip == {"stale", "woken", "starts", "ending", "early", "failed"}

Running == {"opening", "starting", "recording", "stopping"}
Places == {"idle", "asking", "start", "minting", "ready", "asked", "stop", "sent", "told",
           "noting", "noted"}

ExtensionTypeOK ==
  /\ memory \in State /\ stored \in State \cup {Nothing}
  /\ writes \in Seq([state : State, by : Toggle \cup {Nobody}]) /\ badge \in BOOLEAN
  /\ toggles \in [Toggle -> [at : Places, id : State \cup {Nothing}]]
  /\ doc \in BOOLEAN /\ held \in Id \cup {Nobody}
  /\ rec \in [Id -> Running \cup {"none", "saved", "failed", "cut"}]
  /\ stops \in [Id \cup {Nobody} -> {"none", "wait", "close"}] /\ slips \subseteq Slip

Init ==
  /\ memory = Nobody /\ stored = Nothing /\ writes = <<>> /\ badge = FALSE
  /\ toggles = [t \in Toggle |-> [at |-> "idle", id |-> Nobody]]
  /\ doc = FALSE /\ held = Nobody /\ rec = [r \in Id |-> "none"]
  /\ stops = [r \in Id \cup {Nobody} |-> "none"] /\ slips = {}

Goes(t, from, to) == toggles[t].at = from /\ toggles' = [toggles EXCEPT ![t].at = to]
Becomes(t, to) == toggles' = [toggles EXCEPT ![t] = [at |-> to, id |-> Nobody]]
Harmless == slips \subseteq {"failed"}
\* After the first harmful one, it does not matter which come next.
Slips(kinds) == slips' = IF Harmless THEN slips \cup kinds ELSE slips
If(kind, happens) == IF happens THEN {kind} ELSE {}

Starting(t) == toggles[t].at \in {"minting", "ready", "asked"}
Ending ==
  (\E r \in DOMAIN stops : stops[r] # "none") \/ (\E t \in Toggle : toggles[t].at = "told")

-----------------------------------------------------------------------------
(* The worker.  The browser takes its calls of storage.set in their order. *)

Persists(state, by) == writes' = Append(writes, [state |-> state, by |-> by])

\* What the worker has noted last, whether or not it has reached the storage.
Latest == IF writes = <<>> THEN stored ELSE writes[Len(writes)].state
Said == IF Latest = Nothing THEN Nobody ELSE Latest

\* GET_STATE, sent by a click, when the popup opens, and every second while it
\* sees a recording, as far as the storage's answer.
GetState(t) ==
  /\ toggles[t].at = "idle"
  /\ toggles' = [toggles EXCEPT ![t] = [at |-> "asking", id |-> stored]]
  /\ UNCHANGED <<workerVars, docVars, slips>>

\* The answer comes: it replaces the state, whatever that is by now.  onToggle
\* goes on by it; refreshState only shows it.
Answered(t) ==
  LET copy == toggles[t].id IN
  /\ memory' = IF copy = Nothing THEN memory ELSE copy
  /\ toggles[t].at = "asking"
  /\ Becomes(t, "idle") \/ Becomes(t, IF memory' = Nobody THEN "start" ELSE "stop")
  /\ Slips(If("stale", copy \notin {Nothing, Said}))
  /\ UNCHANGED <<copyVars, badge, docVars>>

\* The popup is closed before it has sent the message.
PopupCloses(t) ==
  /\ (Goes(t, "start", "idle") \/ Goes(t, "stop", "idle"))
  /\ UNCHANGED <<workerVars, docVars, slips>>

StartCapture(t) ==
  /\ Goes(t, "start", IF memory = Nobody THEN "minting" ELSE "idle")
  /\ Slips(If("starts", memory = Nobody /\ \E u \in Toggle : Starting(u)) \cup If("ending", Ending))
  /\ UNCHANGED <<workerVars, docVars>>

\* getMediaStreamId refuses a tab that is being captured, not another one; an
\* error ends the handler without an answer.
Minted(t) ==
  /\ \/ Goes(t, "minting", "ready") /\ doc' = TRUE
     \/ Goes(t, "minting", "idle") /\ UNCHANGED doc
  /\ UNCHANGED <<workerVars, held, rec, stops, slips>>

\* OFFSCREEN_START, which nobody receives when the document was closed (nor
\* beyond the bound).
Ask(t) ==
  /\ \/ /\ doc /\ \E r \in Id :
             /\ rec[r] = "none" /\ \A q \in Id : q < r => rec[q] # "none"
             /\ toggles[t].at = "ready" /\ rec' = [rec EXCEPT ![r] = "opening"]
             /\ toggles' = [toggles EXCEPT ![t] = [at |-> "asked", id |-> r]]
     \/ /\ ~doc \/ \A r \in Id : rec[r] # "none"
        /\ Goes(t, "ready", "idle") /\ UNCHANGED rec
  /\ UNCHANGED <<workerVars, doc, held, stops, slips>>

\* The handler of t assigns the new state and awaits persist().
Notes(t, state) ==
  /\ memory' = state /\ Persists(state, t)
  /\ toggles' = [toggles EXCEPT ![t] = [at |-> "noting", id |-> state]]

\* Mutant: the new state is not persisted.
KeepsInMemory(t) ==
  /\ toggles[t].at = "asked" /\ memory' = toggles[t].id
  /\ toggles' = [toggles EXCEPT ![t].at = "noted"]
  /\ UNCHANGED <<copyVars, badge, docVars, slips>>

SetStarted(t) ==
  /\ toggles[t].at = "asked" /\ Notes(t, toggles[t].id)
  /\ UNCHANGED <<stored, badge, docVars, slips>>

StopCapture(t) ==
  /\ Goes(t, "stop", IF memory = Nobody THEN "idle" ELSE "sent")
  /\ UNCHANGED <<workerVars, docVars, slips>>

\* Mutant: the document does not wait for the recorder.
OffscreenCloses ==
  IF held # Nobody /\ rec[held] = "recording"
  THEN rec' = [rec EXCEPT ![held] = "stopping"] /\ stops' = [stops EXCEPT ![held] = "close"]
       /\ UNCHANGED held
  ELSE stops' = [stops EXCEPT ![Nobody] = "close"] /\ held' = Nobody /\ UNCHANGED rec

\* stopRecording, as far as its first await: stop() of a recorder that is not
\* recording yet returns at once, as does none at all.
OffscreenStops ==
  IF held # Nobody /\ rec[held] = "recording"
  THEN rec' = [rec EXCEPT ![held] = "stopping"] /\ stops' = [stops EXCEPT ![held] = "wait"]
       /\ UNCHANGED held
  ELSE stops' = [stops EXCEPT ![Nobody] = "close"] /\ held' = Nobody /\ UNCHANGED rec

\* OFFSCREEN_STOP arrives, or finds no document: then the handler ends.
StopArrives(t) ==
  /\ IF doc
     THEN /\ Goes(t, "sent", "told") /\ OffscreenStops
          /\ Slips(If("ending", Ending) \cup
                   If("early", \/ \E u \in Toggle : Starting(u)
                               \/ \E r \in Id : rec[r] \in {"opening", "starting"}))
     ELSE Goes(t, "sent", "idle") /\ UNCHANGED <<held, rec, stops, slips>>
  /\ UNCHANGED <<workerVars, doc>>

SetStopped(t) ==
  /\ toggles[t].at = "told" /\ Notes(t, Nobody)
  /\ UNCHANGED <<stored, badge, docVars, slips>>

\* The oldest write reaches the storage; the handler that awaits it goes on.
Lands ==
  /\ writes # <<>> /\ stored' = Head(writes).state /\ writes' = Tail(writes)
  /\ toggles' = [t \in Toggle |-> IF t = Head(writes).by /\ toggles[t].at = "noting"
                                  THEN [toggles[t] EXCEPT !.at = "noted"] ELSE toggles[t]]
  /\ UNCHANGED <<memory, badge, docVars, slips>>

SetBadge(t) ==
  /\ toggles[t].at = "noted" /\ Becomes(t, "idle") /\ badge' = (toggles[t].id # Nobody)
  /\ UNCHANGED <<memory, copyVars, docVars, slips>>

\* OFFSCREEN_PROGRESS, after every chunk: the numbers are merged into the state
\* the worker has in memory, and persisted with it.
Progress ==
  /\ \E r \in Id : rec[r] \in {"recording", "stopping", "saved", "cut"}
  /\ Len(writes) < MaxWrites /\ Persists(memory, Nobody)
  /\ Slips(If("woken", Said # Nobody /\ memory # Said))
  /\ UNCHANGED <<memory, stored, badge, toggles, docVars>>

\* A worker that was idle for 30 seconds is ended; the next event starts it
\* with the default state.
Sleep ==
  /\ (\A t \in Toggle : toggles[t].at = "idle") /\ writes = <<>>
  /\ memory' = Nobody /\ UNCHANGED <<copyVars, badge, toggles, docVars, slips>>

-----------------------------------------------------------------------------
(* The offscreen document.                                                 *)

\* getUserMedia, then the recorder, which replaces the one held.
Opens(r) ==
  /\ rec[r] = "opening" /\ rec' = [rec EXCEPT ![r] = "starting"] /\ held' = r
  /\ UNCHANGED <<workerVars, toggles, doc, stops, slips>>

Starts(r) ==
  /\ rec[r] = "starting" /\ rec' = [rec EXCEPT ![r] = "recording"]
  /\ UNCHANGED <<workerVars, toggles, doc, held, stops, slips>>

\* No stream, or no manifest: nobody hears of it.
Fails(r) ==
  /\ rec[r] \in {"opening", "starting"} /\ rec' = [rec EXCEPT ![r] = "failed"]
  /\ Slips({"failed"}) /\ UNCHANGED <<workerVars, toggles, doc, held, stops>>

Saved(r) ==
  /\ stops[r] = "wait" /\ rec' = [rec EXCEPT ![r] = "saved"]
  /\ stops' = [stops EXCEPT ![r] = "close"] /\ held' = Nobody
  /\ UNCHANGED <<workerVars, toggles, doc, slips>>

\* The document goes with everything in it.
CloseDocument(r) ==
  /\ stops[r] = "close" /\ doc' = FALSE /\ held' = Nobody
  /\ rec' = [q \in Id |-> IF rec[q] \in Running THEN "cut" ELSE rec[q]]
  /\ stops' = [q \in DOMAIN stops |-> "none"]
  /\ UNCHANGED <<workerVars, toggles, slips>>

Next ==
  \/ Lands \/ Progress \/ Sleep
  \/ \E t \in Toggle :
       \/ GetState(t) \/ Answered(t) \/ PopupCloses(t) \/ StartCapture(t) \/ Minted(t) \/ Ask(t)
       \/ SetStarted(t) \/ StopCapture(t) \/ StopArrives(t) \/ SetStopped(t) \/ SetBadge(t)
  \/ \E r \in Id : Opens(r) \/ Starts(r) \/ Fails(r) \/ Saved(r)
  \/ \E r \in DOMAIN stops : CloseDocument(r)

Spec == Init /\ [][Next]_vars

-----------------------------------------------------------------------------
(* Properties.                                                             *)

Told(r) == \E t \in Toggle : toggles[t].at = "asked" /\ toggles[t].id = r

\* What records is what the toggle stops: the recorder the document holds is
\* the one the worker has noted, or is about to note, whatever sleeps, polls
\* and pending writes come between -- unless one of the slips has happened.
\* Each of them, a stale answer to GET_STATE (background.ts:89) first, can
\* leave a recorder that nothing stops (background.ts state and persist,
\* offscreen.ts recorder).
RecordingCanBeStopped ==
  Harmless =>
    \A r \in Id : rec[r] = "recording" => held = r /\ (Said = r \/ Told(r))

\* The document is not closed over a recording: a stop waits until the audio
\* is saved, unless one of those slips came before: a stop that is early, one
\* that ends under the next start, or a recorder that another has replaced
\* (offscreen.ts stopRecording).
NothingIsCut ==
  Harmless => \A r \in Id : rec[r] # "cut"

=============================================================================
