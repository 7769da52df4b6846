------------------------------- MODULE Panel -------------------------------
(***************************************************************************)
(* The record page: RecorderPanel.tsx, its hook useRecorder.ts and the     *)
(* recorders the hook makes, which outlive it.  start() and stop() of the  *)
(* hook await the user's permission, the server and the recorder, and go   *)
(* on with what the hook holds by then; the panel is unmounted when the    *)
(* user opens the library or signs out (App.tsx).  The recorders' clocks   *)
(* and the timelines of their chunks are those of Timeline.                *)
(***************************************************************************)
EXTENDS Timeline, FiniteSets

CONSTANTS
  MaxRecordings, \* bound: starts of a recording
  MaxTime,       \* bound: units of time a recorder runs
  MaxChunks,     \* bound: chunks of a recording
  StoreFaults    \* may writing the manifest fail?

ASSUME PanelAssumption ==
  /\ MaxRecordings \in Nat /\ MaxTime \in Nat /\ MaxChunks \in Nat /\ StoreFaults \in BOOLEAN

Id == 1 .. MaxRecordings
Nobody == 0

VARIABLES
  tab,          \* is the panel on the page?
  ref,          \* recorderRef: the recorder the hook holds
  status, shown,\* the hook's state: status and recordingId
  rec,          \* the recordings: progress of start(), the recorder, stop()
  completed,    \* ids given to completeRecording
  clock,        \* the clock of the recorder the hook holds
  slips         \* what has happened of the things named in Slip

hookVars == <<ref, status, shown>>
vars == <<tab, hookVars, rec, completed, clock, slips>>

\* overlap: a start while another one is still under way.  left: the panel is
\* unmounted with a recording in progress.  late: the answer to a completion
\* comes when the hook holds a later recorder.  broken: start() fails with
\* some channels started.
Slip == {"overlap", "left", "late", "broken"}

PanelTypeOK ==
  /\ tab \in BOOLEAN /\ ref \in Id \cup {Nobody} /\ shown \in Id \cup {Nobody}
  /\ status \in {"idle", "starting", "recording", "paused", "stopping", "stopped", "error"}
  /\ rec \in [Id -> [at : {"none", "prompt", "create", "starting", "recording", "paused",
                           "stopping", "stopped", "failed", "broken"},
                     mine : BOOLEAN, heard : BOOLEAN, stop : {"none", "engine", "complete", "done", "failed"},
                     id : Id \cup {Nobody}]]
  /\ completed \subseteq Id /\ clock \in Clock /\ slips \subseteq Slip

Init ==
  /\ tab = TRUE /\ ref = Nobody /\ status = "idle" /\ shown = Nobody
  /\ rec = [r \in Id |-> [at |-> "none", mine |-> TRUE, heard |-> TRUE, stop |-> "none", id |-> Nobody]]
  /\ completed = {} /\ clock = NoClock /\ slips = {}

\* The hook's recorder is r from now on; only then is its clock looked at.
Holds(r) == ref' = r /\ clock' = IF r = ref THEN clock ELSE NoClock

Slips(kind, happens) == slips' = IF happens THEN slips \cup {kind} ELSE slips

Asking(r) == rec[r].at \in {"prompt", "create"}
Live(r) == rec[r].at \in {"recording", "paused"}
Active(r) == Asking(r) \/ Live(r) \/ rec[r].at = "starting"

\* The recorder of r reports its state; only the panel that made it listens,
\* until it disposes of the recorder.
Heard(r) == rec[r].mine /\ rec[r].heard
Reports(r, s) ==
  /\ rec' = [rec EXCEPT ![r].at = s]
  /\ status' = IF Heard(r) THEN s ELSE status

-----------------------------------------------------------------------------
(* start() of the hook.                                                    *)

\* The button is there until the recorder reports "starting"; the guard sees
\* only a recorder that exists by now.
ClickStart(r) ==
  /\ tab /\ status \in {"idle", "error"} /\ ref = Nobody
  /\ rec[r].at = "none" /\ \A q \in Id : q < r => rec[q].at # "none"
  /\ rec' = [rec EXCEPT ![r].at = "prompt"]
  /\ Slips("overlap", \E q \in Id : rec[q].mine /\ Asking(q))
  /\ UNCHANGED <<tab, hookVars, completed, clock>>

Prompted(r) ==
  /\ rec[r].at = "prompt" /\ rec' = [rec EXCEPT ![r].at = "create"]
  /\ UNCHANGED <<tab, hookVars, completed, clock, slips>>

\* The catch of start() forgets the hook's recorder, whichever it is.
Catches(r) ==
  IF rec[r].mine THEN Holds(Nobody) /\ status' = "error" ELSE UNCHANGED <<ref, clock, status>>

Denied(r) ==
  /\ rec[r].at = "prompt" /\ rec' = [rec EXCEPT ![r].at = "failed"] /\ Catches(r)
  /\ UNCHANGED <<tab, shown, completed, slips>>

\* The server has answered, or failed to: the recording starts either way.
Created(r) ==
  /\ rec[r].at = "create" /\ Reports(r, "starting")
  /\ Holds(IF rec[r].mine THEN r ELSE ref)
  /\ UNCHANGED <<tab, shown, completed, slips>>

\* The manifest is written and the channels run.
Starts(r) ==
  /\ rec[r].at = "starting" /\ rec' = [rec EXCEPT ![r].at = "recording"]
  /\ IF rec[r].mine THEN status' = "recording" /\ shown' = r ELSE UNCHANGED <<status, shown>>
  /\ UNCHANGED <<tab, ref, completed, clock, slips>>

\* The manifest cannot be written, or a channel cannot start and leaves those
\* before it running.
StartFails(r) ==
  /\ rec[r].at = "starting" /\ Catches(r)
  /\ \/ StoreFaults /\ rec' = [rec EXCEPT ![r].at = "failed"] /\ UNCHANGED slips
     \/ rec' = [rec EXCEPT ![r].at = "broken"] /\ Slips("broken", TRUE)
  /\ UNCHANGED <<tab, shown, completed>>

-----------------------------------------------------------------------------
(* The buttons of a running recording.                                     *)

ClickPause ==
  /\ tab /\ status = "recording" /\ ref # Nobody /\ rec[ref].at = "recording"
  /\ Reports(ref, "paused") /\ clock' = Paused(clock)
  /\ UNCHANGED <<tab, ref, shown, completed, slips>>

ClickResume ==
  /\ tab /\ status = "paused" /\ ref # Nobody /\ rec[ref].at = "paused"
  /\ Reports(ref, "recording") /\ clock' = Resumed(clock)
  /\ UNCHANGED <<tab, ref, shown, completed, slips>>

\* (mutant) the completion is sent before the recorder has stopped
CompletesFirst ==
  /\ tab /\ status \in {"recording", "paused"} /\ ref # Nobody /\ rec[ref].stop = "none" /\ Live(ref)
  /\ rec' = [rec EXCEPT ![ref].at = "stopping", ![ref].stop = "engine", ![ref].id = shown]
  /\ completed' = completed \cup ({shown} \ {Nobody}) /\ status' = "stopping"
  /\ clock' = Cut(clock, rec[ref].at = "paused")
  /\ UNCHANGED <<tab, ref, shown, slips>>

\* stop() of the hook: the recorder's stop(), which cuts the last chunks, is
\* left at once by a recorder that is not live; the id to complete is the
\* one the panel shows now.
ClickStop ==
  /\ tab /\ status \in {"recording", "paused"} /\ ref # Nobody /\ rec[ref].stop = "none"
  /\ IF Live(ref)
     THEN /\ rec' = [rec EXCEPT ![ref].at = "stopping", ![ref].stop = "engine", ![ref].id = shown]
          /\ status' = "stopping" /\ UNCHANGED completed
          /\ clock' = Cut(clock, rec[ref].at = "paused")
     ELSE /\ rec' = [rec EXCEPT ![ref].stop = "complete", ![ref].id = shown]
          /\ completed' = completed \cup ({shown} \ {Nobody}) /\ UNCHANGED <<status, clock>>
  /\ UNCHANGED <<tab, ref, shown, slips>>

\* The recorder reports "stopped", and the hook completes the recording.
Stopped(r) ==
  /\ rec[r].at = "stopping" /\ rec[r].stop = "engine"
  /\ rec' = [rec EXCEPT ![r].at = "stopped", ![r].stop = "complete"]
  /\ status' = IF Heard(r) THEN "stopped" ELSE status
  /\ completed' = completed \cup ({rec[r].id} \ {Nobody})
  /\ UNCHANGED <<tab, ref, shown, clock, slips>>

\* The manifest cannot be closed: stop() throws, nothing follows.
StopFails(r) ==
  /\ StoreFaults /\ rec[r].at = "stopping" /\ rec[r].stop = "engine"
  /\ rec' = [rec EXCEPT ![r].stop = "failed"]
  /\ UNCHANGED <<tab, hookVars, completed, clock, slips>>

\* The completion is answered, or has failed: the hook lets go of whatever
\* recorder it holds now.
Completed(r) ==
  /\ rec[r].stop = "complete" /\ rec' = [rec EXCEPT ![r].stop = "done"]
  /\ IF rec[r].mine THEN Holds(Nobody) /\ status' = "stopped" ELSE UNCHANGED <<ref, clock, status>>
  /\ Slips("late", rec[r].mine /\ ref \notin {r, Nobody})
  /\ UNCHANGED <<tab, shown, completed>>

-----------------------------------------------------------------------------
(* Leaving a recording.                                                    *)

\* reset(), offered once "stopped": dispose() of the hook's recorder ends its
\* reports, and the channels it has by then.
ClearHook == Holds(Nobody) /\ status' = "idle" /\ shown' = Nobody

\* (mutant) reset() forgets the recorder it holds without disposing of it, and
\* the panel offers it at any time
ResetAnyTime ==
  /\ tab /\ ClearHook /\ UNCHANGED <<tab, rec, completed, slips>>

Reset ==
  /\ tab /\ status = "stopped" /\ ClearHook
  /\ rec' = [r \in Id |-> IF r # ref THEN rec[r]
                          ELSE [rec[r] EXCEPT !.heard = FALSE,
                                              !.at = IF Live(r) THEN "stopped" ELSE @]]
  /\ UNCHANGED <<tab, completed, slips>>

\* Another tab, or signing out, unmounts the panel.
Leave ==
  /\ tab /\ tab' = FALSE /\ ClearHook
  /\ rec' = [r \in Id |-> [rec[r] EXCEPT !.mine = rec[r].at = "none"]]
  /\ Slips("left", \E r \in Id : rec[r].mine /\ Active(r))
  /\ UNCHANGED completed

Return == ~tab /\ tab' = TRUE /\ UNCHANGED <<hookVars, rec, completed, clock, slips>>

-----------------------------------------------------------------------------
(* Time, and the rotation interval, which a pause does not clear.          *)

Tick ==
  /\ ref # Nobody /\ Live(ref) /\ clock.age < MaxTime
  /\ clock' = Ran(clock, rec[ref].at = "recording")
  /\ UNCHANGED <<tab, hookVars, rec, completed, slips>>

\* The interval is longer than no time at all.
Rotate ==
  /\ ref # Nobody /\ Live(ref) /\ Len(clock.chunks) < MaxChunks /\ Offset(clock) # clock.from
  /\ clock' = Cut(clock, rec[ref].at = "paused")
  /\ UNCHANGED <<tab, hookVars, rec, completed, slips>>

Next ==
  \/ ClickPause \/ ClickResume \/ ClickStop \/ Reset \/ Leave \/ Return \/ Tick \/ Rotate
  \/ \E r \in Id :
       \/ ClickStart(r) \/ Prompted(r) \/ Denied(r) \/ Created(r) \/ Starts(r) \/ StartFails(r)
       \/ Stopped(r) \/ StopFails(r) \/ Completed(r)

Spec == Init /\ [][Next]_vars

-----------------------------------------------------------------------------
(* Properties.                                                             *)

\* A recorder that runs is the one the panel's buttons act on, and the panel
\* says so: of all the orders in which permissions, answers, clicks and
\* events may come, only the four of Slip lead to audio that is recorded and
\* cannot be paused or stopped (useRecorder.ts recorderRef, status).
LiveIsControlled ==
  slips = {} => \A r \in Id : Live(r) => tab /\ ref = r /\ status = rec[r].at /\ shown = r

\* The server is told that a recording is complete only when its recorder has
\* stopped, unless two starts overlapped or a completion was answered late:
\* then the hook may stop one recorder and complete the other's recording
\* (useRecorder.ts stop).
CompletedIsStopped ==
  slips \cap {"overlap", "late"} = {} => \A r \in completed : rec[r].at = "stopped"

\* While it records, the recorder's elapsed time is the time it has spent
\* recording, whatever pauses came before (recorder.ts getOffsetMs).
OffsetIsActiveTime ==
  ref # Nobody /\ rec[ref].at = "recording" => Offset(clock) = clock.active

\* Unless a chunk was cut during a pause, each chunk begins where the one
\* before it ended, and so does the one being recorded, which began in the
\* time that was recorded: together they last as long as the recording did
\* (chunk-buffer.ts rotate).
ChunksTile ==
  ~clock.blurred =>
    Tiled(clock) /\ (ref # Nobody /\ rec[ref].at = "recording" => clock.from <= clock.active)

=============================================================================
