------------------------ MODULE TranscriptLifecycle ------------------------
(***************************************************************************)
(* What the transcript of a recording promises to those who read it: its   *)
(* text is replaced by the text of a later run and by nothing else, it is  *)
(* not 'completed' without a text, and it goes with the recording.  The    *)
(* statuses may follow each other in any order: a request may come, and a  *)
(* worker may be at any point of a run, at any time.                       *)
(***************************************************************************)
CONSTANT Text           \* the texts that runs of the driver return

VARIABLES status, text  \* text is a set: {} or the one that is stored

tVars == <<status, text>>

TInit == status = "none" /\ text = {}

\* POST /recordings/:id/transcribe
Requested == status # "deleted" /\ status' = "queued" /\ UNCHANGED text

\* A run of the worker starts, stores what the driver returned, or fails.
Started == status \notin {"none", "deleted"} /\ status' = "processing" /\ UNCHANGED text
Completed ==
  /\ status \notin {"none", "deleted"} /\ status' = "completed"
  /\ \E t \in Text : text' = {t}
Failed == status \notin {"none", "deleted"} /\ status' = "failed" /\ UNCHANGED text

Deleted == status' = "deleted" /\ text' = {}

TNext == Requested \/ Started \/ Completed \/ Failed \/ Deleted

TSpec == TInit /\ [][TNext]_tVars

=============================================================================
