------------------------ MODULE TranscriptionProofs ------------------------
(***************************************************************************)
(* Transcription, for any number of jobs, channels, chunks and attempts:   *)
(* its types, that 'completed' and a summary come with a text, that both   *)
(* rows agree when nothing is under way, and that the transcript row is a  *)
(* TranscriptLifecycle.                                                    *)
(***************************************************************************)
EXTENDS Transcription, TLAPS

JobRec == [state : {"unused", "waiting", "active", "done", "dead"},
           failed : 0..Attempts, stalled : 0..1]
WorkerRec == [job : SUBSET Job,
              at : Stages \cup {"idle", "fail", "failRec", "giveUp", "giveUpRec"}]
RowRec == [status : Statuses \cup {"none"}, text : SUBSET Job]

\* The worker has one job, which is active; a job that may run again has
\* attempts left.
WorkerInv ==
  /\ worker = Idle \/ \E j \in Job : worker.job = {j} /\ jobs[j].state = "active"
  /\ \A j \in Job : jobs[j].state \notin {"done", "dead"} => jobs[j].failed < Attempts

\* Once there was a request the row has a status; a text that was stored stays
\* as long as the recording.
TextInv ==
  /\ CompletedHasText
  /\ worker.at \in {"storeRec", "summary"} /\ Exists => transcript.text # {}
  /\ Exists /\ transcript.status = "none" =>
       /\ request["status"] = 0 /\ request["enqueue"] = 0
       /\ \A j \in Job : Unused(j)

AllInv == TypeOK /\ WorkerInv /\ TextInv

\* With no request under way and no job behind the one that runs, nothing has
\* been written to the rows since that one was taken but what it wrote.
NothingBehind == Pending = 0 /\ \A j \in Job : jobs[j].state # "waiting"

SettleInv ==
  NothingBehind /\ ~faulted /\ Exists =>
    /\ worker.at = "idle" =>
         recStatus = transcript.status /\ recStatus \notin {"queued", "processing"}
    /\ worker.at \in {"failRec", "giveUpRec"} => transcript.status = "failed"
    /\ worker.at \in {"storeRec", "summary"} => transcript.status = "completed"
    /\ worker.at = "summary" => recStatus = "completed"

-----------------------------------------------------------------------------
(* The parts of a step.                                                    *)

LEMMA NoJob == Idle \in WorkerRec /\ Idle.job = {} /\ Idle.at = "idle"
BY DEF Idle, WorkerRec, Stages

LEMMA NoRow == [status |-> "none", text |-> {}] \in RowRec
BY DEF RowRec

LEMMA Types ==
  TypeOK <=> /\ chunks \in [Channel -> 0..MaxChunks] /\ transcript \in RowRec
             /\ recStatus \in Statuses \cup {"none", "deleted"}
             /\ summary \in BOOLEAN /\ request \in [{"status", "enqueue"} -> Nat]
             /\ jobs \in [Job -> JobRec] /\ worker \in WorkerRec /\ faulted \in BOOLEAN
BY DEF TypeOK, RowRec, JobRec, WorkerRec

LEMMA TypesNext ==
  TypeOK' <=> /\ chunks' \in [Channel -> 0..MaxChunks] /\ transcript' \in RowRec
              /\ recStatus' \in Statuses \cup {"none", "deleted"}
              /\ summary' \in BOOLEAN /\ request' \in [{"status", "enqueue"} -> Nat]
              /\ jobs' \in [Job -> JobRec] /\ worker' \in WorkerRec /\ faulted' \in BOOLEAN
BY DEF TypeOK, RowRec, JobRec, WorkerRec

LEMMA InitAll == TranscriptionInit => AllInv
<1> SUFFICES ASSUME TranscriptionInit PROVE AllInv
  OBVIOUS
<1> USE TranscriptionAssumption
<1>1. transcript \in RowRec /\ worker \in WorkerRec
  BY NoJob, NoRow DEF TranscriptionInit
<1>2. jobs \in [Job -> JobRec] /\ chunks \in [Channel -> 0..MaxChunks]
  BY DEF TranscriptionInit, JobRec
<1>3. TypeOK
  BY <1>1, <1>2, Types DEF TranscriptionInit
<1>4. WorkerInv
  BY DEF TranscriptionInit, WorkerInv
<1>5. TextInv
  BY NoJob DEF TranscriptionInit, TextInv, CompletedHasText, Unused
<1> QED BY <1>3, <1>4, <1>5 DEF AllInv

\* The worker moves to another statement: nothing else of WorkerInv changes.
LEMMA WorkerMoves ==
  ASSUME AllInv, NEW s \in Stages \cup {"fail", "failRec", "giveUp", "giveUpRec"},
         worker # Idle, Goto(s), UNCHANGED jobs
  PROVE  worker' \in WorkerRec /\ worker'.at = s /\ WorkerInv'
<1>1. worker' \in WorkerRec /\ worker'.at = s /\ worker'.job = worker.job
  BY Types DEF AllInv, Goto, WorkerRec
<1> QED BY <1>1 DEF AllInv, WorkerInv

\* The job that ends, or is left to be tried again.
LEMMA WorkerEnds ==
  ASSUME AllInv, worker # Idle, End("done") \/ Rethrow
  PROVE  /\ jobs' \in [Job -> JobRec] /\ worker' = Idle /\ WorkerInv'
         /\ \A i \in Job : jobs'[i].state = "unused" <=> jobs[i].state = "unused"
<1>1. PICK j \in Job : worker.job = {j} /\ jobs[j].state = "active"
  BY DEF AllInv, WorkerInv
<1>2. jobs \in [Job -> JobRec] /\ jobs[j].failed < Attempts
  BY <1>1, Types DEF AllInv, WorkerInv
<1>3. /\ DOMAIN jobs' = Job /\ worker' = Idle
      /\ \A i \in Job \ {j} : jobs'[i] = jobs[i]
  BY <1>1 DEF End, Rethrow
<1>4. jobs' = [i \in Job |-> jobs'[i]]
  BY DEF End, Rethrow
<1>5. jobs'[j] = [jobs[j] EXCEPT !.state = "done"]
        \/ jobs'[j] = [jobs[j] EXCEPT !.failed = jobs[j].failed + 1, !.state = AfterFailure(j)]
  BY <1>1 DEF End, Rethrow
<1>6. /\ jobs'[j] \in JobRec /\ jobs'[j].state # "unused"
      /\ jobs'[j].state \notin {"done", "dead"} => jobs'[j].failed < Attempts
  <2>1. jobs[j] \in JobRec /\ jobs[j].failed \in 0..Attempts
    BY <1>2 DEF JobRec
  <2>2. CASE jobs'[j] = [jobs[j] EXCEPT !.state = "done"]
    BY <2>1, <2>2 DEF JobRec
  <2>3. CASE jobs'[j] = [jobs[j] EXCEPT !.failed = jobs[j].failed + 1, !.state = AfterFailure(j)]
    <3> DEFINE n == jobs[j].failed + 1  a == AfterFailure(j)
    <3>1. /\ n \in 0..Attempts /\ a \in {"waiting", "dead"}
          /\ a = "waiting" => n < Attempts
      BY <1>2, <2>1, TranscriptionAssumption DEF AfterFailure
    <3> HIDE DEF n, a
    <3>2. jobs'[j] = [jobs[j] EXCEPT !.failed = n, !.state = a]
      BY <2>3 DEF n, a
    <3> QED BY <2>1, <3>1, <3>2 DEF JobRec
  <2> QED BY <1>5, <2>2, <2>3
<1>7. jobs' \in [Job -> JobRec]
  BY <1>2, <1>3, <1>4, <1>6
<1> QED BY <1>1, <1>3, <1>6, <1>7 DEF AllInv, WorkerInv

\* What is left to show when the rows and the requests stay as they are.
LEMMA TextStays ==
  ASSUME AllInv, UNCHANGED <<transcript, recStatus, summary>>,
         worker'.at \in {"storeRec", "summary"} =>
           worker.at \in {"storeRec", "summary"},
         Exists /\ transcript.status = "none" =>
           /\ request'["status"] = 0 /\ request'["enqueue"] = 0
           /\ \A j \in Job : Unused(j)'
  PROVE  TextInv'
BY DEF AllInv, TextInv, CompletedHasText, Exists

-----------------------------------------------------------------------------
(* The actions.                                                            *)

LEMMA RequestStep ==
  ASSUME AllInv, Request \/ RequestStatus \/ Enqueue \/ RequestFails
  PROVE  AllInv'
<1> USE DEF rowVars
<1>t. /\ chunks \in [Channel -> 0..MaxChunks] /\ transcript \in RowRec
      /\ recStatus \in Statuses \cup {"none", "deleted"}
      /\ summary \in BOOLEAN /\ request \in [{"status", "enqueue"} -> Nat]
      /\ jobs \in [Job -> JobRec] /\ worker \in WorkerRec /\ faulted \in BOOLEAN
  BY Types DEF AllInv
<1>1. CASE Request
  <2>1. /\ transcript' \in RowRec /\ transcript'.status = "queued"
        /\ transcript'.text = transcript.text
    BY <1>1, <1>t DEF Request, SetTranscript, RowRec, Statuses
  <2>2. request' \in [{"status", "enqueue"} -> Nat]
    BY <1>1, <1>t DEF Request
  <2>3. TypeOK'
    BY <1>1, <1>t, <2>1, <2>2, TypesNext DEF Request
  <2>4. WorkerInv'
    BY <1>1 DEF Request, AllInv, WorkerInv
  <2>5. TextInv'
    BY <1>1, <2>1 DEF Request, AllInv, TextInv, CompletedHasText, Exists
  <2> QED BY <2>3, <2>4, <2>5 DEF AllInv
<1>2. CASE RequestStatus
  <2>1. request' \in [{"status", "enqueue"} -> Nat]
    BY <1>2, <1>t DEF RequestStatus
  <2>2. TypeOK'
    BY <1>2, <1>t, <2>1, TypesNext DEF RequestStatus, Statuses
  <2>3. WorkerInv'
    BY <1>2 DEF RequestStatus, AllInv, WorkerInv
  <2>4. TextInv'
    BY <1>2, <1>t DEF RequestStatus, AllInv, TextInv, CompletedHasText, Exists, Unused
  <2> QED BY <2>2, <2>3, <2>4 DEF AllInv
<1>3. CASE Enqueue
  <2>1. PICK j \in Job : /\ Unused(j)
                         /\ jobs' = [jobs EXCEPT ![j].state = "waiting"]
    <3>1. PICK j \in Job : /\ \A i \in Job : Unused(i) <=> i >= j
                           /\ jobs' = [jobs EXCEPT ![j].state = "waiting"]
      BY <1>3 DEF Enqueue
    <3>2. j >= j
      BY TranscriptionAssumption
    <3> QED BY <3>1, <3>2
  <2>2. request' \in [{"status", "enqueue"} -> Nat]
    BY <1>3, <1>t DEF Enqueue
  <2>3. [jobs[j] EXCEPT !.state = "waiting"] \in JobRec
    BY <1>t DEF JobRec
  <2>4. jobs' \in [Job -> JobRec] /\ \A i \in Job : jobs'[i].failed = jobs[i].failed
        /\ jobs'[i].state \in {jobs[i].state, "waiting"}
        /\ (jobs'[i] = jobs[i] \/ jobs[i].state = "unused")
    BY <1>t, <2>1, <2>3 DEF Unused, JobRec
  <2>5. TypeOK'
    BY <1>3, <1>t, <2>2, <2>4, TypesNext DEF Enqueue
  <2>6. WorkerInv'
    BY <1>3, <2>4, ZenonT(40) DEF Enqueue, AllInv, WorkerInv
  <2>7. transcript.status # "none" \/ ~Exists
    BY <1>3, <1>t DEF Enqueue, AllInv, TextInv
  <2>8. TextInv'
    BY <1>3, <2>7, TextStays DEF Enqueue
  <2> QED BY <2>5, <2>6, <2>8 DEF AllInv
<1>4. CASE RequestFails
  <2>1. request' \in [{"status", "enqueue"} -> Nat]
    BY <1>4, <1>t DEF RequestFails
  <2>2. TypeOK'
    BY <1>4, <1>t, <2>1, TypesNext DEF RequestFails
  <2>3. WorkerInv'
    BY <1>4 DEF RequestFails, AllInv, WorkerInv
  <2>4. TextInv'
    BY <1>4, <1>t DEF RequestFails, AllInv, TextInv, CompletedHasText, Exists, Unused
  <2> QED BY <2>2, <2>3, <2>4 DEF AllInv
<1> QED BY <1>1, <1>2, <1>3, <1>4

LEMMA WorkerStep ==
  ASSUME AllInv, Process \/ Throw
  PROVE  AllInv'
<1> USE DEF rowVars
<1>t. /\ chunks \in [Channel -> 0..MaxChunks] /\ transcript \in RowRec
      /\ recStatus \in Statuses \cup {"none", "deleted"}
      /\ summary \in BOOLEAN /\ request \in [{"status", "enqueue"} -> Nat]
      /\ jobs \in [Job -> JobRec] /\ worker \in WorkerRec /\ faulted \in BOOLEAN
  BY Types DEF AllInv
<1>b. worker.at # "idle" => worker # Idle
  BY NoJob
<1>n. ASSUME worker # Idle PROVE Exists => transcript.status # "none"
  BY <1>n DEF AllInv, WorkerInv, TextInv, Unused
<1>1. ASSUME NEW j \in Job, Take(j) PROVE AllInv'
  <2>0. PICK at \in {"mark", "giveUp"} : worker' = [job |-> {j}, at |-> at]
    BY <1>1 DEF Take
  <2> DEFINE w == [job |-> {j}, at |-> at]
  <2>1. [jobs[j] EXCEPT !.state = "active"] \in JobRec /\ jobs[j].failed < Attempts
    BY <1>1, <1>t DEF Take, JobRec, AllInv, WorkerInv
  <2>2. /\ jobs' \in [Job -> JobRec] /\ jobs'[j].state = "active"
        /\ jobs'[j].failed = jobs[j].failed
        /\ \A i \in Job : i # j => jobs'[i] = jobs[i]
    BY <1>1, <1>t, <2>1 DEF Take, JobRec
  <2>3. w \in WorkerRec /\ worker' = w
    BY <2>0 DEF WorkerRec, Stages
  <2>4. TypeOK'
    BY <1>1, <1>t, <2>2, <2>3, TypesNext DEF Take
  <2>5. WorkerInv'
    BY <2>1, <2>2, <2>3 DEF AllInv, WorkerInv
  <2>6. transcript.status # "none" \/ ~Exists
    BY <1>1, <1>t DEF Take, AllInv, TextInv, Unused
  <2>7. TextInv'
    BY <1>1, <2>3, <2>6, TextStays DEF Take
  <2> QED BY <2>4, <2>5, <2>7 DEF AllInv
<1>2. CASE Assemble \/ Drive \/ Throw
  <2>1. PICK s \in {"drive", "giveUp", "store", "fail"} : Goto(s)
    BY <1>2 DEF Assemble, Drive, Throw
  <2>2. /\ worker # Idle /\ UNCHANGED <<rowVars, request, jobs>> /\ faulted' \in BOOLEAN
    BY <1>2, <1>t, <1>b DEF Assemble, Drive, Throw, At, Stages
  <2>3. worker' \in WorkerRec /\ worker'.at = s /\ WorkerInv'
    BY <2>1, <2>2, WorkerMoves DEF Stages
  <2>4. TypeOK'
    BY <1>t, <2>2, <2>3, TypesNext
  <2>5. TextInv'
    BY <1>n, <2>2, <2>3, TextStays
  <2> QED BY <2>3, <2>4, <2>5 DEF AllInv
<1>3. CASE Mark \/ (FailTranscript /\ UNCHANGED jobs /\ worker' # Idle)
  <2>1. /\ worker # Idle
        /\ UNCHANGED <<chunks, recStatus, summary, request, jobs>> /\ faulted' \in BOOLEAN
    BY <1>3, <1>t, <1>b DEF Mark, WriteTranscript, FailTranscript, At
  <2>2. \/ /\ ~Exists /\ UNCHANGED transcript
        \/ /\ transcript' \in RowRec /\ transcript'.text = transcript.text
           /\ transcript'.status \in {"processing", "failed"}
    BY <1>3, <1>t DEF Mark, WriteTranscript, FailTranscript, SetTranscript, RowRec, Statuses,
       Return, End, Rethrow
  <2>3. PICK s \in {"markRec", "fail", "failRec", "giveUpRec"} : Goto(s)
    BY <1>3 DEF Mark, WriteTranscript, FailTranscript, Return, End, Rethrow
  <2>4. worker' \in WorkerRec /\ worker'.at = s /\ WorkerInv'
    BY <2>1, <2>3, WorkerMoves DEF Stages
  <2>5. TypeOK'
    BY <1>t, <2>1, <2>2, <2>4, TypesNext
  <2>6. TextInv'
    BY <2>1, <2>2, <2>4 DEF AllInv, TextInv, CompletedHasText, Exists
  <2> QED BY <2>4, <2>5, <2>6 DEF AllInv
<1>4. CASE MarkRec \/ StoreRec
  <2>1. /\ worker # Idle
        /\ UNCHANGED <<chunks, transcript, summary, request, jobs, faulted>>
    BY <1>4, <1>b DEF MarkRec, StoreRec, WriteRecording, At
  <2>2. PICK s \in {"assemble", "summary", "fail"} :
          /\ Goto(s)
          /\ s = "summary" => At("storeRec")
    BY <1>4 DEF MarkRec, StoreRec, WriteRecording
  <2>3. \/ ~Exists /\ UNCHANGED recStatus
        \/ Exists /\ recStatus' = "processing"
        \/ Exists /\ recStatus' = "completed" /\ transcript.text # {}
    BY <1>4 DEF MarkRec, StoreRec, WriteRecording, AllInv, TextInv, At
  <2>4. worker' \in WorkerRec /\ worker'.at = s /\ WorkerInv'
    BY <2>1, <2>2, WorkerMoves DEF Stages
  <2>5. TypeOK'
    BY <1>t, <2>1, <2>3, <2>4, TypesNext DEF Statuses
  <2>6. TextInv'
    BY <1>n, <2>1, <2>2, <2>3, <2>4 DEF AllInv, TextInv, CompletedHasText, Exists, At
  <2> QED BY <2>4, <2>5, <2>6 DEF AllInv
<1>5. CASE Store
  <2>1. /\ worker # Idle
        /\ UNCHANGED <<chunks, recStatus, summary, request, jobs, faulted>>
    BY <1>5, <1>b DEF Store, At
  <2>2. worker.job # {} /\ worker.job \subseteq Job
    BY <1>t, <2>1 DEF AllInv, WorkerInv, WorkerRec
  <2>3. \/ /\ transcript' \in RowRec /\ transcript'.text # {} /\ transcript'.status = "completed"
           /\ Goto("storeRec")
        \/ ~Exists /\ UNCHANGED transcript /\ Goto("fail")
    BY <1>5, <2>2 DEF Store, RowRec, Statuses
  <2>4. worker' \in WorkerRec /\ worker'.at \in {"storeRec", "fail"} /\ WorkerInv'
    BY <2>1, <2>3, WorkerMoves DEF Stages
  <2>5. TypeOK'
    BY <1>t, <2>1, <2>3, <2>4, TypesNext
  <2>6. TextInv'
    BY <2>1, <2>3, <2>4 DEF AllInv, TextInv, CompletedHasText, Exists
  <2> QED BY <2>4, <2>5, <2>6 DEF AllInv
<1>6. CASE Summarize
  <2>1. worker # Idle /\ UNCHANGED <<chunks, transcript, recStatus, request, faulted>>
    BY <1>6, <1>b DEF Summarize, At
  <2>2. CASE Exists /\ summary' = TRUE /\ End("done")
    <3>1. /\ jobs' \in [Job -> JobRec] /\ worker' = Idle /\ WorkerInv'
          /\ \A i \in Job : jobs'[i].state = "unused" <=> jobs[i].state = "unused"
      BY <2>1, <2>2, WorkerEnds
    <3>2. TypeOK'
      BY <1>t, <2>1, <2>2, <3>1, NoJob, TypesNext
    <3>3. TextInv'
      BY <1>6, <1>n, <2>1, <2>2, <3>1, NoJob
         DEF Summarize, At, AllInv, TextInv, CompletedHasText, Exists
    <3> QED BY <3>1, <3>2, <3>3 DEF AllInv
  <2>3. CASE ~Exists /\ Goto("fail") /\ UNCHANGED <<summary, jobs>>
    <3>1. worker' \in WorkerRec /\ worker'.at = "fail" /\ WorkerInv'
      BY <2>1, <2>3, WorkerMoves
    <3>2. TypeOK'
      BY <1>t, <2>1, <2>3, <3>1, TypesNext
    <3>3. TextInv'
      BY <1>n, <2>1, <2>3, <3>1, TextStays
    <3> QED BY <3>1, <3>2, <3>3 DEF AllInv
  <2> QED BY <1>6, <2>2, <2>3 DEF Summarize
<1>7. CASE FailRecording \/ (FailTranscript /\ Return)
  <2>1. /\ worker # Idle /\ Return /\ UNCHANGED <<chunks, summary, request>>
        /\ faulted' \in BOOLEAN
    BY <1>7, <1>t, <1>b DEF FailRecording, FailTranscript
  <2>2. /\ jobs' \in [Job -> JobRec] /\ worker' = Idle /\ WorkerInv'
        /\ \A i \in Job : jobs'[i].state = "unused" <=> jobs[i].state = "unused"
    BY <2>1, WorkerEnds DEF Return
  <2>3. \/ UNCHANGED <<transcript, recStatus>>
        \/ Exists /\ recStatus' = "failed" /\ UNCHANGED transcript
        \/ /\ Exists /\ UNCHANGED recStatus /\ transcript' \in RowRec
           /\ transcript'.text = transcript.text /\ transcript'.status = "failed"
    BY <1>7, <1>t DEF FailRecording, FailTranscript, SetTranscript, RowRec, Statuses
  <2>4. TypeOK'
    BY <1>t, <2>1, <2>2, <2>3, NoJob, TypesNext DEF Statuses
  <2>5. TextInv'
    BY <1>n, <2>1, <2>2, <2>3, NoJob DEF AllInv, TextInv, CompletedHasText, Exists, Unused
  <2> QED BY <2>2, <2>4, <2>5 DEF AllInv
<1>8. CASE FailTranscript
  <2>1. Return \/ (UNCHANGED jobs /\ worker' # Idle)
    BY <1>8, <1>t, NoJob DEF FailTranscript, Goto, WorkerRec
  <2> QED BY <1>3, <1>7, <1>8, <2>1
<1> QED BY <1>1, <1>2, <1>3, <1>4, <1>5, <1>6, <1>7, <1>8 DEF Process

LEMMA WorldStep ==
  ASSUME AllInv, Restart \/ Delete \/ \E c \in Channel : Commit(c)
  PROVE  AllInv'
<1> USE DEF rowVars
<1>t. /\ chunks \in [Channel -> 0..MaxChunks] /\ transcript \in RowRec
      /\ recStatus \in Statuses \cup {"none", "deleted"}
      /\ summary \in BOOLEAN /\ request \in [{"status", "enqueue"} -> Nat]
      /\ jobs \in [Job -> JobRec] /\ worker \in WorkerRec /\ faulted \in BOOLEAN
  BY Types DEF AllInv
<1>1. CASE Restart
  <2>1. \A j \in Job :
          /\ [jobs[j] EXCEPT !.stalled = 1, !.state = "waiting"] \in JobRec
          /\ [jobs[j] EXCEPT !.state = "dead"] \in JobRec
    <3>1. \A r \in JobRec : [r EXCEPT !.stalled = 1] \in JobRec
      BY DEF JobRec
    <3>2. \A r \in JobRec, a \in {"waiting", "dead"} : [r EXCEPT !.state = a] \in JobRec
      BY DEF JobRec
    <3>3. ASSUME NEW j \in Job PROVE jobs[j] \in JobRec
      BY <1>t
    <3>4. ASSUME NEW r \in JobRec
          PROVE  [r EXCEPT !.stalled = 1, !.state = "waiting"]
                   = [[r EXCEPT !.stalled = 1] EXCEPT !.state = "waiting"]
      OBVIOUS
    <3> QED BY <3>1, <3>2, <3>3, <3>4
  <2>2. \A j \in worker.job : jobs[j].state = "active"
    BY NoJob DEF AllInv, WorkerInv
  <2>3. /\ jobs' \in [Job -> JobRec] /\ worker' = Idle /\ faulted' = TRUE
        /\ request' \in [{"status", "enqueue"} -> Nat]
    BY <1>1, <1>t, <2>1 DEF Restart
  <2>4. \A j \in Job : \/ jobs'[j] = jobs[j]
                       \/ /\ jobs[j].state = "active"
                          /\ jobs'[j].state \in {"waiting", "dead"}
                          /\ jobs'[j].failed = jobs[j].failed
    BY <1>1, <1>t, <2>2 DEF Restart, JobRec
  <2>5. TypeOK'
    BY <1>1, <1>t, <2>3, NoJob, TypesNext DEF Restart
  <2>6. WorkerInv'
    BY <2>3, <2>4 DEF AllInv, WorkerInv
  <2>7. TextInv'
    BY <1>1, <2>3, <2>4, NoJob, ZenonT(40) DEF Restart, AllInv, TextInv, CompletedHasText, Exists, Unused
  <2> QED BY <2>5, <2>6, <2>7 DEF AllInv
<1>2. CASE Delete
  <2>1. /\ transcript' \in RowRec /\ chunks' \in [Channel -> 0..MaxChunks]
        /\ recStatus' = "deleted" /\ summary' = FALSE /\ transcript'.status = "none"
    BY <1>2, NoRow, TranscriptionAssumption DEF Delete
  <2>2. TypeOK'
    BY <1>2, <1>t, <2>1, TypesNext DEF Delete
  <2>3. WorkerInv'
    BY <1>2 DEF Delete, AllInv, WorkerInv
  <2>4. TextInv'
    BY <2>1 DEF TextInv, CompletedHasText, Exists
  <2> QED BY <2>2, <2>3, <2>4 DEF AllInv
<1>3. ASSUME NEW c \in Channel, Commit(c) PROVE AllInv'
  <2>1. chunks' \in [Channel -> 0..MaxChunks]
    BY <1>3, <1>t, TranscriptionAssumption DEF Commit
  <2>2. TypeOK'
    BY <1>3, <1>t, <2>1, TypesNext DEF Commit
  <2>3. WorkerInv'
    BY <1>3 DEF Commit, AllInv, WorkerInv
  <2>4. TextInv'
    BY <1>3 DEF Commit, AllInv, TextInv, CompletedHasText, Exists, Unused
  <2> QED BY <2>2, <2>3, <2>4 DEF AllInv
<1> QED BY <1>1, <1>2, <1>3

LEMMA AllStep == AllInv /\ [TranscriptionNext]_trVars => AllInv'
<1> SUFFICES ASSUME AllInv, [TranscriptionNext]_trVars PROVE AllInv'
  OBVIOUS
<1>1. CASE UNCHANGED trVars
  BY <1>1 DEF trVars, AllInv, TypeOK, WorkerInv, TextInv, CompletedHasText, Exists, Unused
<1> QED BY <1>1, RequestStep, WorkerStep, WorldStep DEF TranscriptionNext

-----------------------------------------------------------------------------
(* The theorems.                                                           *)

\* The invariant of requests, queue and worker.
THEOREM AllInvHolds == TranscriptionSpec => []AllInv
<1> QED BY InitAll, AllStep, PTL DEF TranscriptionSpec

\* Every variable of the transcription keeps its type.
THEOREM TranscriptionTypes == TranscriptionSpec => []TypeOK
<1>1. AllInv => TypeOK
  BY DEF AllInv
<1> QED BY <1>1, AllInvHolds, PTL

\* A recording that is 'completed', or has a summary, has its text, whatever
\* fails and whenever the worker dies.
THEOREM CompletedRowsHaveText == TranscriptionSpec => []CompletedHasText
<1>1. AllInv => CompletedHasText
  BY DEF AllInv, TextInv
<1> QED BY <1>1, AllInvHolds, PTL

\* Only a request that enqueues its job ends without one, and then the job
\* waits.
LEMMA SettleRequest ==
  ASSUME AllInv, SettleInv, Request \/ RequestStatus \/ Enqueue \/ RequestFails
  PROVE  SettleInv'
<1>t. request \in [{"status", "enqueue"} -> Nat] /\ jobs \in [Job -> JobRec]
  BY Types DEF AllInv
<1>1. CASE Request
  BY <1>1, <1>t DEF Request, SettleInv, NothingBehind, Pending
<1>2. CASE RequestStatus
  BY <1>2, <1>t DEF RequestStatus, SettleInv, NothingBehind, Pending, Exists
<1>3. CASE Enqueue
  <2>1. \E j \in Job : jobs'[j].state = "waiting"
    BY <1>3, <1>t DEF Enqueue, JobRec
  <2> QED BY <2>1 DEF SettleInv, NothingBehind
<1>4. CASE RequestFails
  BY <1>4 DEF RequestFails, SettleInv
<1> QED BY <1>1, <1>2, <1>3, <1>4

\* A job that ends, or is given up, leaves the others as they were.
LEMMA EndLeaves ==
  ASSUME AllInv, worker # Idle, End("done") \/ Rethrow, NothingBehind'
  PROVE  \A j \in Job : jobs[j].state # "waiting"
<1>1. PICK j \in Job : worker.job = {j} /\ jobs[j].state = "active"
  BY DEF AllInv, WorkerInv
<1>2. \A i \in Job \ {j} : jobs'[i] = jobs[i]
  BY <1>1 DEF End, Rethrow
<1> QED BY <1>1, <1>2 DEF NothingBehind

LEMMA SettleWorker ==
  ASSUME AllInv, SettleInv, Process \/ Throw
  PROVE  SettleInv'
<1> USE DEF rowVars
<1>t. transcript \in RowRec /\ worker \in WorkerRec /\ jobs \in [Job -> JobRec]
  BY Types DEF AllInv
<1>b. worker.at # "idle" => worker # Idle
  BY NoJob
<1>g. ASSUME NEW s, Goto(s) PROVE worker'.at = s
  BY <1>g, <1>t DEF Goto, WorkerRec
<1>w. ASSUME NEW s, SetTranscript(s) PROVE transcript'.status = s
  BY <1>w, <1>t DEF SetTranscript, RowRec
<1>s. ASSUME UNCHANGED <<request, jobs>> PROVE NothingBehind' = NothingBehind
  BY <1>s DEF NothingBehind, Pending
<1> SUFFICES ASSUME NothingBehind', ~faulted', Exists'
             PROVE  /\ worker'.at = "idle" =>
                         recStatus' = transcript'.status /\ recStatus' \notin {"queued", "processing"}
                    /\ worker'.at \in {"failRec", "giveUpRec"} => transcript'.status = "failed"
                    /\ worker'.at \in {"storeRec", "summary"} => transcript'.status = "completed"
                    /\ worker'.at = "summary" => recStatus' = "completed"
  BY DEF SettleInv
<1>1. ASSUME NEW j \in Job, Take(j) PROVE worker'.at \in {"mark", "giveUp"}
  BY <1>1 DEF Take
<1>2. CASE Mark \/ MarkRec \/ Assemble \/ Drive \/ Throw
  <2>1. \E s \in {"markRec", "fail", "assemble", "drive", "giveUp", "store"} : Goto(s)
    BY <1>2 DEF Mark, MarkRec, WriteTranscript, WriteRecording, Assemble, Drive, Throw
  <2> QED BY <2>1, <1>g
<1>3. CASE Store
  <2>1. Exists /\ transcript'.status = "completed" /\ Goto("storeRec")
    BY <1>3 DEF Store, Exists
  <2> QED BY <2>1, <1>g
<1>4. CASE StoreRec
  <2>1. /\ At("storeRec") /\ Exists /\ recStatus' = "completed" /\ Goto("summary")
        /\ UNCHANGED <<transcript, request, jobs, faulted>>
    BY <1>4 DEF StoreRec, WriteRecording, Exists
  <2>2. transcript.status = "completed"
    BY <2>1, <1>s DEF SettleInv, At
  <2> QED BY <2>1, <2>2, <1>g
<1>5. CASE Summarize
  <2>1. /\ At("summary") /\ Exists /\ End("done")
        /\ UNCHANGED <<transcript, recStatus, request, faulted>>
    BY <1>5 DEF Summarize, Exists
  <2>2. NothingBehind
    BY <2>1, <1>b, EndLeaves DEF NothingBehind, Pending, At
  <2>3. transcript.status = "completed" /\ recStatus = "completed"
    BY <2>1, <2>2 DEF SettleInv, At
  <2> QED BY <2>1, <2>3, NoJob DEF End
<1>6. CASE FailTranscript
  <2>1. Exists /\ SetTranscript("failed") /\ (Goto("failRec") \/ Goto("giveUpRec"))
    BY <1>6 DEF FailTranscript, Exists
  <2> QED BY <2>1, <1>g, <1>w
<1>7. CASE FailRecording
  <2>1. /\ worker.at \in {"failRec", "giveUpRec"} /\ (End("done") \/ Rethrow)
        /\ Exists /\ recStatus' = "failed" /\ UNCHANGED <<transcript, request, faulted>>
    BY <1>7 DEF FailRecording, Return, Exists
  <2>2. NothingBehind
    BY <2>1, <1>b, EndLeaves DEF NothingBehind, Pending
  <2>3. transcript.status = "failed"
    BY <2>1, <2>2 DEF SettleInv
  <2> QED BY <2>1, <2>3, NoJob DEF End, Rethrow
<1> QED BY <1>1, <1>2, <1>3, <1>4, <1>5, <1>6, <1>7 DEF Process

LEMMA SettleStep == AllInv /\ SettleInv /\ [TranscriptionNext]_trVars => SettleInv'
<1> SUFFICES ASSUME AllInv, SettleInv, [TranscriptionNext]_trVars PROVE SettleInv'
  OBVIOUS
<1>1. CASE Restart \/ Delete
  BY <1>1 DEF Restart, Delete, SettleInv, Exists
<1>2. ASSUME NEW c \in Channel, Commit(c) PROVE SettleInv'
  BY <1>2 DEF Commit, SettleInv, NothingBehind, Pending, Exists
<1>3. CASE UNCHANGED trVars
  BY <1>3 DEF trVars, SettleInv, NothingBehind, Pending, Exists
<1> QED BY <1>1, <1>2, <1>3, SettleRequest, SettleWorker DEF TranscriptionNext

\* When no request and no job is under way and nothing has failed, both rows
\* say the same, and nobody waits for a transcript that no job will write,
\* however many requests, jobs and retries there were
\* (transcription.service.ts request, transcription.processor.ts process).
THEOREM QuietRowsAgree == TranscriptionSpec => []QuietIsSettled
<1>1. TranscriptionInit => SettleInv
  BY NoJob DEF TranscriptionInit, SettleInv
<1>2. AllInv /\ SettleInv => QuietIsSettled
  <2> SUFFICES ASSUME AllInv, SettleInv, Quiet, ~faulted, Exists
               PROVE  recStatus = transcript.status /\ recStatus \notin {"queued", "processing"}
    BY DEF QuietIsSettled
  <2>1. NothingBehind
    BY DEF Quiet, Live, NothingBehind
  <2>2. worker = Idle
    BY DEF AllInv, WorkerInv, Quiet, Live
  <2> QED BY <2>1, <2>2, NoJob DEF SettleInv
<1> QED BY <1>1, <1>2, SettleStep, AllInvHolds, PTL DEF TranscriptionSpec

LEMMA LifecycleStep ==
  AllInv /\ [TranscriptionNext]_trVars => [Lifecycle!TNext]_Lifecycle!tVars
<1> SUFFICES ASSUME AllInv, [TranscriptionNext]_trVars
             PROVE  [Lifecycle!TNext]_Lifecycle!tVars
  OBVIOUS
<1> DEFINE status == IF Exists THEN transcript.status ELSE "deleted"
<1> USE DEF rowVars, Lifecycle!TNext, Lifecycle!tVars
<1>t. transcript \in RowRec /\ worker \in WorkerRec /\ "deleted" \notin Statuses
  BY Types DEF AllInv, Statuses
<1>n. ASSUME worker # Idle, Exists PROVE transcript.status \notin {"none", "deleted"}
  BY <1>n, <1>t DEF AllInv, WorkerInv, TextInv, Unused, RowRec
<1>b. worker.at # "idle" => worker # Idle
  BY NoJob
<1>s. ASSUME UNCHANGED transcript, Exists' = Exists PROVE UNCHANGED Lifecycle!tVars
  BY <1>s DEF Exists
<1>1. CASE Request
  <2>1. Exists /\ Exists' /\ transcript' = [transcript EXCEPT !.status = "queued"]
    BY <1>1 DEF Request, SetTranscript, Exists
  <2>2. transcript'.status = "queued" /\ transcript'.text = transcript.text
    BY <1>t, <2>1 DEF RowRec
  <2> QED BY <1>t, <2>1, <2>2 DEF Lifecycle!Requested, RowRec
<1>2. CASE RequestStatus \/ Enqueue \/ RequestFails \/ Restart \/ Throw
  BY <1>2, <1>s DEF RequestStatus, Enqueue, RequestFails, Restart, Throw, Exists
<1>3. CASE MarkRec \/ StoreRec \/ Assemble \/ Drive \/ Summarize \/ FailRecording
  BY <1>3, <1>s DEF MarkRec, StoreRec, WriteRecording, Assemble, Drive, Summarize, FailRecording,
     Exists
<1>4. ASSUME NEW j \in Job, Take(j) PROVE UNCHANGED Lifecycle!tVars
  BY <1>4, <1>s DEF Take, Exists
<1>5. ASSUME NEW c \in Channel, Commit(c) PROVE UNCHANGED Lifecycle!tVars
  BY <1>5, <1>s DEF Commit, Exists
<1>6. ASSUME NEW s \in {"processing", "failed"}, worker # Idle, Exists, SetTranscript(s),
             UNCHANGED recStatus
      PROVE  Lifecycle!TNext
  <2>1. Exists' /\ transcript'.status = s /\ transcript'.text = transcript.text
    BY <1>6, <1>t DEF SetTranscript, RowRec, Exists
  <2> QED BY <1>6, <1>n, <2>1 DEF Lifecycle!Started, Lifecycle!Failed
<1>7. CASE Mark
  BY <1>7, <1>6, <1>s, <1>b DEF Mark, WriteTranscript, At, Exists
<1>8. CASE FailTranscript
  BY <1>8, <1>6, <1>s, <1>b DEF FailTranscript, Exists
<1>9. CASE Store
  <2>1. CASE Exists /\ transcript' = [status |-> "completed", text |-> worker.job]
    <3>1. worker # Idle /\ UNCHANGED recStatus /\ Exists'
      BY <1>9, <1>b, <2>1 DEF Store, At, Exists
    <3>2. PICK j \in Job : worker.job = {j}
      BY <3>1 DEF AllInv, WorkerInv
    <3> QED BY <1>n, <2>1, <3>1, <3>2 DEF Lifecycle!Completed
  <2> QED BY <1>9, <1>s, <2>1 DEF Store, Exists
<1>10. CASE Delete
  BY <1>10 DEF Delete, Exists, Lifecycle!Deleted
<1>11. CASE UNCHANGED trVars
  BY <1>11, <1>s DEF trVars, Exists
<1> QED
  BY <1>1, <1>2, <1>3, <1>4, <1>5, <1>7, <1>8, <1>9, <1>10, <1>11
     DEF TranscriptionNext, Process

\* The transcript row is a TranscriptLifecycle: a text is replaced by a later
\* run's text and by nothing else, and goes with the recording.
THEOREM TranscriptImplementsLifecycle == TranscriptionSpec => ImplementsLifecycle
<1>1. TranscriptionInit => Lifecycle!TInit
  BY DEF TranscriptionInit, Exists, Lifecycle!TInit
<1> QED BY <1>1, LifecycleStep, AllInvHolds, PTL
  DEF TranscriptionSpec, ImplementsLifecycle, Lifecycle!TSpec

=============================================================================
