------------------------- MODULE UploadQueueProofs -------------------------
(***************************************************************************)
(* Proofs about UploadQueue: for any number of chunks, handlers and        *)
(* attempts, and all settings of the faults.                               *)
(***************************************************************************)
EXTENDS UploadQueue, ChunkLedgerProofs, SequenceTheorems

-----------------------------------------------------------------------------
(* The page is a client of the ledger.                                     *)

\* Sending is a request that the ledger allows for.
LEMMA SentIsRequest ==
  ASSUME NEW h \in Handler, NEW op \in Ops, NEW S \in SUBSET Key, Sent(h, op, S),
         op \in {"target", "put", "commit"} => \E k \in Key : S = {k},
         op \in {"create", "complete", "remove"} => S = {},
         op = "create" => recording = "none" /\ Idle("remove"),
         op = "remove" => Idle("create")
  PROVE  Request(h)
<1>1. CASE op \in {"target", "put", "commit"}
  BY <1>1 DEF Sent, Request
<1>2. CASE op \in {"create", "complete", "remove"}
  BY <1>2 DEF Sent, Request
<1> QED BY <1>1, <1>2 DEF Ops

LEMMA HeadIsKey ==
  ASSUME TypeOK, queue # <<>> PROVE Head(queue) \in Key /\ Tail(queue) \in Seq(Key)
BY DEF TypeOK, ClientTypeOK

LEMMA StepIsLedgerStep ==
  ASSUME TypeOK, CreatedOnce, [Next]_vars PROVE [LedgerNext]_ledgerVars
<1>1. CASE Server
  BY <1>1 DEF Server, LedgerNext
<1>2. CASE \E h \in Handler : SendCreate(h)
  <2> PICK h \in Handler : SendCreate(h)
    BY <1>2
  <2>1. Request(h)
    BY SentIsRequest DEF SendCreate, CreatedOnce, Ops
  <2> QED BY <2>1 DEF LedgerNext
<1>3. CASE \E h \in Handler : Send(h)
  <2> PICK h \in Handler : Send(h)
    BY <1>3
  <2>1. Request(h)
    BY SentIsRequest, HeadIsKey DEF Send, Uploading, Ops
  <2> QED BY <2>1 DEF LedgerNext
<1>4. CASE \E h \in Handler : Complete(h)
  <2> PICK h \in Handler : Complete(h)
    BY <1>4
  <2>1. Request(h)
    BY SentIsRequest DEF Complete, Ops
  <2> QED BY <2>1 DEF LedgerNext
<1>5. CASE \E h \in Handler : Remove(h)
  <2> PICK h \in Handler : Remove(h)
    BY <1>5
  <2>1. Idle("create")
    BY DEF Remove, CreatedOnce, Exists
  <2>2. Request(h)
    BY <2>1, SentIsRequest DEF Remove, Ops
  <2> QED BY <2>2 DEF LedgerNext
<1>6. CASE \/ CreateAnswered \/ CreateLost \/ ChunkReady
           \/ Succeed \/ Refused \/ Lost \/ BackedOff \/ Reclaim \/ PageDies
  BY <1>6 DEF CreateAnswered, CreateLost, ChunkReady, Succeed, Refused, Lost, Fail,
    BackedOff, Reclaim, PageDies
<1>7. CASE UNCHANGED vars
  BY <1>7 DEF vars, ledgerVars
<1> QED BY <1>1, <1>2, <1>3, <1>4, <1>5, <1>6, <1>7 DEF Next, Client

-----------------------------------------------------------------------------
(* Types.                                                                  *)

LEMMA ClientKeepsTypes ==
  ASSUME TypeOK, [Next]_vars PROVE ClientTypeOK'
<1> USE DEF TypeOK, ClientTypeOK
<1>k. Key = 1..Chunks /\ Chunks \in Nat /\ MaxAttempts \in Nat \ {0}
  BY ChunksAssumption, AttemptsAssumption
<1>1. CASE Server \/ UNCHANGED vars \/ \E h \in Handler : Remove(h)
  BY <1>1 DEF Server, vars, clientVars, Remove
<1>2. CASE CreateAnswered \/ CreateLost \/ BackedOff \/ PageDies
  <2>1. 0 \in 0..(MaxAttempts - 1) /\ <<>> \in Seq(Key)
    BY <1>k
  <2>2. CASE CreateAnswered \/ CreateLost
    BY <2>2 DEF CreateAnswered, CreateLost
  <2>3. CASE BackedOff
    BY <2>3 DEF BackedOff
  <2>4. CASE PageDies
    <3>1. /\ page' = "dead" /\ step' = "target"
          /\ conn' = {} /\ reclaiming' = {} /\ UNCHANGED <<session, ready, local>>
          /\ UNCHANGED <<done, givenUp, stopped>>
      BY <2>4 DEF PageDies
    <3>2. queue' \in Seq(Key)
      BY <2>1, <2>4 DEF PageDies
    <3>3. attempts' \in 0..(MaxAttempts - 1)
      BY <2>1, <2>4 DEF PageDies
    <3> QED BY <3>1, <3>2, <3>3
  <2> QED BY <1>2, <2>2, <2>3, <2>4
<1>3. CASE \E h \in Handler : SendCreate(h) \/ Send(h) \/ Complete(h)
  BY <1>3 DEF SendCreate, Send, Complete
<1>4. CASE ChunkReady
  <2>1. ready + 1 \in Key /\ ready' \in 0..Chunks
    BY <1>4, <1>k DEF ChunkReady
  <2>2. queue' \in Seq(Key)
    <3>1. queue' \in {queue, Append(queue, ready + 1)}
      BY <1>4 DEF ChunkReady, Enqueue
    <3>2. Append(queue, ready + 1) \in Seq(Key)
      BY <2>1, AppendProperties
    <3> QED BY <3>1, <3>2
  <2> QED BY <1>4, <2>1, <2>2 DEF ChunkReady
<1>5. CASE Succeed
  <2>1. Head(queue) \in Key /\ Tail(queue) \in Seq(Key)
    BY <1>5, HeadIsKey DEF Succeed, Uploading
  <2>2. 0 \in 0..(MaxAttempts - 1)
    BY <1>k
  <2>3. /\ queue' \in {queue, Tail(queue)} /\ attempts' \in {attempts, 0}
        /\ done' \in {done, done \cup {Head(queue)}}
        /\ reclaiming' \in {reclaiming, {Head(queue)}}
        /\ step' \in {"put", "commit", "reclaim"}
    BY <1>5 DEF Succeed, Advance
  <2> QED BY <1>5, <2>1, <2>2, <2>3 DEF Succeed
<1>6. CASE Refused \/ Lost
  <2>1. Fail /\ queue # <<>>
    BY <1>6 DEF Refused, Lost, Uploading
  <2>2. Head(queue) \in Key /\ Tail(queue) \in Seq(Key)
    BY <2>1, HeadIsKey
  <2>3. 0 \in 0..(MaxAttempts - 1)
    BY <1>k
  <2>4. attempts + 1 < MaxAttempts => attempts + 1 \in 0..(MaxAttempts - 1)
    BY <1>k
  <2>5. attempts' \in 0..(MaxAttempts - 1)
    BY <2>1, <2>3, <2>4 DEF Fail, Retry
  <2>6. /\ queue' \in {queue, Tail(queue)} /\ step' \in {"backoff", "target"}
        /\ givenUp' \in {givenUp, givenUp \cup {Head(queue)}}
    BY <2>1 DEF Fail, Retry
  <2> QED BY <2>1, <2>2, <2>5, <2>6 DEF Fail
<1>7. CASE Reclaim
  BY <1>7 DEF Reclaim
<1> QED BY <1>1, <1>2, <1>3, <1>4, <1>5, <1>6, <1>7 DEF Next, Client

-----------------------------------------------------------------------------
(* The page creates the recording once.                                    *)

\* What sending a request does to the handlers.
LEMMA SentEffect ==
  ASSUME LedgerTypeOK, NEW h \in Handler, NEW op \in Ops, NEW S \in SUBSET Key,
         Sent(h, op, S)
  PROVE  /\ h \notin conn /\ handler[h].op = "none"
         /\ handler'[h].op = op /\ handler'[h].chunk = S /\ OthersStay(h)
         /\ UNCHANGED <<recording, rows, counted, pending, blob, acked>>
<1>0. handler \in [Handler -> Slots]
  BY DEF LedgerTypeOK, Slots
<1>1. handler'[h] = [op |-> op, chunk |-> S, seen |-> {}, at |-> "begin"]
      /\ OthersStay(h)
  BY <1>0, AcceptSlots DEF Sent, OthersStay
<1> QED BY <1>1 DEF Sent, Accept, IsFree

LEMMA CreatedOnceStep ==
  ASSUME TypeOK, CreatedOnce, LedgerInv, [Next]_vars PROVE CreatedOnce'
<1>t. LedgerTypeOK
  BY DEF TypeOK
<1>0. handler \in [Handler -> Slots]
  BY <1>t DEF LedgerTypeOK, Slots
<1>1. CASE Server
  <2>s. Serve /\ session' = session
    BY <1>1 DEF Server, clientVars
  <2>1. \A g \in Handler, op \in {"create", "remove"} :
          handler'[g].op = op => handler[g].op = op
    BY <1>t, <2>s, ServeKeeps DEF Keeps, Free
  <2>2. \A op \in {"create", "remove"} : ~Idle(op)' => ~Idle(op)
    BY <2>1 DEF Idle
  <2>3. session' = "new" => recording' = "none"
    BY <1>t, <2>s, RecordingSteps DEF CreatedOnce, Exists
  <2>4. ~Idle("create")' => recording' = "none"
    <3>1. CASE \E h \in Handler : Create(h)
      <4> PICK h \in Handler : Create(h)
        BY <3>1
      <4>1. handler[h].op = "create" /\ Step(h)
        BY DEF Create, At, Step, Put
      <4>2. handler'[h].op = "none"
        BY <1>0, ReplySlots DEF Create, Free
      <4>3. \A g \in Handler \ {h} : handler'[g] = handler[g]
        BY <1>t, <4>1, StepMovesOne DEF OthersStay
      <4>4. Idle("create")'
        BY <4>1, <4>2, <4>3 DEF CreatedOnce, Idle
      <4> QED BY <4>4
    <3>2. CASE ~\E h \in Handler : Create(h)
      <4>1. recording' = recording \/ Exists
        BY <2>s, <3>2 DEF Serve, Step, Put, AssertOwned, PutObject, OpenFile, WriteFile,
          CheckBytes, Upsert, ReadStats, WriteStats, Finish, Delete, Break, Restart
      <4> QED BY <2>2, <4>1 DEF CreatedOnce, Exists
    <3> QED BY <3>1, <3>2
  <2> QED BY <2>s, <2>1, <2>2, <2>3, <2>4 DEF CreatedOnce
<1>2. CASE \E h \in Handler : SendCreate(h)
  <2> PICK h \in Handler : SendCreate(h)
    BY <1>2
  <2>1. /\ handler[h].op = "none" /\ handler'[h].op = "create" /\ OthersStay(h)
        /\ recording' = recording
    BY <1>t, SentEffect DEF SendCreate, Ops
  <2>2. recording = "none" /\ Idle("remove") /\ Idle("create") /\ session' = "creating"
    BY DEF SendCreate, CreatedOnce
  <2> QED BY <2>1, <2>2 DEF CreatedOnce, Idle, OthersStay
<1>3. CASE \E h \in Handler : Send(h) \/ Complete(h)
  <2> PICK h \in Handler : Send(h) \/ Complete(h)
    BY <1>3
  <2>1. \E op \in {"target", "put", "commit", "complete"}, S \in SUBSET Key :
          Sent(h, op, S)
    BY HeadIsKey DEF Send, Complete, Uploading
  <2>2. /\ handler[h].op = "none" /\ handler'[h].op \notin {"create", "remove"}
        /\ OthersStay(h) /\ recording' = recording
    BY <1>t, <2>1, SentEffect DEF Ops
  <2>3. session' = session
    BY DEF Send, Complete
  <2> QED BY <2>2, <2>3 DEF CreatedOnce, Idle, OthersStay
<1>4. CASE \E h \in Handler : Remove(h)
  <2> PICK h \in Handler : Remove(h)
    BY <1>4
  <2>1. /\ handler[h].op = "none" /\ handler'[h].op = "remove"
        /\ OthersStay(h) /\ recording' = recording /\ Exists
    BY <1>t, SentEffect DEF Remove, Ops
  <2>2. session' = session
    BY DEF Remove, clientVars
  <2>3. recording # "none"
    BY <2>1 DEF Exists
  <2> QED BY <2>1, <2>2, <2>3 DEF CreatedOnce, Idle, OthersStay
<1>5. CASE \/ CreateAnswered \/ CreateLost \/ ChunkReady
           \/ Succeed \/ Refused \/ Lost \/ BackedOff \/ Reclaim \/ PageDies
           \/ UNCHANGED vars
  <2>1. UNCHANGED ledgerVars /\ (session' = "new" => session = "new")
    BY <1>5 DEF CreateAnswered, CreateLost, ChunkReady, Succeed, Refused, Lost, Fail,
      BackedOff, Reclaim, PageDies, vars, clientVars
  <2> QED BY <2>1 DEF CreatedOnce, Idle, ledgerVars
<1> QED BY <1>1, <1>2, <1>3, <1>4, <1>5 DEF Next, Client

-----------------------------------------------------------------------------
(* The server answers the truth.                                           *)

LEMMA AckedGrows ==
  ASSUME TypeOK, [Next]_vars PROVE acked \subseteq acked'
<1>1. CASE Server
  BY <1>1 DEF Server, Serve, Step, Put, Create, AssertOwned, PutObject, OpenFile, WriteFile,
    CheckBytes, Upsert, ReadStats, WriteStats, Finish, Delete, Break, Restart
<1>2. CASE ~Server
  BY <1>2 DEF Next, Client, SendCreate, Send, Complete, Remove, Sent, CreateAnswered,
    CreateLost, ChunkReady, Succeed, Refused, Lost, Fail, BackedOff, Reclaim, PageDies,
    vars, ledgerVars
<1> QED BY <1>1, <1>2

\* A commit that ends well is acknowledged in the ledger.
LEMMA OkIsAcked ==
  ASSUME LedgerTypeOK, Serve, NEW h \in Handler, handler[h].op = "commit",
         handler'[h] = Free("ok")
  PROVE  handler[h].chunk \subseteq acked'
<1>0. handler \in [Handler -> Slots]
  BY DEF LedgerTypeOK, Slots
<1>a. handler[h] \in Task
  BY <1>0, BusyIsTask DEF Ops
<1>b. handler'[h].op = "none" /\ handler'[h].at = "ok"
  BY DEF Free
<1>1. CASE \E g \in Handler : Break(g)
  BY <1>0, <1>1, <1>b, ReplySlots DEF Break, Free
<1>2. CASE Restart
  BY <1>2, <1>b DEF Restart, IsFree, Free
<1>3. CASE \E g \in Handler : Step(g)
  <2> PICK g \in Handler : Step(g)
    BY <1>3
  <2>1. g = h
    BY <1>b, StepMovesOne DEF OthersStay
  <2>2. ASSUME Reply(h, "failed") PROVE FALSE
    BY <1>0, <1>b, <2>2, ReplySlots DEF Free
  <2>3. ASSUME NEW at \in Places, Goto(h, at), handler[h].at \in Places PROVE FALSE
    <3>1. handler'[h] = [handler[h] EXCEPT !.at = at]
      BY <1>0, <2>3, GotoSlots
    <3> QED BY <1>a, <1>b, <3>1 DEF Task
  <2>4. ~Create(h) /\ ~PutObject(h) /\ ~OpenFile(h) /\ ~Finish(h) /\ ~Delete(h)
        /\ ~WriteFile(h)
    BY DEF Create, PutObject, OpenFile, Finish, Delete, WriteFile, At
  <2>5. ~AssertOwned(h) /\ ~CheckBytes(h) /\ ~Upsert(h)
    BY <2>2, <2>3 DEF AssertOwned, CheckBytes, VerifyBytes, Upsert, At, Places
  <2>6. ~ReadStats(h)
    <3> SUFFICES ASSUME ReadStats(h) PROVE FALSE
      OBVIOUS
    <3>1. handler'[h] = [handler[h] EXCEPT !.at = "writeStats", !.seen = rows]
      BY <1>0 DEF ReadStats
    <3> QED BY <1>a, <1>b, <3>1 DEF Task
  <2>7. WriteStats(h)
    BY <2>1, <2>4, <2>5, <2>6 DEF Step, Put
  <2> QED BY <2>2, <2>7 DEF WriteStats
<1> QED BY <1>1, <1>2, <1>3 DEF Serve

-----------------------------------------------------------------------------
(* The queue.                                                              *)

\* What is left of a queue in order is in order.
LEMMA TailInOrder ==
  ASSUME TypeOK, QueueInOrder, page = "open", session = "online", queue # <<>>
  PROVE  /\ Head(queue) = Settled + 1 /\ Head(queue) \in 1..ready
         /\ Head(queue) \notin Taken
         /\ ready - Len(Tail(queue)) = Settled + 1 /\ Len(Tail(queue)) <= ready
         /\ 1..(Settled + 1) = Taken \cup {Head(queue)}
         /\ \A i \in 1..Len(Tail(queue)) : Tail(queue)[i] = Settled + 1 + i
<1>1. ready \in Nat /\ queue \in Seq(Key) /\ Len(queue) \in Nat \ {0}
  BY EmptySeq, ChunksAssumption DEF TypeOK, ClientTypeOK
<1>2. /\ Head(queue) = queue[1] /\ Len(Tail(queue)) = Len(queue) - 1
      /\ \A i \in 1..Len(Tail(queue)) : Tail(queue)[i] = queue[i + 1]
  BY <1>1, HeadTailProperties
<1>3. Len(queue) <= ready /\ Settled \in Nat /\ 1..Settled = Taken
  BY <1>1 DEF QueueInOrder, Settled
<1>4. \A i \in 1..Len(queue) : queue[i] = Settled + i
  BY DEF QueueInOrder
<1>5. Head(queue) = Settled + 1
  BY <1>1, <1>2, <1>4
<1>6. Settled + 1 <= ready
  BY <1>1, <1>3 DEF Settled
<1>7. \A i \in 1..Len(Tail(queue)) : Tail(queue)[i] = Settled + 1 + i
  <2> TAKE i \in 1..Len(Tail(queue))
  <2>1. i + 1 \in 1..Len(queue)
    BY <1>1, <1>2
  <2>2. Tail(queue)[i] = Settled + (i + 1)
    BY <1>2, <1>4, <2>1
  <2> QED BY <1>3, <2>2
<1>8. 1..(Settled + 1) = 1..Settled \cup {Settled + 1} /\ Settled + 1 \notin 1..Settled
  BY <1>3
<1>9. ready - Len(Tail(queue)) = Settled + 1
  BY <1>1, <1>2 DEF Settled
<1> QED BY <1>1, <1>2, <1>3, <1>5, <1>6, <1>7, <1>8, <1>9

\* A chunk leaves the queue to one of the two sets.
LEMMA ShiftKeepsOrder ==
  ASSUME TypeOK, QueueInOrder, page = "open", session = "online", queue # <<>>,
         queue' = Tail(queue), UNCHANGED <<page, session, ready>>,
         \/ done' = done \cup {Head(queue)} /\ givenUp' = givenUp
         \/ givenUp' = givenUp \cup {Head(queue)} /\ done' = done
  PROVE  QueueInOrder'
<1>1. Settled' = Settled + 1 /\ Taken' = Taken \cup {Head(queue)}
  BY TailInOrder DEF Settled, Taken
<1>2. done' \cap givenUp' = {}
  BY TailInOrder DEF QueueInOrder, Taken
<1> QED BY <1>1, <1>2, TailInOrder DEF QueueInOrder

LEMMA QueueStep ==
  ASSUME TypeOK, QueueInOrder, DrainInStep, [Next]_vars PROVE QueueInOrder'
<1>1. CASE UNCHANGED <<page, session, ready, queue, done, givenUp>>
  BY <1>1 DEF QueueInOrder, Settled, Taken
<1>2. CASE CreateAnswered \/ CreateLost \/ \E h \in Handler : SendCreate(h)
  <2>1. /\ session \in {"new", "creating"} /\ UNCHANGED <<page, ready, queue, done, givenUp>>
    BY <1>2 DEF CreateAnswered, CreateLost, SendCreate
  <2>2. ready = 0 /\ queue = <<>>
    BY <2>1 DEF DrainInStep
  <2>r. ready = 0
    BY <2>2
  <2>3. Taken = {} /\ Len(queue) = 0 /\ Settled = 0
    <3>1. Taken \subseteq 1..0
      BY <2>2 DEF QueueInOrder
    <3>2. Len(queue) = 0
      BY <2>2
    <3>3. Taken = {}
      BY <3>1
    <3>4. Settled = 0
      BY <2>r, <3>2 DEF Settled
    <3> QED BY <3>2, <3>3, <3>4
  <2>4. Taken' = {} /\ Len(queue') = 0 /\ Settled' = 0 /\ ready' = 0
    BY <2>1, <2>2, <2>3 DEF Taken, Settled
  <2>5. done' \cap givenUp' = {}
    BY <2>1 DEF QueueInOrder
  <2> QED BY <2>4, <2>5 DEF QueueInOrder
<1>3. CASE ChunkReady
  <2>0. ready \in Nat /\ queue \in Seq(Key) /\ Len(queue) \in Nat /\ ready + 1 \in Key
    BY <1>3, ChunksAssumption DEF TypeOK, ClientTypeOK, ChunkReady
  <2>1. /\ ready' = ready + 1 /\ page' = page /\ session' = session
        /\ Taken' = Taken /\ done' \cap givenUp' = {}
    BY <1>3 DEF ChunkReady, Taken, QueueInOrder
  <2>2. Taken' \subseteq 1..ready'
    BY <2>0, <2>1 DEF QueueInOrder
  <2>3. CASE session = "online"
    <3>1. queue' = Append(queue, ready + 1)
      BY <1>3, <2>3 DEF ChunkReady, Enqueue
    <3>2. /\ Len(queue') = Len(queue) + 1 /\ queue'[Len(queue) + 1] = ready + 1
          /\ \A i \in 1..Len(queue) : queue'[i] = queue[i]
      BY <2>0, <3>1, AppendProperties
    <3>3. Settled' = Settled
      BY <2>0, <2>1, <3>2 DEF Settled
    <3>4. \A i \in 1..Len(queue') : page = "open" => queue'[i] = Settled + i
      <4> TAKE i \in 1..Len(queue')
      <4>1. CASE i = Len(queue) + 1
        BY <2>0, <3>2, <4>1 DEF Settled
      <4>2. CASE i \in 1..Len(queue)
        BY <2>3, <3>2, <4>2 DEF QueueInOrder
      <4> QED BY <2>0, <3>2, <4>1, <4>2
    <3> QED BY <2>0, <2>1, <2>2, <2>3, <3>2, <3>3, <3>4 DEF QueueInOrder
  <2>4. CASE session # "online"
    <3>1. queue' = queue
      BY <1>3, <2>4 DEF ChunkReady
    <3> QED BY <2>0, <2>1, <2>2, <2>4, <3>1 DEF QueueInOrder
  <2> QED BY <2>3, <2>4
<1>4. CASE Succeed
  <2>1. page = "open" /\ session = "online" /\ queue # <<>>
    BY <1>4 DEF Succeed, Uploading, DrainInStep
  <2>2. CASE step = "commit"
    BY <1>4, <2>1, <2>2, ShiftKeepsOrder DEF Succeed, Advance
  <2>3. CASE step # "commit"
    BY <1>1, <1>4, <2>3 DEF Succeed, Advance
  <2> QED BY <2>2, <2>3
<1>5. CASE Refused \/ Lost
  <2>1. page = "open" /\ session = "online" /\ queue # <<>> /\ Fail
    BY <1>5 DEF Refused, Lost, Uploading, DrainInStep
  <2>2. CASE attempts + 1 < MaxAttempts
    BY <1>1, <2>1, <2>2 DEF Fail, Retry
  <2>3. CASE ~(attempts + 1 < MaxAttempts)
    BY <2>1, <2>3, ShiftKeepsOrder DEF Fail, Retry
  <2> QED BY <2>2, <2>3
<1>6. CASE PageDies
  <2>1. /\ page' = "dead" /\ Len(queue') = 0 /\ ready' = ready
        /\ Taken' = Taken /\ done' \cap givenUp' = {}
    BY <1>6 DEF PageDies, Taken, QueueInOrder
  <2> QED BY <2>1 DEF QueueInOrder, TypeOK, ClientTypeOK
<1>7. CASE \/ Server \/ UNCHANGED vars \/ BackedOff \/ Reclaim
           \/ \E h \in Handler : Send(h) \/ Complete(h) \/ Remove(h)
  BY <1>1, <1>7 DEF Server, vars, clientVars, BackedOff, Reclaim, Send, Complete, Remove
<1> QED BY <1>2, <1>3, <1>4, <1>5, <1>6, <1>7 DEF Next, Client

LEMMA DrainStep ==
  ASSUME TypeOK, DrainInStep, QueueInOrder, [Next]_vars PROVE DrainInStep'
<1> USE DEF DrainInStep
<1>1. CASE \/ Server \/ UNCHANGED vars \/ \E h \in Handler : Remove(h)
  BY <1>1 DEF Server, vars, clientVars, Remove
<1>2. CASE CreateAnswered \/ CreateLost \/ \E h \in Handler : SendCreate(h)
  BY <1>2 DEF CreateAnswered, CreateLost, SendCreate
<1>3. CASE ChunkReady
  <2>1. queue' \in {queue, Append(queue, ready + 1)}
    BY <1>3 DEF ChunkReady, Enqueue
  <2>2. Append(queue, ready + 1) # <<>>
    BY DEF TypeOK, ClientTypeOK
  <2> QED BY <1>3, <2>1, <2>2 DEF ChunkReady
<1>4. CASE \E h \in Handler : Send(h) \/ Complete(h)
  BY <1>4 DEF Send, Complete, Uploading
<1>5. CASE Succeed
  <2>1. step' = "reclaim" => step = "commit"
    BY <1>5 DEF Succeed, Advance
  <2> QED BY <1>5, <2>1 DEF Succeed, Advance, Uploading
<1>6. CASE Refused \/ Lost
  BY <1>6 DEF Refused, Lost, Fail, Retry, Uploading
<1>7. CASE BackedOff \/ Reclaim \/ PageDies
  BY <1>7 DEF BackedOff, Reclaim, PageDies
<1> QED BY <1>1, <1>2, <1>3, <1>4, <1>5, <1>6, <1>7 DEF Next, Client

-----------------------------------------------------------------------------
(* Requests and their answers.                                             *)

\* A step of the server or a new request on another handler leaves the answer
\* to the page's request true.
LEMMA ServesHeadStep ==
  ASSUME TypeOK, NEW h \in Handler, ServesHead(h), Head(queue)' = Head(queue),
         acked \subseteq acked', handler'[h] = handler[h] \/ Serve
  PROVE  ServesHead(h)'
<1>t. LedgerTypeOK
  BY DEF TypeOK
<1>1. CASE handler'[h] = handler[h]
  BY <1>1 DEF ServesHead
<1>2. CASE Serve
  <2>1. Keeps(h)
    BY <1>t, <1>2, ServeKeeps
  <2>2. CASE handler'[h] = Free("ok") /\ handler[h].op = "commit"
    <3>1. handler[h].chunk \subseteq acked'
      BY <1>t, <1>2, <2>2, OkIsAcked
    <3>2. handler[h].chunk = {Head(queue)}
      BY <2>2 DEF ServesHead, Free
    <3> QED BY <2>2, <3>1, <3>2 DEF ServesHead
  <2>3. CASE handler'[h] = Free("failed")
    BY <2>3 DEF ServesHead
  <2>4. CASE handler[h].op = "commit" /\ handler'[h].op = "commit"
             /\ handler'[h].chunk = handler[h].chunk
    BY <2>4 DEF ServesHead, Free
  <2>5. handler[h] \in Task => handler[h].op # "none"
    BY DEF Task, Ops
  <2>6. CASE handler[h].op # "commit"
    <3>1. handler[h].op = "none"
      BY <2>6 DEF ServesHead, Free
    <3>2. handler'[h] = handler[h]
      BY <1>t, <1>2, <3>1, FreeStays
    <3> QED BY <1>1, <3>2
  <2> QED BY <1>1, <2>1, <2>2, <2>3, <2>4, <2>6 DEF Keeps
<1> QED BY <1>1, <1>2

LEMMA AnswersStep ==
  ASSUME TypeOK, AnswersAreTrue, DrainInStep, [Next]_vars PROVE AnswersAreTrue'
<1> SUFFICES ASSUME step' = "commit", NEW h \in Handler, h \in conn'
             PROVE  ServesHead(h)'
  BY ClientKeepsTypes DEF AnswersAreTrue, ClientTypeOK
<1>t. LedgerTypeOK
  BY DEF TypeOK
<1>a. acked \subseteq acked'
  BY AckedGrows
<1>1. ASSUME step = "commit", h \in conn, Head(queue)' = Head(queue),
             handler'[h] = handler[h] \/ Serve
      PROVE  ServesHead(h)'
  BY <1>1, <1>a, ServesHeadStep DEF AnswersAreTrue
<1>2. CASE Server \/ UNCHANGED vars
  BY <1>1, <1>2 DEF Server, vars, clientVars, ledgerVars
<1>3. CASE CreateAnswered \/ CreateLost \/ Succeed
  BY <1>3 DEF CreateAnswered, CreateLost, Succeed
<1>4. CASE \E g \in Handler : SendCreate(g)
  BY <1>4 DEF SendCreate, DrainInStep
<1>5. CASE ChunkReady
  <2>1. queue # <<>> /\ queue' \in {queue, Append(queue, ready + 1)}
    BY <1>5 DEF ChunkReady, Enqueue, DrainInStep
  <2>2. Head(queue') = Head(queue)
    BY <2>1 DEF TypeOK, ClientTypeOK
  <2> QED BY <1>1, <1>5, <2>2 DEF ChunkReady, ledgerVars
<1>6. CASE \E g \in Handler : Send(g)
  <2> PICK g \in Handler : Send(g)
    BY <1>6
  <2>1. g = h /\ step = "commit" /\ queue' = queue /\ Head(queue) \in Key
    BY HeadIsKey DEF Send, Uploading
  <2>2. handler'[h].op = "commit" /\ handler'[h].chunk = {Head(queue)}
    BY <1>t, <2>1, SentEffect DEF Send, Ops
  <2> QED BY <2>1, <2>2 DEF ServesHead
<1>7. CASE \E g \in Handler : Complete(g) \/ Remove(g)
  <2> PICK g \in Handler : Complete(g) \/ Remove(g)
    BY <1>7
  <2>1. \E op \in {"complete", "remove"} : Sent(g, op, {})
    BY DEF Complete, Remove
  <2>2. g \notin conn /\ OthersStay(g)
    BY <1>t, <2>1, SentEffect DEF Ops
  <2>3. conn' = conn /\ step' = step /\ queue' = queue
    BY DEF Complete, Remove, clientVars
  <2> QED BY <1>1, <2>2, <2>3 DEF OthersStay
<1>8. CASE Refused \/ Lost \/ BackedOff \/ Reclaim \/ PageDies
  BY <1>8 DEF Refused, Lost, Fail, Retry, BackedOff, Reclaim, PageDies
<1> QED BY <1>2, <1>3, <1>4, <1>5, <1>6, <1>7, <1>8 DEF Next, Client

-----------------------------------------------------------------------------
(* The ledger fills in order, and what left the store is in it.            *)

LEMMA AckedStepOfDone ==
  ASSUME TypeOK, DoneIsAcked, DrainInStep, AnswersAreTrue, [Next]_vars
  PROVE  DoneIsAcked'
<1>a. acked \subseteq acked'
  BY AckedGrows
<1>1. CASE UNCHANGED <<done, ready, local>>
  BY <1>1, <1>a DEF DoneIsAcked
<1>2. CASE ChunkReady
  <2>1. ready \in Nat /\ 1..(ready + 1) = 1..ready \cup {ready + 1}
    BY ChunksAssumption DEF TypeOK, ClientTypeOK
  <2>2. done' = done /\ ready' = ready + 1 /\ local' = local \cup {ready + 1}
    BY <1>2 DEF ChunkReady
  <2> QED BY <1>a, <2>1, <2>2 DEF DoneIsAcked
<1>3. CASE Succeed
  <2>1. CASE step = "commit"
    <3>1. PICK h \in conn : handler[h] = Free("ok")
      BY <1>3 DEF Succeed, Answered
    <3>2. Head(queue) \in acked
      BY <2>1, <3>1 DEF AnswersAreTrue, ServesHead, Free
    <3>3. done' = done \cup {Head(queue)} /\ UNCHANGED <<ready, local>>
      BY <1>3, <2>1 DEF Succeed, Advance
    <3> QED BY <1>a, <3>2, <3>3 DEF DoneIsAcked
  <2>2. CASE step # "commit"
    BY <1>1, <1>3, <2>2 DEF Succeed, Advance
  <2> QED BY <2>1, <2>2
<1>4. CASE Reclaim
  BY <1>4, <1>a DEF Reclaim, DoneIsAcked, DrainInStep
<1>5. CASE \/ Server \/ UNCHANGED vars \/ CreateAnswered \/ CreateLost
           \/ Refused \/ Lost \/ BackedOff \/ PageDies
           \/ \E h \in Handler : SendCreate(h) \/ Send(h) \/ Complete(h) \/ Remove(h)
  BY <1>1, <1>5 DEF Server, vars, clientVars, CreateAnswered, CreateLost, Refused, Lost,
    Fail, BackedOff, PageDies, SendCreate, Send, Complete, Remove
<1> QED BY <1>2, <1>3, <1>4, <1>5 DEF Next, Client

CommitOf(h) ==
  handler[h].op = "commit" =>
    \E k \in 1..ready : handler[h].chunk = {k} /\ OlderSettled(k)

LEMMA OrderStep ==
  ASSUME TypeOK, CommitsInOrder, QueueInOrder, DrainInStep, DoneIsAcked, [Next]_vars
  PROVE  CommitsInOrder'
<1>t. LedgerTypeOK
  BY DEF TypeOK
<1>a. acked \subseteq acked' /\ givenUp \subseteq givenUp' /\ 1..ready \subseteq 1..ready'
  <2>1. givenUp \subseteq givenUp'
    BY DEF Next, Server, Client, vars, clientVars, CreateAnswered, CreateLost,
      ChunkReady, Succeed, Refused, Lost, Fail, Retry, BackedOff, Reclaim, PageDies,
      SendCreate, Send, Complete, Remove
  <2>2. ready' \in {ready, ready + 1} /\ ready \in Nat
    BY ChunksAssumption DEF TypeOK, ClientTypeOK, Next, Server, Client, vars, clientVars,
      CreateAnswered, CreateLost, ChunkReady, Succeed, Refused, Lost, Fail, BackedOff,
      Reclaim, PageDies, SendCreate, Send, Complete, Remove
  <2> QED BY <2>1, <2>2, AckedGrows
<1>o. ASSUME NEW k, OlderSettled(k) PROVE OlderSettled(k)'
  BY <1>a, <1>o DEF OlderSettled
<1>1. ASSUME NEW h \in Handler,
             \/ handler'[h].op # "commit"
             \/ handler'[h].op = handler[h].op /\ handler'[h].chunk = handler[h].chunk
      PROVE  CommitOf(h)'
  BY <1>1, <1>a, <1>o DEF CommitOf, CommitsInOrder
<1>2. ASSUME \A h \in Handler : CommitOf(h)', \A k \in rows' : OlderSettled(k)'
      PROVE  CommitsInOrder'
  BY <1>2 DEF CommitsInOrder, CommitOf
<1>3. ASSUME rows' = rows PROVE \A k \in rows' : OlderSettled(k)'
  BY <1>3, <1>o DEF CommitsInOrder
<1>4. CASE Server
  <2>0. Serve
    BY <1>4 DEF Server
  <2>1. \A h \in Handler : CommitOf(h)'
    BY <1>t, <1>1, <2>0, ServeKeeps DEF Keeps, Free
  <2>2. ASSUME NEW k \in rows' PROVE OlderSettled(k)
    <3>1. CASE \E h \in Handler : Upsert(h)
      <4> PICK h \in Handler : Upsert(h)
        BY <3>1
      <4>1. rows' = rows \/ rows' = rows \cup handler[h].chunk
        BY DEF Upsert, InsertRow
      <4>2. handler[h].op = "commit"
        BY DEF Upsert, At
      <4> QED BY <2>2, <4>1, <4>2 DEF CommitsInOrder
    <3>2. CASE ~\E h \in Handler : Upsert(h)
      <4>1. rows' = rows \/ rows' = {}
        BY <2>0, <3>2 DEF Serve, Step, Put, Create, AssertOwned, PutObject, OpenFile,
          WriteFile, CheckBytes, ReadStats, WriteStats, Finish, Delete, Cascade, Break,
          Restart
      <4> QED BY <2>2, <4>1 DEF CommitsInOrder
    <3> QED BY <3>1, <3>2
  <2> QED BY <1>2, <1>o, <2>1, <2>2
<1>5. CASE \E h \in Handler : Send(h)
  <2> PICK h \in Handler : Send(h)
    BY <1>5
  <2>1. page = "open" /\ session = "online" /\ queue # <<>>
    BY DEF Send, Uploading, DrainInStep
  <2>2. /\ handler'[h].op = step /\ handler'[h].chunk = {Head(queue)}
        /\ OthersStay(h) /\ rows' = rows
    <3>1. step \in Ops /\ {Head(queue)} \in SUBSET Key
      BY HeadIsKey DEF Send, Uploading, Ops
    <3> QED BY <1>t, <3>1, SentEffect DEF Send
  <2>3. Head(queue) \in 1..ready /\ OlderSettled(Head(queue))
    <3>1. Head(queue) = Settled + 1 /\ Head(queue) \in 1..ready
      BY <2>1, TailInOrder
    <3>2. 1..Settled = Taken /\ Settled \in Int
      <4>1. queue \in Seq(Key) /\ ready \in Int
        BY ChunksAssumption DEF TypeOK, ClientTypeOK
      <4> QED BY <2>1, <4>1 DEF QueueInOrder, Settled
    <3>3. 1..(Head(queue) - 1) = Taken
      BY <3>1, <3>2
    <3> QED BY <3>1, <3>3 DEF OlderSettled, Taken, DoneIsAcked
  <2>4. CommitOf(h)'
    BY <1>a, <1>o, <2>2, <2>3 DEF CommitOf
  <2>5. \A g \in Handler : CommitOf(g)'
    BY <1>1, <2>2, <2>4 DEF OthersStay
  <2> QED BY <1>2, <1>3, <2>2, <2>5
<1>6. CASE \E h \in Handler : SendCreate(h) \/ Complete(h) \/ Remove(h)
  <2> PICK h \in Handler : SendCreate(h) \/ Complete(h) \/ Remove(h)
    BY <1>6
  <2>1. \E op \in {"create", "complete", "remove"} : Sent(h, op, {})
    BY DEF SendCreate, Complete, Remove
  <2>2. handler'[h].op # "commit" /\ OthersStay(h) /\ rows' = rows
    BY <1>t, <2>1, SentEffect DEF Ops
  <2>3. \A g \in Handler : CommitOf(g)'
    BY <1>1, <2>2 DEF OthersStay
  <2> QED BY <1>2, <1>3, <2>2, <2>3
<1>7. CASE \/ CreateAnswered \/ CreateLost \/ ChunkReady \/ Succeed \/ Refused \/ Lost
           \/ BackedOff \/ Reclaim \/ PageDies \/ UNCHANGED vars
  <2>1. UNCHANGED ledgerVars
    BY <1>7 DEF vars, CreateAnswered, CreateLost, ChunkReady, Succeed, Refused, Lost,
      Fail, BackedOff, Reclaim, PageDies
  <2>2. handler' = handler /\ rows' = rows
    BY <2>1 DEF ledgerVars
  <2> QED BY <1>1, <1>2, <1>3, <2>2
<1> QED BY <1>4, <1>5, <1>6, <1>7 DEF Next, Client

-----------------------------------------------------------------------------
(* With atomic PUTs, bytes come before rows.                               *)

NoneWriting == \A h \in Handler : ~At(h, "put", "writing")

\* The server only adds whole bytes, and a PUT that ends well has.
LEMMA WholeGrows ==
  ASSUME LedgerTypeOK, AtomicPut, NoneWriting, Serve
  PROVE  Whole \subseteq Whole'
<1>1. CASE \E h \in Handler : PutObject(h)
  BY <1>1 DEF PutObject, Store, Whole
<1>2. CASE ~\E h \in Handler : PutObject(h)
  <2>1. blob' = blob
    BY <1>2 DEF NoneWriting, Serve, Step, Put, Create, AssertOwned, OpenFile, WriteFile,
      CheckBytes, Upsert, ReadStats, WriteStats, Finish, Delete, Break, Restart
  <2> QED BY <2>1 DEF Whole
<1> QED BY <1>1, <1>2

LEMMA PutStores ==
  ASSUME LedgerTypeOK, AtomicPut, NoneWriting, Serve, NEW h \in Handler,
         handler[h].op = "put", handler'[h] = Free("ok")
  PROVE  handler[h].chunk \subseteq Whole'
<1>0. handler \in [Handler -> Slots]
  BY DEF LedgerTypeOK, Slots
<1>a. handler[h] \in Task /\ handler'[h].op = "none" /\ handler'[h].at = "ok"
  BY <1>0, BusyIsTask DEF Ops, Free
<1>1. CASE \E g \in Handler : Break(g)
  BY <1>0, <1>1, <1>a, ReplySlots DEF Break, Free
<1>2. CASE Restart
  BY <1>2, <1>a DEF Restart, IsFree, Free
<1>3. CASE \E g \in Handler : Step(g)
  <2> PICK g \in Handler : Step(g)
    BY <1>3
  <2>1. g = h
    BY <1>a, StepMovesOne DEF OthersStay
  <2>2. PutObject(h) \/ ReadStats(h) \/ WriteStats(h)
    BY <2>1 DEF NoneWriting, Step, Put, Create, AssertOwned, OpenFile, WriteFile,
      CheckBytes, Upsert, Finish, Delete, At
  <2>3. ~ReadStats(h)
    <3> SUFFICES ASSUME ReadStats(h) PROVE FALSE
      OBVIOUS
    <3>1. handler'[h] = [handler[h] EXCEPT !.at = "writeStats", !.seen = rows]
      BY <1>0 DEF ReadStats
    <3> QED BY <1>a, <3>1 DEF Task
  <2>4. ~WriteStats(h)
    <3> SUFFICES ASSUME WriteStats(h) PROVE FALSE
      OBVIOUS
    <3>1. handler'[h] = Free("failed")
      BY <1>0, ReplySlots DEF WriteStats
    <3> QED BY <1>a, <3>1 DEF Free
  <2>5. PutObject(h)
    BY <2>2, <2>3, <2>4
  <2> QED BY <1>a, <2>5 DEF PutObject, Store, Whole, Task
<1> QED BY <1>1, <1>2, <1>3 DEF Serve

\* The answer to the page's PUT stays true.
LEMMA ServesPutStep ==
  ASSUME TypeOK, AtomicPut, NoneWriting, NEW h \in Handler, ServesPut(h),
         queue # <<>>, Head(queue)' = Head(queue), Serve
  PROVE  ServesPut(h)'
<1>t. LedgerTypeOK /\ Head(queue) \in Key
  BY HeadIsKey DEF TypeOK
<1>g. Whole \subseteq Whole'
  BY <1>t, WholeGrows
<1>k. Keeps(h)
  BY <1>t, ServeKeeps
<1>1. CASE handler[h] = Free("failed")
  <2>1. handler'[h] = handler[h]
    BY <1>t, <1>1, FreeStays DEF Free
  <2> QED BY <1>1, <2>1 DEF ServesPut
<1>2. CASE handler[h] = Free("ok") /\ blob[Head(queue)] = "whole"
  <2>1. handler'[h] = handler[h]
    BY <1>t, <1>2, FreeStays DEF Free
  <2>2. blob'[Head(queue)] = "whole"
    BY <1>t, <1>g, <1>2 DEF Whole
  <2> QED BY <1>2, <2>1, <2>2 DEF ServesPut
<1>3. CASE handler[h].op = "put" /\ handler[h].chunk = {Head(queue)}
  <2>1. CASE handler'[h] = Free("ok")
    <3>1. Head(queue) \in Whole'
      BY <1>t, <1>3, <2>1, PutStores
    <3> QED BY <2>1, <3>1 DEF ServesPut, Whole
  <2>2. CASE handler'[h] # Free("ok")
    BY <1>3, <1>k, <2>2 DEF Keeps, ServesPut
  <2> QED BY <2>1, <2>2
<1> QED BY <1>1, <1>2, <1>3 DEF ServesPut

\* Nobody begins to write a file: PUTs are atomic.
LEMMA NoneWritingStep ==
  ASSUME LedgerTypeOK, AtomicPut, NoneWriting, [LedgerNext]_ledgerVars
  PROVE  NoneWriting'
<1>0. handler \in [Handler -> Slots]
  BY DEF LedgerTypeOK, Slots
<1>1. CASE Serve
  <2>1. \A h \in Handler : Keeps(h)
    BY <1>1, ServeKeeps
  <2>2. \A h \in Handler : handler'[h].at = "writing" => handler'[h] = handler[h]
    <3> SUFFICES ASSUME NEW h \in Handler, handler'[h].at = "writing", handler'[h] # handler[h]
                 PROVE  FALSE
      OBVIOUS
    <3>1. CASE \E g \in Handler : Break(g)
      BY <1>0, <3>1, ReplySlots DEF Break, Free
    <3>2. CASE Restart
      BY <3>2 DEF Restart, Free
    <3>3. CASE \E g \in Handler : Step(g)
      <4> PICK g \in Handler : Step(g)
        BY <3>3
      <4>1. g = h
        BY StepMovesOne DEF OthersStay
      <4>r. ASSUME NEW x \in {"ok", "failed"}, Reply(h, x) PROVE FALSE
        BY <1>0, <4>r, ReplySlots DEF Free
      <4>g. ASSUME NEW at \in Places \ {"writing"}, handler[h].at \in Places, Goto(h, at)
            PROVE  FALSE
        <5>1. handler'[h] = [handler[h] EXCEPT !.at = at] /\ handler[h] \in Task
          BY <1>0, <4>g, GotoSlots, BusyIsTask
        <5> QED BY <4>g, <5>1 DEF Task
      <4>2. ~ReadStats(h)
        <5> SUFFICES ASSUME ReadStats(h) PROVE FALSE
          OBVIOUS
        <5>1. handler[h] \in Task
          BY <1>0, BusyIsTask DEF ReadStats, Places
        <5>2. handler'[h] = [handler[h] EXCEPT !.at = "writeStats", !.seen = rows]
          BY <1>0 DEF ReadStats
        <5> QED BY <5>1, <5>2 DEF Task
      <4>3. ~Create(h) /\ ~PutObject(h) /\ ~OpenFile(h) /\ ~WriteFile(h) /\ ~Finish(h) /\ ~Delete(h)
        BY <4>r DEF Create, PutObject, OpenFile, WriteFile, Finish, Delete
      <4>4. ~AssertOwned(h)
        BY <4>r, <4>g DEF AssertOwned, Places
      <4>5. ~CheckBytes(h) /\ ~Upsert(h)
        BY <4>r, <4>g DEF CheckBytes, VerifyBytes, Upsert, At, Places
      <4>6. ~WriteStats(h)
        BY <4>r, <4>g DEF WriteStats, Places
      <4> QED BY <4>1, <4>2, <4>3, <4>4, <4>5, <4>6 DEF Step, Put
    <3> QED BY <1>1, <3>1, <3>2, <3>3 DEF Serve
  <2> QED BY <2>2 DEF NoneWriting, At
<1>2. CASE \E h \in Handler : Request(h)
  <2> PICK h \in Handler : Request(h)
    BY <1>2
  <2>1. \E op \in Ops, S \in SUBSET Key : Accept(h, op, S)
    BY DEF Request, Ops
  <2>2. handler'[h].at = "begin" /\ \A g \in Handler \ {h} : handler'[g] = handler[g]
    <3> PICK op \in Ops, S \in SUBSET Key : Accept(h, op, S)
      BY <2>1
    <3> DEFINE r == [op |-> op, chunk |-> S, seen |-> {}, at |-> "begin"]
    <3>1. handler'[h] = r /\ \A g \in Handler \ {h} : handler'[g] = handler[g]
      BY <1>0, AcceptSlots
    <3>2. r.at = "begin"
      OBVIOUS
    <3> HIDE DEF r
    <3> QED BY <3>1, <3>2
  <2> QED BY <2>2 DEF NoneWriting, At
<1>3. CASE UNCHANGED ledgerVars
  BY <1>3 DEF ledgerVars, NoneWriting, At
<1> QED BY <1>1, <1>2, <1>3 DEF LedgerNext

LEMMA PutStep ==
  ASSUME TypeOK, TypeOK', PutBeforeCommit, DrainInStep, CreatedOnce, [Next]_vars
  PROVE  PutBeforeCommit'
<1> SUFFICES ASSUME AtomicPut PROVE PutBeforeCommit'
  BY DEF PutBeforeCommit
<1>t. LedgerTypeOK /\ NoneWriting /\ step \in {"target", "put", "commit", "backoff", "reclaim"}
  BY DEF TypeOK, ClientTypeOK, PutBeforeCommit, NoneWriting
<1>w. NoneWriting'
  BY <1>t, NoneWritingStep, StepIsLedgerStep
<1> DEFINE Bytes(h) == handler[h].op = "commit" => handler[h].chunk \subseteq Whole
           Puts == step = "put" => \A h \in conn : ServesPut(h)
           Stored == step = "commit" => blob[Head(queue)] = "whole"
<1>i. /\ rows \subseteq Whole /\ Puts /\ Stored
      /\ \A h \in Handler : Bytes(h)
  BY DEF PutBeforeCommit
<1>q. ASSUME rows' \subseteq Whole', \A h \in Handler : Bytes(h)', Puts', Stored'
      PROVE  PutBeforeCommit'
  BY <1>q, <1>w DEF PutBeforeCommit, NoneWriting
<1>c. conn \subseteq Handler /\ conn' \subseteq Handler
  BY DEF TypeOK, ClientTypeOK
<1>h. step \in {"put", "commit"} => queue # <<>> /\ Head(queue) \in Key
  BY HeadIsKey DEF DrainInStep
<1>1. CASE Server
  <2>0. Serve /\ UNCHANGED <<queue, step, conn>>
    BY <1>1 DEF Server, clientVars
  <2>1. Whole \subseteq Whole'
    BY <1>t, <2>0, WholeGrows
  <2>2. \A h \in Handler : Bytes(h)'
    BY <1>t, <1>i, <2>0, <2>1, ServeKeeps DEF Keeps, Free
  <2>3. rows' \subseteq Whole'
    <3>1. CASE \E h \in Handler : Upsert(h)
      <4> PICK h \in Handler : Upsert(h)
        BY <3>1
      <4>1. handler[h].op = "commit" /\ (rows' = rows \/ rows' = rows \cup handler[h].chunk)
        BY DEF Upsert, InsertRow, At
      <4> QED BY <1>i, <2>1, <4>1
    <3>2. CASE ~\E h \in Handler : Upsert(h)
      <4>1. rows' = rows \/ rows' = {}
        BY <2>0, <3>2 DEF Serve, Step, Put, Create, AssertOwned, PutObject, OpenFile,
          WriteFile, CheckBytes, ReadStats, WriteStats, Finish, Delete, Cascade, Break,
          Restart
      <4> QED BY <1>i, <2>1, <4>1
    <3> QED BY <3>1, <3>2
  <2>4. Puts'
    BY <1>c, <1>h, <1>i, <1>t, <2>0, ServesPutStep
  <2>5. Stored'
    BY <1>h, <1>i, <2>0, <2>1 DEF Whole
  <2> QED BY <1>q, <2>2, <2>3, <2>4, <2>5
<1>2. CASE \E g \in Handler : SendCreate(g) \/ Complete(g) \/ Remove(g)
  <2> PICK g \in Handler : SendCreate(g) \/ Complete(g) \/ Remove(g)
    BY <1>2
  <2>1. \E op \in {"create", "complete", "remove"} : Sent(g, op, {})
    BY DEF SendCreate, Complete, Remove
  <2>2. /\ g \notin conn /\ handler'[g].op # "commit" /\ OthersStay(g)
        /\ rows' = rows /\ blob' = blob
    BY <1>t, <2>1, SentEffect DEF Ops
  <2>3. queue' = queue /\ step' = step /\ (conn' = conn \/ step = "target")
    BY DEF SendCreate, Complete, Remove, clientVars, DrainInStep
  <2>4. Whole' = Whole
    BY <2>2 DEF Whole
  <2>5. \A h \in Handler : Bytes(h)'
    BY <1>i, <2>2, <2>4 DEF OthersStay
  <2>6. Puts'
    BY <1>c, <1>i, <2>2, <2>3 DEF OthersStay, ServesPut
  <2>7. Stored'
    BY <1>i, <2>2, <2>3
  <2> QED BY <1>i, <1>q, <2>2, <2>4, <2>5, <2>6, <2>7
<1>3. CASE \E g \in Handler : Send(g)
  <2> PICK g \in Handler : Send(g)
    BY <1>3
  <2>1. queue' = queue /\ step' = step /\ conn' = {g} /\ queue # <<>>
    BY DEF Send, Uploading
  <2>2. /\ handler'[g].op = step /\ handler'[g].chunk = {Head(queue)}
        /\ OthersStay(g) /\ rows' = rows /\ blob' = blob
    <3>1. step \in Ops /\ {Head(queue)} \in SUBSET Key
      BY HeadIsKey DEF Send, Uploading, Ops
    <3> QED BY <1>t, <3>1, SentEffect DEF Send
  <2>4. Whole' = Whole
    BY <2>2 DEF Whole
  <2>5. Bytes(g)'
    BY <1>h, <1>i, <2>2, <2>4 DEF Whole
  <2>6. \A h \in Handler : Bytes(h)'
    BY <1>i, <2>2, <2>4, <2>5 DEF OthersStay
  <2>7. Puts'
    BY <2>1, <2>2 DEF ServesPut
  <2>8. Stored'
    BY <1>i, <2>1, <2>2
  <2> QED BY <1>i, <1>q, <2>2, <2>4, <2>6, <2>7, <2>8
<1>4. CASE \/ CreateAnswered \/ CreateLost \/ ChunkReady \/ Succeed \/ Refused \/ Lost
           \/ BackedOff \/ Reclaim \/ PageDies \/ UNCHANGED vars
  <2>0. handler' = handler /\ rows' = rows /\ blob' = blob
    BY <1>4 DEF vars, CreateAnswered, CreateLost, ChunkReady, Succeed, Refused, Lost,
      Fail, BackedOff, Reclaim, PageDies, ledgerVars
  <2>1. Whole' = Whole
    BY <2>0 DEF Whole
  <2>2. \A h \in Handler : Bytes(h)'
    BY <1>i, <2>0, <2>1
  <2>3. CASE CreateAnswered \/ CreateLost \/ PageDies \/ Refused \/ Lost \/ BackedOff \/ Reclaim
    <3>1. CASE CreateAnswered \/ CreateLost
      BY <1>i, <1>q, <2>0, <2>1, <2>2, <3>1 DEF CreateAnswered, CreateLost
    <3>2. CASE ~(CreateAnswered \/ CreateLost)
      <4>1. step' \in {"target", "backoff"}
        BY <2>3, <3>2 DEF PageDies, Refused, Lost, Fail, Retry, BackedOff, Reclaim
      <4> QED BY <1>i, <1>q, <2>0, <2>1, <2>2, <4>1
    <3> QED BY <3>1, <3>2
  <2>4. CASE ChunkReady
    <3>1. step' = step /\ conn' = conn /\ queue' \in {queue, Append(queue, ready + 1)}
      BY <2>4 DEF ChunkReady, Enqueue
    <3>2. step \in {"put", "commit"} => Head(queue') = Head(queue)
      BY <1>h, <3>1 DEF TypeOK, ClientTypeOK
    <3>3. Puts'
      BY <1>i, <2>0, <3>1, <3>2 DEF ServesPut
    <3>4. Stored'
      BY <1>i, <2>0, <3>1, <3>2
    <3> QED BY <1>i, <1>q, <2>0, <2>1, <2>2, <3>3, <3>4
  <2>5. CASE Succeed
    <3>1. conn' = {} /\ (step' = "commit" => step = "put" /\ queue' = queue)
      BY <2>5 DEF Succeed, Advance
    <3>2. Puts'
      BY <3>1
    <3>3. step = "put" => blob[Head(queue)] = "whole"
      BY <1>i, <2>5 DEF Succeed, Answered, ServesPut, Free
    <3>4. Stored'
      BY <2>0, <3>1, <3>3
    <3> QED BY <1>i, <1>q, <2>0, <2>1, <2>2, <3>2, <3>4
  <2>6. CASE UNCHANGED vars
    <3>1. step' = step /\ conn' = conn /\ queue' = queue
      BY <2>6 DEF vars, clientVars
    <3>2. Puts'
      BY <1>i, <2>0, <3>1 DEF ServesPut
    <3> QED BY <1>i, <1>q, <2>0, <2>1, <2>2, <3>1, <3>2
  <2> QED BY <1>4, <2>3, <2>4, <2>5, <2>6
<1> QED BY <1>1, <1>2, <1>3, <1>4 DEF Next, Client

-----------------------------------------------------------------------------
(* Theorems.                                                               *)

AllInv == TypeOK /\ LedgerInv /\ UploadInv

LEMMA InitAll == Init => AllInv
<1> SUFFICES ASSUME Init PROVE AllInv
  OBVIOUS
<1>1. LedgerTypeOK /\ LedgerInv
  BY InitTypes, InitLedgerInv DEF Init
<1>2. ClientTypeOK
  <2>1. 0 \in 0..(MaxAttempts - 1) /\ 0 \in 0..Chunks /\ <<>> \in Seq(Key)
    BY ChunksAssumption, AttemptsAssumption
  <2>2. ready \in 0..Chunks /\ attempts \in 0..(MaxAttempts - 1)
    BY <2>1 DEF Init
  <2>3. queue \in Seq(Key)
    BY <2>1 DEF Init
  <2> QED BY <2>2, <2>3 DEF Init, ClientTypeOK
<1>3. queue = <<>> /\ Len(queue) = 0 /\ ready = 0 /\ done = {} /\ givenUp = {}
  BY DEF Init
<1>4. QueueInOrder
  BY <1>3 DEF Init, QueueInOrder, Taken, Settled
<1>5. DrainInStep /\ AnswersAreTrue
  BY DEF Init, DrainInStep, AnswersAreTrue
<1>6. CommitsInOrder /\ CreatedOnce
  BY DEF Init, LedgerInit, CommitsInOrder, CreatedOnce, Idle, Free
<1>7. DoneIsAcked
  BY <1>3 DEF DoneIsAcked
<1>8. PutBeforeCommit
  BY DEF Init, LedgerInit, PutBeforeCommit, At, Free
<1> QED BY <1>1, <1>2, <1>4, <1>5, <1>6, <1>7, <1>8 DEF AllInv, TypeOK, UploadInv

LEMMA AllStep == AllInv /\ [Next]_vars => AllInv'
<1> SUFFICES ASSUME AllInv, [Next]_vars PROVE AllInv'
  OBVIOUS
<1> USE DEF AllInv, UploadInv
<1>1. [LedgerNext]_ledgerVars
  BY StepIsLedgerStep
<1>2. LedgerTypeOK' /\ LedgerInv'
  BY <1>1, TypesStep, LedgerInvStep DEF TypeOK
<1>3. TypeOK'
  BY <1>2, ClientKeepsTypes DEF TypeOK
<1> QED BY <1>2, <1>3, QueueStep, DrainStep, AnswersStep, OrderStep, AckedStepOfDone,
  CreatedOnceStep, PutStep

\* The invariant of page, network and server, for any number of chunks.
THEOREM AllInvHolds == Spec => []AllInv
<1> QED BY InitAll, AllStep, PTL DEF Spec

\* Its part that speaks of the queue, the requests and the answers.
THEOREM UploadInvHolds == Spec => []UploadInv
<1>1. AllInv => UploadInv
  BY DEF AllInv
<1> QED BY <1>1, AllInvHolds, PTL

\* Every variable of the upload keeps its type.
THEOREM UploadTypes == Spec => []TypeOK
<1>1. AllInv => TypeOK
  BY DEF AllInv
<1> QED BY <1>1, AllInvHolds, PTL

\* The page is one of the clients that ChunkLedger allows for, so that what is
\* proved of the ledger holds of the upload.
THEOREM PageIsAClient == Spec => LedgerSpec
<1>1. Init => LedgerInit
  BY DEF Init
<1>2. AllInv /\ [Next]_vars => [LedgerNext]_ledgerVars
  BY StepIsLedgerStep DEF AllInv, UploadInv
<1> QED BY <1>1, <1>2, AllInvHolds, PTL DEF Spec, LedgerSpec

LEMMA AckedIsSafe == AllInv => acked \subseteq rows \/ recording = "removed"
BY DEF AllInv, TypeOK, LedgerTypeOK, LedgerInv, RequestsFollowCreation,
  AckedIsCommitted, Exists

\* No chunk is ever in neither the recovery store nor the ledger, until the
\* user deletes the recording: whatever is lost, retried, restarted.
THEOREM NoChunkWithoutCustody == Spec => []LocalOrCloud
<1>1. AllInv => LocalOrCloud
  BY AckedIsSafe DEF AllInv, UploadInv, DoneIsAcked, LocalOrCloud
<1> QED BY <1>1, AllInvHolds, PTL

\* The ledger fills in the order of the recording.
THEOREM LedgerFillsInOrder == Spec => []UploadedInOrder
<1>1. AllInv => UploadedInOrder
  <2> SUFFICES ASSUME AllInv PROVE UploadedInOrder
    OBVIOUS
  <2>1. \A k \in rows : OlderSettled(k)
    BY DEF AllInv, UploadInv, CommitsInOrder
  <2>2. rows = {} \/ acked \subseteq rows
    BY AckedIsSafe DEF AllInv, LedgerInv, NoOrphans, Exists
  <2> QED BY <2>1, <2>2 DEF UploadedInOrder, OlderSettled
<1> QED BY <1>1, AllInvHolds, PTL

\* With atomic PUTs (the S3 driver) every committed chunk has its bytes whole,
\* also where the server does not verify them: the page sends a commit after
\* the PUT was answered, and a retry stores the same bytes.
THEOREM UploadedHasBytes ==
  ASSUME AtomicPut
  PROVE  Spec => []UploadedIsSafe
<1>1. AllInv => UploadedIsSafe
  BY DEF AllInv, UploadInv, PutBeforeCommit, UploadedIsSafe, Whole
<1> QED BY <1>1, AllInvHolds, PTL

\* A chunk that the queue gave up stays in the recovery store.
THEOREM GivenUpStaysLocal == Spec => []GivenUpIsKept
<1>1. AllInv => GivenUpIsKept
  <2> SUFFICES ASSUME AllInv PROVE GivenUpIsKept
    OBVIOUS
  <2>1. givenUp \subseteq 1..ready /\ done \cap givenUp = {}
    BY DEF AllInv, UploadInv, QueueInOrder, Taken
  <2>2. 1..ready \subseteq local \cup done
    BY DEF AllInv, UploadInv, DoneIsAcked
  <2> QED BY <2>1, <2>2 DEF GivenUpIsKept
<1> QED BY <1>1, AllInvHolds, PTL

-----------------------------------------------------------------------------
(* The refinement.                                                         *)

LEMMA CustodyInit == Init => Custody!CInit
<1> SUFFICES ASSUME Init PROVE Custody!CInit
  OBVIOUS
<1>1. ready = 0 /\ local = {} /\ rows = {} /\ recording = "none"
  BY DEF Init, LedgerInit
<1> QED BY <1>1 DEF Custody!CInit

LEMMA CustodyStep == AllInv /\ [Next]_vars => [Custody!CNext]_Custody!cVars
<1> SUFFICES ASSUME AllInv, [Next]_vars PROVE [Custody!CNext]_Custody!cVars
  OBVIOUS
<1>t. TypeOK /\ LedgerTypeOK /\ ready \in 0..Chunks
  BY DEF AllInv, TypeOK, ClientTypeOK
<1>k. 1..ready \subseteq Key /\ ready \in Nat
  BY <1>t, ChunksAssumption
<1>i. QueueInOrder /\ DrainInStep /\ CommitsInOrder /\ DoneIsAcked /\ CreatedOnce
  BY DEF AllInv, UploadInv
<1> DEFINE Same == /\ ready' = ready /\ local' = local /\ rows' = rows
                   /\ (recording = "removed")' = (recording = "removed")
<1>0. Same => [Custody!CNext]_Custody!cVars
  BY DEF Custody!cVars
<1>1. CASE Server
  <2>0. Serve /\ ready' = ready /\ local' = local
    BY <1>1 DEF Server, clientVars
  <2>1. CASE \E h \in Handler : Upsert(h)
    <3> PICK h \in Handler : Upsert(h)
      BY <2>1
    <3>1. recording' = recording /\ handler[h].op = "commit"
      BY DEF Upsert, At
    <3>2. PICK k \in 1..ready : handler[h].chunk = {k}
      BY <1>i, <3>1 DEF CommitsInOrder
    <3>3. CASE rows' = rows
      BY <1>0, <2>0, <3>1, <3>3
    <3>4. CASE rows' # rows
      <4>1. Exists /\ rows' = rows \cup {k} /\ k \notin rows
        BY <3>2, <3>4 DEF Upsert, InsertRow
      <4>2. recording # "removed" /\ acked \subseteq rows
        BY <4>1, AckedIsSafe DEF Exists
      <4>3. k \in local
        BY <1>i, <3>2, <4>1, <4>2 DEF DoneIsAcked
      <4>4. Custody!CCommit(k)
        BY <2>0, <3>1, <4>1, <4>2, <4>3 DEF Custody!CCommit
      <4> QED BY <1>k, <3>2, <4>4 DEF Custody!CNext
    <3> QED BY <3>3, <3>4
  <2>2. CASE \E h \in Handler : Delete(h)
    <3> PICK h \in Handler : Delete(h)
      BY <2>2
    <3>1. CASE Exists
      <4>1. recording # "removed" /\ recording' = "removed" /\ rows' = {}
        BY <3>1 DEF Delete, Cascade, Exists
      <4>2. Custody!CDelete
        BY <2>0, <4>1 DEF Custody!CDelete
      <4> QED BY <4>2 DEF Custody!CNext
    <3>2. CASE ~Exists
      <4>1. rows' = rows /\ recording' = recording
        BY <3>2 DEF Delete
      <4> QED BY <1>0, <2>0, <4>1
    <3> QED BY <3>1, <3>2
  <2>3. CASE \E h \in Handler : Create(h)
    <3>1. rows' = rows /\ recording # "removed" /\ recording' # "removed"
      BY <1>i, <2>3 DEF Create, CreatedOnce, Idle, At
    <3> QED BY <1>0, <2>0, <3>1
  <2>4. CASE \E h \in Handler : Finish(h)
    <3>1. rows' = rows /\ (recording' = recording
                          \/ (recording # "removed" /\ recording' = "completed"))
      BY <2>4 DEF Finish, Exists
    <3> QED BY <1>0, <2>0, <3>1
  <2>5. CASE ~\E h \in Handler : Upsert(h) \/ Delete(h) \/ Create(h) \/ Finish(h)
    <3>1. rows' = rows /\ recording' = recording
      BY <2>0, <2>5 DEF Serve, Step, Put, AssertOwned, PutObject, OpenFile, WriteFile,
        CheckBytes, ReadStats, WriteStats, Break, Restart
    <3> QED BY <1>0, <2>0, <3>1
  <2> QED BY <2>1, <2>2, <2>3, <2>4, <2>5
<1>2. CASE ChunkReady
  <2>1. /\ ready' = ready + 1 /\ local' = local \cup {ready + 1}
        /\ rows' = rows /\ recording' = recording /\ ready < Chunks
    BY <1>2 DEF ChunkReady, ledgerVars
  <2>2. /\ 1..(ready + 1) = 1..ready \cup {ready + 1} /\ ready + 1 \notin 1..ready
        /\ ready + 1 \in Key
    BY <1>k, <2>1, ChunksAssumption
  <2>3. Custody!CStore(ready + 1)
    BY <2>1, <2>2 DEF Custody!CStore
  <2> QED BY <2>2, <2>3 DEF Custody!CNext
<1>3. CASE Reclaim
  <2>1. ready' = ready /\ rows' = rows /\ recording' = recording
    BY <1>3 DEF Reclaim, ledgerVars
  <2>2. CASE local' = local
    BY <1>0, <2>1, <2>2
  <2>3. CASE local' # local
    <3>1. local' = local \ reclaiming
      BY <1>3, <2>3 DEF Reclaim
    <3>2. PICK k \in reclaiming : reclaiming = {k}
      BY <1>i, <2>3, <3>1 DEF DrainInStep
    <3>3. k \in acked /\ k \in Key
      BY <1>t, <1>i, <3>2 DEF DrainInStep, DoneIsAcked, TypeOK, ClientTypeOK
    <3>4. k \in rows \/ recording = "removed"
      BY <3>3, AckedIsSafe
    <3>5. Custody!CReclaim(k)
      BY <2>1, <3>1, <3>2, <3>4 DEF Custody!CReclaim
    <3> QED BY <3>3, <3>5 DEF Custody!CNext
  <2> QED BY <2>2, <2>3
<1>4. CASE \/ CreateAnswered \/ CreateLost \/ Succeed \/ Refused \/ Lost \/ BackedOff
           \/ PageDies \/ UNCHANGED vars
           \/ \E h \in Handler : SendCreate(h) \/ Send(h) \/ Complete(h) \/ Remove(h)
  <2>1. ready' = ready /\ local' = local /\ rows' = rows /\ recording' = recording
    BY <1>4 DEF CreateAnswered, CreateLost, Succeed, Refused, Lost, Fail, BackedOff,
      PageDies, SendCreate, Send, Complete, Remove, Sent, vars, ledgerVars, clientVars
  <2> QED BY <1>0, <2>1
<1> QED BY <1>1, <1>2, <1>3, <1>4 DEF Next, Client

\* Page, network and server implement the custody of the chunks, with either
\* storage driver and under all faults.
THEOREM UploadImplementsCustody == Spec => ImplementsCustody
<1> QED BY CustodyInit, CustodyStep, AllInvHolds, PTL
  DEF Spec, ImplementsCustody, Custody!CSpec

=============================================================================
