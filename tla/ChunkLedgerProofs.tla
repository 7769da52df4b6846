------------------------- MODULE ChunkLedgerProofs -------------------------
(***************************************************************************)
(* Proofs about ChunkLedger: for any set of chunks and handlers, whatever  *)
(* the clients ask for and the faults do.                                  *)
(***************************************************************************)
EXTENDS ChunkLedger, TLAPS

Slots == Task \cup {Free("ok"), Free("failed")}
Places == {"begin", "writing", "verify", "upsert", "readStats", "writeStats",
           "finish", "delete"}

-----------------------------------------------------------------------------
(* What a step does to the handlers.                                       *)

\* A handler that answers is free, and no other changes.
LEMMA ReplySlots ==
  ASSUME handler \in [Handler -> Slots], NEW h \in Handler,
         NEW r \in {"ok", "failed"}, Reply(h, r)
  PROVE  /\ handler' \in [Handler -> Slots]
         /\ handler'[h] = Free(r)
         /\ \A g \in Handler \ {h} : handler'[g] = handler[g]
BY DEF Reply, Slots

\* A handler that goes on keeps its request, and no other changes.
LEMMA GotoSlots ==
  ASSUME handler \in [Handler -> Slots], NEW h \in Handler,
         NEW at \in Places, Goto(h, at), handler[h].at \in Places
  PROVE  /\ handler' \in [Handler -> Slots]
         /\ handler'[h] = [handler[h] EXCEPT !.at = at]
         /\ \A g \in Handler \ {h} : handler'[g] = handler[g]
<1>1. handler[h] \in Task
  BY DEF Slots, Free, Places
<1>2. [handler[h] EXCEPT !.at = at] \in Task
  BY <1>1 DEF Task, Places
<1> QED BY <1>1, <1>2 DEF Goto, Slots

\* A handler that accepts is at the beginning, and no other changes.
LEMMA AcceptSlots ==
  ASSUME handler \in [Handler -> Slots], NEW h \in Handler,
         NEW op \in Ops, NEW S \in SUBSET Key, Accept(h, op, S)
  PROVE  /\ handler' \in [Handler -> Slots]
         /\ handler'[h] = [op |-> op, chunk |-> S, seen |-> {}, at |-> "begin"]
         /\ \A g \in Handler \ {h} : handler'[g] = handler[g]
<1>1. [op |-> op, chunk |-> S, seen |-> {}, at |-> "begin"] \in Task
  BY DEF Task
<1> QED BY <1>1 DEF Accept, Slots

\* The name of a request tells a busy handler from a free one.
LEMMA BusyIsTask ==
  ASSUME handler \in [Handler -> Slots], NEW h \in Handler,
         handler[h].at \in Places \/ handler[h].op \in Ops
  PROVE  handler[h] \in Task
BY DEF Slots, Free, Ops, Places

-----------------------------------------------------------------------------
(* Types.                                                                  *)

LEMMA StepKeepsTypes ==
  ASSUME LedgerTypeOK, NEW h \in Handler, Step(h)
  PROVE  LedgerTypeOK'
<1> USE DEF LedgerTypeOK
<1>0. handler \in [Handler -> Slots]
  BY DEF Slots
<1>1. CASE Create(h)
  BY <1>0, <1>1, ReplySlots DEF Create, Slots
<1>2. CASE AssertOwned(h)
  BY <1>0, <1>2, ReplySlots, GotoSlots DEF AssertOwned, Slots, Places
<1>3. CASE PutObject(h)
  BY <1>0, <1>3, ReplySlots DEF PutObject, Slots, Store
<1>4. CASE OpenFile(h)
  <2>1. \E b \in {"torn", "mixed"} : Store(h, b)
    BY <1>4 DEF OpenFile
  <2>2. handler' \in [Handler -> Slots]
    BY <1>0, <1>4, GotoSlots DEF OpenFile, At, Places
  <2> QED BY <1>4, <2>1, <2>2 DEF OpenFile, Slots, Store
<1>5. CASE WriteFile(h)
  <2>1. \E b \in {"torn", "mixed", "whole"} : Store(h, b)
    BY <1>5 DEF WriteFile
  <2> QED BY <1>0, <1>5, <2>1, ReplySlots DEF WriteFile, Slots, Store
<1>6. CASE CheckBytes(h)
  BY <1>0, <1>6, ReplySlots, GotoSlots DEF CheckBytes, VerifyBytes, Slots, At, Places
<1>7. CASE Upsert(h)
  <2>1. handler[h] \in Task
    BY <1>0, <1>7, BusyIsTask DEF Upsert, At, Places
  <2>2. rows' \subseteq Key
    BY <1>7, <2>1 DEF Upsert, InsertRow, Task
  <2> QED BY <1>0, <1>7, <2>2, ReplySlots, GotoSlots DEF Upsert, Slots, At, Places
<1>8. CASE ReadStats(h)
  <2>1. handler[h] \in Task
    BY <1>0, <1>8, BusyIsTask DEF ReadStats, Places
  <2>2. [handler[h] EXCEPT !.at = "writeStats", !.seen = rows] \in Task
    BY <2>1 DEF Task
  <2>3. handler' = [handler EXCEPT ![h] = [handler[h] EXCEPT !.at = "writeStats", !.seen = rows]]
    BY <1>8 DEF ReadStats
  <2> QED BY <1>8, <2>2, <2>3 DEF ReadStats
<1>9. CASE WriteStats(h)
  <2>1. handler[h] \in Task
    BY <1>0, <1>9, BusyIsTask DEF WriteStats, Places
  <2>2. handler[h].chunk \subseteq Key /\ handler[h].seen \subseteq Key
    BY <2>1 DEF Task
  <2>3. UpdateStats(h)
    BY <1>9 DEF WriteStats
  <2>4. counted' \subseteq Key
    BY <2>2, <2>3 DEF UpdateStats
  <2>5. pending' \in BOOLEAN
    BY <2>3 DEF UpdateStats
  <2>6. acked' \subseteq Key
    BY <1>9, <2>2 DEF WriteStats
  <2>7. handler' \in [Handler -> Slots]
    BY <1>0, <1>9, ReplySlots, GotoSlots DEF WriteStats, Places
  <2>8. recording' = recording /\ rows' = rows /\ blob' = blob
    BY <1>9 DEF WriteStats
  <2> QED BY <2>4, <2>5, <2>6, <2>7, <2>8 DEF Slots
<1>10. CASE Finish(h)
  BY <1>0, <1>10, ReplySlots DEF Finish, Slots
<1>11. CASE Delete(h)
  BY <1>0, <1>11, ReplySlots DEF Delete, Cascade, Slots
<1> QED
  BY <1>1, <1>2, <1>3, <1>4, <1>5, <1>6, <1>7, <1>8, <1>9, <1>10, <1>11 DEF Step, Put

LEMMA TypesStep == LedgerTypeOK /\ [LedgerNext]_ledgerVars => LedgerTypeOK'
<1> SUFFICES ASSUME LedgerTypeOK, [LedgerNext]_ledgerVars PROVE LedgerTypeOK'
  OBVIOUS
<1>0. handler \in [Handler -> Slots]
  BY DEF LedgerTypeOK, Slots
<1>1. CASE \E h \in Handler : Step(h)
  BY <1>1, StepKeepsTypes
<1>2. CASE \E h \in Handler : Break(h)
  BY <1>0, <1>2, ReplySlots DEF Break, LedgerTypeOK, Slots
<1>3. CASE Restart
  BY <1>3 DEF Restart, LedgerTypeOK
<1>4. CASE \E h \in Handler : Request(h)
  <2> PICK h \in Handler : Request(h)
    BY <1>4
  <2>1. \E op \in Ops, S \in SUBSET Key : Accept(h, op, S)
    BY DEF Request, Ops
  <2> QED BY <1>0, <2>1, AcceptSlots DEF Request, LedgerTypeOK, Slots
<1>5. CASE UNCHANGED ledgerVars
  BY <1>5 DEF ledgerVars, LedgerTypeOK
<1> QED BY <1>1, <1>2, <1>3, <1>4, <1>5 DEF LedgerNext, Serve

LEMMA InitTypes == LedgerInit => LedgerTypeOK
BY DEF LedgerInit, LedgerTypeOK, Free

\* The ledger's variables keep their types.
THEOREM LedgerTypesCorrect == LedgerSpec => []LedgerTypeOK
<1> QED BY InitTypes, TypesStep, PTL DEF LedgerSpec

-----------------------------------------------------------------------------
(* What the server does to its handlers.                                   *)

Late == {"verify", "upsert", "readStats", "writeStats", "finish", "delete"}

\* A request keeps its name and its chunk until it is answered, and goes past
\* its first await only for a recording that exists.
Keeps(g) ==
  \/ handler'[g] = handler[g]
  \/ handler'[g] \in {Free("ok"), Free("failed")}
  \/ /\ handler[g] \in Task
     /\ handler'[g].op = handler[g].op /\ handler'[g].chunk = handler[g].chunk
     /\ handler'[g].at \in Late => handler[g].at \in Late \/ Exists

OthersStay(h) == \A g \in Handler \ {h} : handler'[g] = handler[g]

LEMMA StepMovesOne ==
  ASSUME LedgerTypeOK, NEW h \in Handler, Step(h)
  PROVE  Keeps(h) /\ OthersStay(h)
<1>0. handler \in [Handler -> Slots]
  BY DEF LedgerTypeOK, Slots
<1>r. ASSUME NEW r \in {"ok", "failed"}, Reply(h, r) PROVE Keeps(h) /\ OthersStay(h)
  BY <1>0, <1>r, ReplySlots DEF Keeps, OthersStay
<1>g. ASSUME NEW at \in Places, Goto(h, at), handler[h].at \in Places,
             at \in Late => handler[h].at \in Late \/ Exists
      PROVE  Keeps(h) /\ OthersStay(h)
  <2>1. handler[h] \in Task
    BY <1>0, <1>g, BusyIsTask
  <2>2. handler'[h] = [handler[h] EXCEPT !.at = at] /\ OthersStay(h)
    BY <1>0, <1>g, GotoSlots DEF OthersStay
  <2>3. handler'[h].op = handler[h].op /\ handler'[h].chunk = handler[h].chunk
        /\ handler'[h].at = at
    BY <2>1, <2>2 DEF Task
  <2> QED BY <1>g, <2>1, <2>2, <2>3 DEF Keeps
<1>1. CASE Create(h)
  BY <1>1, <1>r DEF Create
<1>2. CASE AssertOwned(h)
  BY <1>2, <1>r, <1>g DEF AssertOwned, Places, Late
<1>3. CASE PutObject(h)
  BY <1>3, <1>r DEF PutObject
<1>4. CASE OpenFile(h)
  BY <1>4, <1>g DEF OpenFile, At, Places, Late
<1>5. CASE WriteFile(h)
  BY <1>5, <1>r DEF WriteFile
<1>6. CASE CheckBytes(h)
  BY <1>6, <1>r, <1>g DEF CheckBytes, VerifyBytes, At, Places, Late
<1>7. CASE Upsert(h)
  BY <1>7, <1>r, <1>g DEF Upsert, At, Places, Late
<1>8. CASE ReadStats(h)
  <2>1. handler[h] \in Task
    BY <1>0, <1>8, BusyIsTask DEF ReadStats, Places
  <2>2. handler' = [handler EXCEPT ![h] = [handler[h] EXCEPT !.at = "writeStats", !.seen = rows]]
    BY <1>8 DEF ReadStats
  <2> QED BY <1>0, <1>8, <2>1, <2>2 DEF ReadStats, Task, Keeps, Late, OthersStay
<1>9. CASE WriteStats(h)
  BY <1>9, <1>r, <1>g DEF WriteStats, Places, Late
<1>10. CASE Finish(h)
  BY <1>10, <1>r DEF Finish
<1>11. CASE Delete(h)
  BY <1>11, <1>r DEF Delete
<1> QED
  BY <1>1, <1>2, <1>3, <1>4, <1>5, <1>6, <1>7, <1>8, <1>9, <1>10, <1>11
  DEF Step, Put

LEMMA ServeKeeps ==
  ASSUME LedgerTypeOK, Serve PROVE \A g \in Handler : Keeps(g)
<1>0. handler \in [Handler -> Slots]
  BY DEF LedgerTypeOK, Slots
<1>1. CASE \E h \in Handler : Step(h)
  BY <1>1, StepMovesOne DEF Keeps, OthersStay
<1>2. CASE \E h \in Handler : Break(h)
  BY <1>0, <1>2, ReplySlots DEF Break, Keeps
<1>3. CASE Restart
  BY <1>3 DEF Restart, Keeps
<1> QED BY <1>1, <1>2, <1>3 DEF Serve

\* The server leaves a free handler alone.
LEMMA FreeStays ==
  ASSUME LedgerTypeOK, Serve, NEW h \in Handler, handler[h].op = "none"
  PROVE  handler'[h] = handler[h]
<1>0. handler \in [Handler -> Slots]
  BY DEF LedgerTypeOK, Slots
<1>1. ~Step(h)
  <2>1. handler[h].at \notin Places
    BY <1>0 DEF Slots, Free, Task, Ops, Places
  <2> QED BY <2>1 DEF Step, Put, Create, AssertOwned, PutObject, OpenFile, WriteFile,
    CheckBytes, Upsert, ReadStats, WriteStats, Finish, Delete, At, Places
<1>2. CASE \E g \in Handler : Step(g)
  BY <1>1, <1>2, StepMovesOne DEF OthersStay
<1>3. CASE \E g \in Handler : Break(g)
  BY <1>0, <1>3, ReplySlots DEF Break, IsFree
<1>4. CASE Restart
  BY <1>4 DEF Restart, IsFree
<1> QED BY <1>2, <1>3, <1>4 DEF Serve

-----------------------------------------------------------------------------
(* The invariant.                                                          *)

\* What the server may do to the recording's row.
LEMMA RecordingSteps ==
  ASSUME LedgerTypeOK, Serve
  PROVE  \/ recording' = recording
         \/ /\ recording' = "recording" /\ ~Exists /\ ~Idle("create")
            /\ rows' = rows /\ counted' = counted /\ acked' = acked
         \/ recording' = "completed" /\ Exists
            /\ rows' = rows /\ counted' = counted /\ acked' = acked
         \/ recording' = "removed" /\ Exists /\ ~Idle("remove")
            /\ rows' = {} /\ counted' = {} /\ acked' = acked
<1>1. CASE (\E h \in Handler : Break(h)) \/ Restart
  BY <1>1 DEF Break, Restart
<1>2. CASE \E h \in Handler : Create(h) \/ AssertOwned(h)
  BY <1>2 DEF Create, AssertOwned, At, Idle
<1>3. CASE \E h \in Handler : PutObject(h) \/ OpenFile(h) \/ WriteFile(h)
  BY <1>3 DEF PutObject, OpenFile, WriteFile
<1>4. CASE \E h \in Handler :
             CheckBytes(h) \/ Upsert(h) \/ ReadStats(h) \/ WriteStats(h)
  BY <1>4 DEF CheckBytes, Upsert, ReadStats, WriteStats
<1>5. CASE \E h \in Handler : Finish(h) \/ Delete(h)
  BY <1>5 DEF Finish, Delete, Cascade, At, Idle
<1> QED BY <1>1, <1>2, <1>3, <1>4, <1>5 DEF Serve, Step, Put

\* What a client may do.
LEMMA RequestEffect ==
  ASSUME LedgerTypeOK, NEW h \in Handler, Request(h)
  PROVE  /\ UNCHANGED <<recording, rows, counted, pending, blob, acked>>
         /\ handler[h].op = "none" /\ OthersStay(h)
         /\ handler'[h] \in Task /\ handler'[h].at = "begin"
         /\ handler'[h].op = "create" => recording = "none" /\ Idle("remove")
         /\ handler'[h].op = "remove" => Idle("create")
<1>0. handler \in [Handler -> Slots]
  BY DEF LedgerTypeOK, Slots
<1>1. \E op \in Ops, S \in SUBSET Key :
        /\ Accept(h, op, S)
        /\ op = "create" => recording = "none" /\ Idle("remove")
        /\ op = "remove" => Idle("create")
  <2>1. CASE \E k \in Key, op \in {"target", "put", "commit"} : Accept(h, op, {k})
    BY <2>1 DEF Ops
  <2>2. CASE Accept(h, "complete", {})
    BY <2>2 DEF Ops
  <2>3. CASE recording = "none" /\ Idle("remove") /\ Accept(h, "create", {})
    BY <2>3 DEF Ops
  <2>4. CASE Idle("create") /\ Accept(h, "remove", {})
    BY <2>4 DEF Ops
  <2> QED BY <2>1, <2>2, <2>3, <2>4 DEF Request
<1>2. PICK op \in Ops, S \in SUBSET Key :
        /\ Accept(h, op, S)
        /\ op = "create" => recording = "none" /\ Idle("remove")
        /\ op = "remove" => Idle("create")
  BY <1>1
<1>3. handler'[h] = [op |-> op, chunk |-> S, seen |-> {}, at |-> "begin"]
      /\ OthersStay(h)
  BY <1>0, <1>2, AcceptSlots DEF OthersStay
<1>4. handler'[h] \in Task
  BY <1>3 DEF Task
<1> QED BY <1>2, <1>3, <1>4 DEF Accept, IsFree, Request

LEMMA FollowStep ==
  ASSUME LedgerTypeOK, LedgerNext, RequestsFollowCreation
  PROVE  RequestsFollowCreation'
<1>1. CASE Serve
  <2>0. \A g \in Handler : Keeps(g)
    BY <1>1, ServeKeeps
  <2>1. \A op \in Ops : ~Idle(op)' => ~Idle(op)
    BY <2>0 DEF Keeps, Idle, Free, Ops
  <2>2. ASSUME NEW g \in Handler, handler'[g].at \in Late PROVE recording' # "none"
    <3>1. handler[g].at \in Late \/ Exists
      BY <2>0, <2>2 DEF Keeps, Free, Late
    <3> QED BY <1>1, <3>1, RecordingSteps DEF RequestsFollowCreation, Exists, Late
  <2>3. ~Idle("create")' => recording' # "removed" /\ Idle("remove")'
    BY <1>1, <2>1, RecordingSteps DEF RequestsFollowCreation, Ops
  <2>4. recording' = "none" => acked' = {}
    <3> SUFFICES ASSUME recording' = "none" PROVE acked' = {}
      OBVIOUS
    <3>1. recording = "none" /\ acked = {}
      BY <1>1, RecordingSteps DEF RequestsFollowCreation
    <3>2. acked' = acked
      BY <1>1, <3>1 DEF Serve, Step, Put, Create, AssertOwned, PutObject, OpenFile,
        WriteFile, CheckBytes, Upsert, ReadStats, WriteStats, Finish, Delete,
        Break, Restart, Exists
    <3> QED BY <3>1, <3>2
  <2> QED BY <2>2, <2>3, <2>4 DEF RequestsFollowCreation, Late
<1>2. CASE \E h \in Handler : Request(h)
  <2> PICK h \in Handler : Request(h)
    BY <1>2
  <2> QED BY RequestEffect DEF RequestsFollowCreation, OthersStay, Idle
<1> QED BY <1>1, <1>2 DEF LedgerNext

-----------------------------------------------------------------------------
\* Rows are added for a recording that exists, and go only with it.
LEMMA RowSteps ==
  ASSUME LedgerTypeOK, Serve
  PROVE  \/ rows' = rows
         \/ Exists /\ Exists' /\ rows \subseteq rows' /\ counted' = counted
         \/ ~Exists' /\ rows' = {} /\ counted' = {}
<1>1. CASE \E h \in Handler : Upsert(h)
  BY <1>1 DEF Upsert, InsertRow, Exists
<1>2. CASE \E h \in Handler : Delete(h)
  BY <1>2 DEF Delete, Cascade, Exists
<1>3. CASE \A h \in Handler : ~Upsert(h) /\ ~Delete(h)
  BY <1>3 DEF Serve, Step, Put, Create, AssertOwned, PutObject, OpenFile, WriteFile,
    CheckBytes, ReadStats, WriteStats, Finish, Break, Restart
<1> QED BY <1>1, <1>2, <1>3

\* While a request is past its first await the recording does not come into
\* being, so as long as it exists its rows only grow.
LEMMA RowsGrow ==
  ASSUME LedgerTypeOK, Serve, RequestsFollowCreation, Exists',
         NEW g \in Handler, handler[g].at \in Late
  PROVE  Exists /\ rows \subseteq rows'
<1>1. Exists
  BY RecordingSteps DEF RequestsFollowCreation, Exists, Late, LedgerTypeOK
<1> QED BY <1>1, RowSteps

LEMMA OrphansStep ==
  ASSUME LedgerTypeOK, LedgerNext, NoOrphans PROVE NoOrphans'
<1>1. CASE Serve
  <2> SUFFICES ASSUME ~Exists' PROVE rows' = {} /\ counted' = {}
    BY DEF NoOrphans
  <2>1. CASE Exists
    BY <1>1, <2>1, RecordingSteps DEF Exists
  <2>2. CASE ~Exists
    <3>1. rows = {} /\ counted = {}
      BY <2>2 DEF NoOrphans
    <3>2. rows' = {}
      BY <1>1, <2>2, <3>1, RowSteps
    <3>3. counted' = {}
      BY <1>1, <2>2, <3>1 DEF Serve, Step, Put, Create, AssertOwned, PutObject, OpenFile,
        WriteFile, CheckBytes, Upsert, ReadStats, WriteStats, UpdateStats, Finish,
        Delete, Break, Restart
    <3> QED BY <3>2, <3>3
  <2> QED BY <2>1, <2>2
<1>2. CASE \E h \in Handler : Request(h)
  BY <1>2, RequestEffect DEF NoOrphans, Exists
<1> QED BY <1>1, <1>2 DEF LedgerNext

AgreesAt(g) ==
  /\ handler[g].at = "writeStats" => handler[g].seen \subseteq rows
  /\ handler[g].op = "commit" /\ handler[g].at \in {"readStats", "writeStats"}
       => handler[g].chunk \subseteq rows

LEMMA AgreeStep ==
  ASSUME LedgerTypeOK, LedgerNext, RequestsFollowCreation, HandlersAgree
  PROVE  HandlersAgree'
<1> SUFFICES ASSUME Exists', NEW g \in Handler PROVE AgreesAt(g)'
  BY DEF HandlersAgree, AgreesAt
<1>0. handler \in [Handler -> Slots]
  BY DEF LedgerTypeOK, Slots
<1>1. ASSUME Serve, handler'[g] = handler[g] PROVE AgreesAt(g)'
  <2>1. CASE handler[g].at \in Late
    <3>1. Exists /\ rows \subseteq rows'
      BY <1>1, <2>1, RowsGrow
    <3>2. AgreesAt(g)
      BY <3>1 DEF AgreesAt, HandlersAgree
    <3> QED BY <1>1, <3>1, <3>2 DEF AgreesAt
  <2>2. CASE handler[g].at \notin Late
    BY <1>1, <2>2 DEF AgreesAt, Late
  <2> QED BY <2>1, <2>2
<1>2. ASSUME handler'[g] \in {Free("ok"), Free("failed")} PROVE AgreesAt(g)'
  BY <1>2 DEF AgreesAt, Free
<1>3. CASE \E h \in Handler : Step(h)
  <2> PICK h \in Handler : Step(h)
    BY <1>3
  <2>s. Serve
    BY DEF Serve
  <2>1. CASE g # h
    BY <2>1, <2>s, <1>1, StepMovesOne DEF OthersStay
  <2>2. CASE g = h
    <3> USE <2>2
    <3>r. ASSUME NEW r \in {"ok", "failed"}, Reply(h, r) PROVE AgreesAt(g)'
      BY <1>0, <1>2, <3>r, ReplySlots
    <3>g. ASSUME NEW at \in Places, Goto(h, at), handler[h].at \in Places
          PROVE  /\ handler[h] \in Task /\ handler'[h].at = at
                 /\ handler'[h].op = handler[h].op
                 /\ handler'[h].chunk = handler[h].chunk
      <4>1. handler[h] \in Task
        BY <1>0, <3>g, BusyIsTask
      <4>2. handler'[h] = [handler[h] EXCEPT !.at = at]
        BY <1>0, <3>g, GotoSlots
      <4> QED BY <4>1, <4>2 DEF Task
    <3>1. CASE Create(h)
      BY <3>1, <3>r DEF Create
    <3>2. CASE AssertOwned(h)
      BY <3>2, <3>r, <3>g DEF AssertOwned, AgreesAt, Places
    <3>3. CASE PutObject(h)
      BY <3>3, <3>r DEF PutObject
    <3>4. CASE OpenFile(h)
      BY <3>4, <3>g DEF OpenFile, At, AgreesAt, Places
    <3>5. CASE WriteFile(h)
      BY <3>5, <3>r DEF WriteFile
    <3>6. CASE CheckBytes(h)
      BY <3>6, <3>r, <3>g DEF CheckBytes, VerifyBytes, At, AgreesAt, Places
    <3>7. CASE Upsert(h)
      <4>1. CASE Exists /\ InsertRow(h) /\ Goto(h, "readStats")
        BY <3>7, <4>1, <3>g DEF Upsert, InsertRow, At, AgreesAt, Places
      <4> QED BY <3>7, <4>1, <3>r DEF Upsert
    <3>8. CASE ReadStats(h)
      <4>1. handler[h] \in Task
        BY <1>0, <3>8, BusyIsTask DEF ReadStats, Places
      <4>2. handler'[h] = [handler[h] EXCEPT !.at = "writeStats", !.seen = rows]
        BY <1>0, <3>8 DEF ReadStats
      <4>3. Exists /\ rows' = rows
        BY <3>8 DEF ReadStats, Exists
      <4>4. /\ handler'[h].op = handler[h].op /\ handler'[h].seen = rows
            /\ handler'[h].chunk = handler[h].chunk
        BY <4>1, <4>2 DEF Task
      <4>5. handler[h].op = "commit" => handler[h].chunk \subseteq rows
        BY <3>8, <4>3 DEF HandlersAgree, ReadStats
      <4> QED BY <4>3, <4>4, <4>5 DEF AgreesAt
    <3>9. CASE WriteStats(h)
      BY <3>9, <3>r, <3>g DEF WriteStats, AgreesAt, Places
    <3>10. CASE Finish(h) \/ Delete(h)
      BY <3>10, <3>r DEF Finish, Delete
    <3> QED
      BY <3>1, <3>2, <3>3, <3>4, <3>5, <3>6, <3>7, <3>8, <3>9, <3>10 DEF Step, Put
  <2> QED BY <2>1, <2>2
<1>4. CASE (\E h \in Handler : Break(h)) \/ Restart
  <2>1. handler'[g] = handler[g] \/ handler'[g] \in {Free("ok"), Free("failed")}
    BY <1>0, <1>4, ReplySlots DEF Break, Restart
  <2> QED BY <1>1, <1>2, <1>4, <2>1 DEF Serve
<1>5. CASE \E h \in Handler : Request(h)
  <2> PICK h \in Handler : Request(h)
    BY <1>5
  <2> QED BY RequestEffect DEF AgreesAt, HandlersAgree, OthersStay, Exists
<1>6. Serve => \/ \E h \in Handler : Step(h)
               \/ (\E h \in Handler : Break(h)) \/ Restart
  BY DEF Serve
<1> QED BY <1>3, <1>4, <1>5, <1>6 DEF LedgerNext

LEMMA CountedStep ==
  ASSUME LedgerTypeOK, LedgerNext, HandlersAgree, CountedArrived
  PROVE  CountedArrived'
<1>1. CASE \E h \in Handler : WriteStats(h)
  <2> PICK h \in Handler : WriteStats(h)
    BY <1>1
  <2>1. rows' = rows /\ UpdateStats(h)
    BY DEF WriteStats
  <2>2. Exists => handler[h].seen \subseteq rows
    BY DEF HandlersAgree, WriteStats
  <2> QED BY <2>1, <2>2 DEF CountedArrived, UpdateStats
<1>2. CASE Serve /\ ~\E h \in Handler : WriteStats(h)
  <2>1. counted' = counted \/ counted' = {}
    BY <1>2 DEF Serve, Step, Put, Create, AssertOwned, PutObject, OpenFile, WriteFile,
      CheckBytes, Upsert, ReadStats, Finish, Delete, Break, Restart
  <2> QED BY <1>2, <2>1, RowSteps DEF CountedArrived
<1>3. CASE \E h \in Handler : Request(h)
  BY <1>3, RequestEffect DEF CountedArrived
<1> QED BY <1>1, <1>2, <1>3 DEF LedgerNext

LEMMA AckedStep ==
  ASSUME LedgerTypeOK, LedgerNext, RequestsFollowCreation, HandlersAgree,
         AckedIsCommitted
  PROVE  AckedIsCommitted'
<1> SUFFICES ASSUME Exists' PROVE acked' \subseteq rows'
  BY DEF AckedIsCommitted
<1>1. CASE \E h \in Handler : WriteStats(h)
  <2> PICK h \in Handler : WriteStats(h)
    BY <1>1
  <2>1. rows' = rows /\ Exists
    BY DEF WriteStats, Exists
  <2>2. acked' = acked \/ (handler[h].op = "commit" /\ acked' = acked \cup handler[h].chunk)
    BY DEF WriteStats
  <2>3. handler[h].op = "commit" => handler[h].chunk \subseteq rows
    BY <2>1 DEF HandlersAgree, WriteStats
  <2> QED BY <2>1, <2>2, <2>3 DEF AckedIsCommitted
<1>2. CASE Serve /\ ~\E h \in Handler : WriteStats(h)
  <2>1. acked' = acked
    BY <1>2 DEF Serve, Step, Put, Create, AssertOwned, PutObject, OpenFile, WriteFile,
      CheckBytes, Upsert, ReadStats, Finish, Delete, Break, Restart
  <2>2. CASE Exists
    BY <1>2, <2>1, <2>2, RowSteps DEF AckedIsCommitted
  <2>3. CASE ~Exists
    <3>1. recording # "removed"
      BY <1>2, <2>3, RecordingSteps DEF RequestsFollowCreation, Exists
    <3>2. acked = {}
      BY <2>3, <3>1 DEF RequestsFollowCreation, Exists, LedgerTypeOK
    <3> QED BY <2>1, <3>2
  <2> QED BY <2>2, <2>3
<1>3. CASE \E h \in Handler : Request(h)
  BY <1>3, RequestEffect DEF AckedIsCommitted, Exists
<1> QED BY <1>1, <1>2, <1>3 DEF LedgerNext

LEMMA BytesStep ==
  ASSUME LedgerTypeOK, LedgerNext, BytesBeforeRow PROVE BytesBeforeRow'
<1> SUFFICES ASSUME AtomicPut, Verify PROVE BytesBeforeRow'
  BY DEF BytesBeforeRow
<1>0. handler \in [Handler -> Slots]
  BY DEF LedgerTypeOK, Slots
<1>w. \A h \in Handler : ~At(h, "put", "writing")
  BY DEF BytesBeforeRow
<1> DEFINE Ready(g) == ~At(g, "put", "writing")
                       /\ (At(g, "commit", "upsert") => handler[g].chunk \subseteq Whole)
<1>1. ASSUME NEW g \in Handler PROVE Ready(g)
  BY DEF BytesBeforeRow
<1>2. ASSUME Whole \subseteq Whole', rows' \subseteq Whole',
             \A g \in Handler : Ready(g)'
      PROVE BytesBeforeRow'
  BY <1>2 DEF BytesBeforeRow
<1>3. ASSUME NEW g \in Handler, Whole \subseteq Whole', handler'[g] = handler[g]
      PROVE Ready(g)'
  BY <1>1, <1>3 DEF At
<1>4. ASSUME NEW g \in Handler, handler'[g] \in {Free("ok"), Free("failed")}
      PROVE Ready(g)'
  BY <1>4 DEF At, Free
<1>5. rows \subseteq Whole
  BY DEF BytesBeforeRow
<1> HIDE DEF Ready
<1>6. CASE \E h \in Handler : PutObject(h)
  <2> PICK h \in Handler : PutObject(h)
    BY <1>6
  <2>1. Whole \subseteq Whole' /\ rows' = rows
    BY DEF PutObject, Store, Whole, LedgerTypeOK
  <2>2. Step(h)
    BY DEF Step, Put, PutObject
  <2>3. handler'[h] = Free("ok")
    BY <1>0, ReplySlots DEF PutObject
  <2>4. \A g \in Handler : Ready(g)'
    BY <1>3, <1>4, <2>1, <2>2, <2>3, StepMovesOne DEF OthersStay
  <2> QED BY <1>2, <1>5, <2>1, <2>4
<1>7. CASE \E h \in Handler : CheckBytes(h)
  <2> PICK h \in Handler : CheckBytes(h)
    BY <1>7
  <2>1. Whole' = Whole /\ rows' = rows /\ handler[h].at = "verify"
    BY DEF CheckBytes, Whole, At
  <2>2. Step(h) /\ handler[h] \in Task
    BY <1>0, <2>1, BusyIsTask DEF Step, Put, Places
  <2>3. ASSUME \A k \in handler[h].chunk : blob[k] = "whole", Goto(h, "upsert")
        PROVE  Ready(h)'
    <3>1. handler'[h] = [handler[h] EXCEPT !.at = "upsert"]
      BY <1>0, <2>1, <2>3, GotoSlots DEF Places
    <3>2. handler'[h].at = "upsert" /\ handler'[h].chunk = handler[h].chunk
      BY <2>2, <3>1 DEF Task
    <3>3. handler[h].chunk \subseteq Whole
      BY <2>2, <2>3 DEF Whole, Task
    <3> QED BY <2>1, <3>2, <3>3 DEF Ready, At
  <2>4. ASSUME Reply(h, "failed") PROVE Ready(h)'
    BY <1>0, <1>4, <2>4, ReplySlots
  <2>5. Ready(h)'
    BY <2>3, <2>4 DEF CheckBytes, VerifyBytes
  <2>6. \A g \in Handler : Ready(g)'
    BY <1>3, <2>1, <2>2, <2>5, StepMovesOne DEF OthersStay
  <2> QED BY <1>2, <1>5, <2>1, <2>6
<1>8. CASE \E h \in Handler :
             \/ Create(h) \/ AssertOwned(h) \/ OpenFile(h) \/ WriteFile(h)
             \/ Upsert(h) \/ ReadStats(h) \/ WriteStats(h)
             \/ Finish(h) \/ Delete(h)
  <2> PICK h \in Handler :
             \/ Create(h) \/ AssertOwned(h) \/ OpenFile(h) \/ WriteFile(h)
             \/ Upsert(h) \/ ReadStats(h) \/ WriteStats(h)
             \/ Finish(h) \/ Delete(h)
    BY <1>8
  <2>1. ~OpenFile(h) /\ ~WriteFile(h)
    BY <1>w DEF OpenFile, WriteFile
  <2>2. Whole' = Whole
    BY <2>1 DEF Create, AssertOwned, Upsert, ReadStats, WriteStats, Finish, Delete,
      Whole
  <2>3. rows' \subseteq Whole
    <3>1. CASE Upsert(h)
      <4>1. handler[h].chunk \subseteq Whole
        BY <1>1, <3>1 DEF Upsert, Ready, At
      <4> QED BY <1>5, <3>1, <4>1 DEF Upsert, InsertRow
    <3>2. CASE ~Upsert(h)
      BY <1>5, <2>1, <3>2 DEF Create, AssertOwned, ReadStats, WriteStats, Finish,
        Delete, Cascade
    <3> QED BY <3>1, <3>2
  <2>4. Step(h)
    BY <2>1 DEF Step
  <2>5. Ready(h)'
    <3>r. ASSUME NEW r \in {"ok", "failed"}, Reply(h, r) PROVE Ready(h)'
      BY <1>0, <1>4, <3>r, ReplySlots
    <3>g. ASSUME NEW at \in Places \ {"upsert", "writing"}, Goto(h, at),
                 handler[h].at \in Places
          PROVE  Ready(h)'
      <4>1. handler[h] \in Task
        BY <1>0, <3>g, BusyIsTask
      <4>2. handler'[h] = [handler[h] EXCEPT !.at = at]
        BY <1>0, <3>g, GotoSlots
      <4> QED BY <4>1, <4>2 DEF Task, Ready, At
    <3>1. CASE Create(h) \/ Finish(h) \/ Delete(h)
      BY <3>1, <3>r DEF Create, Finish, Delete
    <3>2. CASE AssertOwned(h)
      BY <3>2, <3>r, <3>g DEF AssertOwned, Places
    <3>3. CASE Upsert(h)
      BY <3>3, <3>r, <3>g DEF Upsert, At, Places
    <3>4. CASE ReadStats(h)
      <4>1. handler[h] \in Task
        BY <1>0, <3>4, BusyIsTask DEF ReadStats, Places
      <4>2. handler'[h] = [handler[h] EXCEPT !.at = "writeStats", !.seen = rows]
        BY <1>0, <3>4 DEF ReadStats
      <4> QED BY <4>1, <4>2 DEF Task, Ready, At
    <3>5. CASE WriteStats(h)
      BY <3>5, <3>r, <3>g DEF WriteStats, Places
    <3> QED BY <2>1, <3>1, <3>2, <3>3, <3>4, <3>5
  <2>6. \A g \in Handler : Ready(g)'
    BY <1>3, <2>2, <2>4, <2>5, StepMovesOne DEF OthersStay
  <2> QED BY <1>2, <2>2, <2>3, <2>6
<1>9. CASE (\E h \in Handler : Break(h)) \/ Restart
  <2>1. Whole' = Whole /\ rows' = rows
    BY <1>9 DEF Break, Restart, Whole
  <2>2. \A g \in Handler : handler'[g] = handler[g]
                            \/ handler'[g] \in {Free("ok"), Free("failed")}
    BY <1>0, <1>9, ReplySlots DEF Break, Restart
  <2> QED BY <1>2, <1>3, <1>4, <1>5, <2>1, <2>2
<1>10. CASE \E h \in Handler : Request(h)
  <2> PICK h \in Handler : Request(h)
    BY <1>10
  <2>1. Whole' = Whole /\ rows' = rows
    BY RequestEffect DEF Whole
  <2>2. handler'[h].at = "begin" /\ OthersStay(h)
    BY RequestEffect
  <2>3. Ready(h)'
    BY <2>2 DEF Ready, At
  <2>4. \A g \in Handler : Ready(g)'
    BY <1>3, <2>1, <2>2, <2>3 DEF OthersStay
  <2> QED BY <1>2, <1>5, <2>1, <2>4
<1>11. LedgerNext => \/ \E h \in Handler : Step(h)
                     \/ (\E h \in Handler : Break(h)) \/ Restart
                     \/ \E h \in Handler : Request(h)
  BY DEF LedgerNext, Serve
<1> QED BY <1>6, <1>7, <1>8, <1>9, <1>10, <1>11 DEF Step, Put

-----------------------------------------------------------------------------
LEMMA InitLedgerInv == LedgerInit => LedgerInv
BY DEF LedgerInit, LedgerInv, RequestsFollowCreation, NoOrphans, HandlersAgree,
  BytesBeforeRow, CountedArrived, AckedIsCommitted, Idle, Exists, Free, At

LEMMA LedgerInvStep ==
  LedgerTypeOK /\ LedgerInv /\ [LedgerNext]_ledgerVars => LedgerInv'
<1> SUFFICES ASSUME LedgerTypeOK, LedgerInv, [LedgerNext]_ledgerVars PROVE LedgerInv'
  OBVIOUS
<1>1. CASE LedgerNext
  BY <1>1, FollowStep, OrphansStep, AgreeStep, BytesStep, CountedStep, AckedStep
  DEF LedgerInv
<1>2. CASE UNCHANGED ledgerVars
  BY <1>2 DEF ledgerVars, LedgerInv, RequestsFollowCreation, NoOrphans, HandlersAgree,
    BytesBeforeRow, CountedArrived, AckedIsCommitted, Idle, Exists, At, Whole
<1> QED BY <1>1, <1>2

\* The invariant of the ledger holds in every behaviour of the API, with any
\* number of requests at a time, failing calls and restarts included.
THEOREM LedgerInvHolds == LedgerSpec => []LedgerInv
<1>1. LedgerInit => LedgerTypeOK /\ LedgerInv
  BY InitTypes, InitLedgerInv
<1>2. (LedgerTypeOK /\ LedgerInv) /\ [LedgerNext]_ledgerVars
        => (LedgerTypeOK /\ LedgerInv)'
  BY TypesStep, LedgerInvStep
<1> QED BY <1>1, <1>2, PTL DEF LedgerSpec

\* durationMs and sizeBytes never include a chunk that is not in the ledger.
THEOREM SummaryCountsArrived == LedgerSpec => []CountedArrived
<1>1. LedgerInv => CountedArrived
  BY DEF LedgerInv
<1> QED BY <1>1, LedgerInvHolds, PTL

\* An answered commit is in the ledger until the recording is deleted.
THEOREM AnsweredCommitStays == LedgerSpec => []AckedIsCommitted
<1>1. LedgerInv => AckedIsCommitted
  BY DEF LedgerInv
<1> QED BY <1>1, LedgerInvHolds, PTL

\* Deleting a recording leaves no chunk rows behind, whatever was under way.
THEOREM DeletionIsComplete == LedgerSpec => []RemovedLeavesNoRows
<1>1. LedgerInv => RemovedLeavesNoRows
  BY DEF LedgerInv, NoOrphans, RemovedLeavesNoRows
<1> QED BY <1>1, LedgerInvHolds, PTL

\* With a storage whose PUT is atomic and with verification switched on, a
\* committed chunk has its bytes.
THEOREM CommittedHasBytes ==
  ASSUME AtomicPut, Verify
  PROVE  LedgerSpec => []UploadedIsSafe
<1>1. LedgerInv => UploadedIsSafe
  BY DEF LedgerInv, BytesBeforeRow, UploadedIsSafe, Whole
<1> QED BY <1>1, LedgerInvHolds, PTL

=============================================================================
