-------------------------- MODULE ExtensionProofs --------------------------
(***************************************************************************)
(* The extension, for any number of exchanges, recordings and pending      *)
(* writes: its types, that what records can be stopped, and that the       *)
(* offscreen document is not closed over a recording, unless one of the    *)
(* slips has happened.                                                     *)
(***************************************************************************)
EXTENDS Extension, SequenceTheorems, TLAPS

StateOrNothing == State \cup {Nothing}
WriteRec == [state : State, by : Toggle \cup {Nobody}]
ToggleRec == [at : Places, id : State \cup {Nothing}]
RecStages == Running \cup {"none", "saved", "failed", "cut"}
StopStages == {"none", "wait", "close"}

\* An exchange has a recorder's number from the start to the note of it.
AskedInv == \A t \in Toggle : toggles[t].at = "asked" => toggles[t].id \in State

\* The worker remembers what it has noted last, or has slept and not heard the
\* storage's answer yet, which is then on its way to whoever has asked.
MemoryInv ==
  \/ memory = Said
  \/ /\ memory = Nobody /\ writes = <<>>
     /\ \A t \in Toggle : \/ toggles[t].at = "idle"
                          \/ toggles[t].at = "asking" /\ toggles[t].id # Nothing

Alive(r) == rec[r] \in {"opening", "starting", "recording"}

\* A start is alone, and comes when nothing is recorded or being stopped.
StartInv ==
  /\ \A t, u \in Toggle : Starting(t) /\ Starting(u) => t = u
  /\ \A t \in Toggle : Starting(t) => memory = Nobody /\ ~Ending
  /\ \A t \in Toggle : toggles[t].at \in {"minting", "ready"} => \A r \in Id : rec[r] \notin Running

\* A stop leaves nothing that records, and the document waits for one at most.
StopInv ==
  /\ Ending => \A r \in Id : ~Alive(r)
  /\ \A q, r \in DOMAIN stops : stops[q] # "none" /\ stops[r] # "none" => q = r

\* The recorder that lives is the one the worker has noted or is about to note,
\* and the document holds it; one that is stopping is waited for.
RecorderInv ==
  /\ \A r \in Id : Alive(r) => Told(r) \/ Said = r
  /\ \A r \in Id : rec[r] \in {"starting", "recording", "stopping"} => held = r
  /\ \A r \in Id : rec[r] = "stopping" <=> stops[r] = "wait"
  /\ \A r \in Id : rec[r] # "cut"

ControlInv == Harmless => MemoryInv /\ StartInv /\ StopInv /\ RecorderInv

AllInv == ExtensionTypeOK /\ AskedInv /\ ControlInv

-----------------------------------------------------------------------------
(* Types and records.                                                      *)

LEMMA Types ==
  ExtensionTypeOK <=> /\ memory \in State /\ stored \in StateOrNothing
                      /\ writes \in Seq(WriteRec) /\ badge \in BOOLEAN
                      /\ toggles \in [Toggle -> ToggleRec] /\ doc \in BOOLEAN
                      /\ held \in Id \cup {Nobody} /\ rec \in [Id -> RecStages]
                      /\ stops \in [Id \cup {Nobody} -> StopStages] /\ slips \subseteq Slip
BY DEF ExtensionTypeOK, StateOrNothing, WriteRec, ToggleRec, RecStages, StopStages

LEMMA TypesNext ==
  ExtensionTypeOK' <=> /\ memory' \in State /\ stored' \in StateOrNothing
                       /\ writes' \in Seq(WriteRec) /\ badge' \in BOOLEAN
                       /\ toggles' \in [Toggle -> ToggleRec] /\ doc' \in BOOLEAN
                       /\ held' \in Id \cup {Nobody} /\ rec' \in [Id -> RecStages]
                       /\ stops' \in [Id \cup {Nobody} -> StopStages] /\ slips' \subseteq Slip
BY DEF ExtensionTypeOK, StateOrNothing, WriteRec, ToggleRec, RecStages, StopStages

LEMMA NumbersDiffer == Nobody \notin Id /\ Nothing \notin State
BY ExtensionAssumption DEF Id, Nobody, Nothing, State

LEMMA DocStays ==
  ASSUME UNCHANGED docVars
  PROVE  doc' = doc /\ held' = held /\ rec' = rec /\ stops' = stops
BY DEF docVars

LEMMA WorkerStays ==
  ASSUME UNCHANGED workerVars
  PROVE  memory' = memory /\ stored' = stored /\ writes' = writes /\ badge' = badge
BY DEF workerVars, copyVars

LEMMA SaidStays ==
  ASSUME stored' = stored, writes' = writes
  PROVE  Said' = Said
BY DEF Said, Latest

\* A toggle moves on; its number and the other toggles stay.
LEMMA Moves ==
  ASSUME toggles \in [Toggle -> ToggleRec], NEW t \in Toggle, NEW from, NEW to \in Places,
         Goes(t, from, to)
  PROVE  /\ toggles' \in [Toggle -> ToggleRec]
         /\ toggles[t].at = from /\ toggles'[t].at = to /\ toggles'[t].id = toggles[t].id
         /\ \A u \in Toggle : u # t => toggles'[u] = toggles[u]
<1>1. toggles[t] \in ToggleRec /\ toggles'[t] = [toggles[t] EXCEPT !.at = to]
  BY DEF Goes
<1>2. [toggles[t] EXCEPT !.at = to] \in ToggleRec
  BY <1>1 DEF ToggleRec
<1> QED BY <1>1, <1>2 DEF Goes, ToggleRec

\* A toggle is set to another place, with another number.
LEMMA Sets ==
  ASSUME toggles \in [Toggle -> ToggleRec], NEW t \in Toggle, NEW to \in Places,
         NEW id \in State \cup {Nothing}, toggles' = [toggles EXCEPT ![t] = [at |-> to, id |-> id]]
  PROVE  /\ toggles' \in [Toggle -> ToggleRec]
         /\ toggles'[t].at = to /\ toggles'[t].id = id
         /\ \A u \in Toggle : u # t => toggles'[u] = toggles[u]
<1>1. [at |-> to, id |-> id] \in ToggleRec
  BY DEF ToggleRec
<1> QED BY <1>1

LEMMA AskedMoves ==
  ASSUME AskedInv, NEW t \in Toggle, \A u \in Toggle : u # t => toggles'[u] = toggles[u],
         toggles'[t].at = "asked" => toggles'[t].id \in State
  PROVE  AskedInv'
BY DEF AskedInv, State, Id

LEMMA SlipsGrow ==
  ASSUME slips \subseteq Slip, NEW kinds, kinds \subseteq Slip, Slips(kinds)
  PROVE  /\ slips' \subseteq Slip /\ slips \subseteq slips'
         /\ Harmless' => Harmless /\ kinds \subseteq slips'
BY DEF Slips, Harmless

\* A slip that a harmless history does not contain has not happened.
LEMMA NoSlip ==
  ASSUME NEW kind, kind # "failed", NEW happens \in BOOLEAN,
         If(kind, happens) \subseteq slips', Harmless'
  PROVE  ~happens
BY DEF If, Harmless

\* A write that is issued is what the worker says; one that lands changes
\* nothing of it.
LEMMA PersistsSays ==
  ASSUME ExtensionTypeOK, NEW state \in State, NEW by \in Toggle \cup {Nobody},
         Persists(state, by), stored' = stored
  PROVE  writes' \in Seq(WriteRec) /\ Said' = state
<1>1. writes \in Seq(WriteRec) /\ [state |-> state, by |-> by] \in WriteRec
  BY Types DEF WriteRec
<1>2. writes' = Append(writes, [state |-> state, by |-> by])
  BY DEF Persists
<1>3. /\ writes' \in Seq(WriteRec) /\ writes' # <<>>
      /\ writes'[Len(writes')] = [state |-> state, by |-> by]
  BY <1>1, <1>2
<1>4. Latest' = state
  BY <1>3 DEF Latest
<1> QED BY <1>3, <1>4, NumbersDiffer DEF Said

\* What is left of a sequence without its head.
LEMMA HeadAndTail ==
  ASSUME NEW S, NEW s \in Seq(S), s # <<>>
  PROVE  /\ Head(s) \in S /\ Tail(s) \in Seq(S)
         /\ Len(s) = 1 => Tail(s) = <<>> /\ Head(s) = s[Len(s)]
         /\ Len(s) # 1 => Tail(s) # <<>> /\ Tail(s)[Len(Tail(s))] = s[Len(s)]
<1>1. PICK n \in Nat : Len(s) = n
  OBVIOUS
<1>2. n >= 1 /\ Head(s) \in S /\ Tail(s) \in Seq(S) /\ Head(s) = s[1]
  BY <1>1
<1>3. Len(Tail(s)) = n - 1 /\ \A i \in 1 .. n - 1 : Tail(s)[i] = s[i + 1]
  BY <1>1
<1>4. Len(s) = 1 => Tail(s) = <<>> /\ Head(s) = s[Len(s)]
  <2>1. n = 1 => Len(Tail(s)) = 0
    BY <1>3
  <2>2. Len(Tail(s)) = 0 => Tail(s) = <<>>
    BY <1>2, EmptySeq, Zenon
  <2>3. n = 1 => Head(s) = s[n]
    BY <1>2
  <2> QED BY <1>1, <2>1, <2>2, <2>3, Zenon
<1>5. n # 1 => n - 1 \in 1 .. n - 1 /\ (n - 1) + 1 = n /\ n - 1 # 0
  BY <1>2
<1>6. n # 1 => Tail(s)[n - 1] = s[n]
  BY <1>3, <1>5
<1>7. n # 1 => Tail(s) # <<>>
  BY <1>2, <1>3, <1>5
<1>8. Len(s) # 1 => Tail(s) # <<>> /\ Tail(s)[Len(Tail(s))] = s[Len(s)]
  BY <1>1, <1>3, <1>6, <1>7, Zenon
<1> QED BY <1>2, <1>4, <1>8, Zenon

LEMMA LandsSays ==
  ASSUME ExtensionTypeOK, Lands
  PROVE  writes' \in Seq(WriteRec) /\ stored' \in State /\ Said' = Said
<1>1. writes \in Seq(WriteRec) /\ writes # <<>> /\ stored' = Head(writes).state /\ writes' = Tail(writes)
  BY Types DEF Lands
<1>2. /\ Head(writes) \in WriteRec /\ Tail(writes) \in Seq(WriteRec)
      /\ Len(writes) = 1 => Tail(writes) = <<>> /\ Head(writes) = writes[Len(writes)]
      /\ Len(writes) # 1 => Tail(writes) # <<>> /\ Tail(writes)[Len(Tail(writes))] = writes[Len(writes)]
  BY <1>1, HeadAndTail
<1>3. Head(writes).state \in State
  BY <1>2 DEF WriteRec
<1>4. Latest = writes[Len(writes)].state
  BY <1>1 DEF Latest
<1>5. Latest' = Latest
  <2>1. CASE Len(writes) = 1
    BY <1>1, <1>2, <1>4, <2>1 DEF Latest
  <2>2. CASE Len(writes) # 1
    BY <1>1, <1>2, <1>4, <2>2 DEF Latest
  <2> QED BY <2>1, <2>2
<1> QED BY <1>1, <1>2, <1>3, <1>5 DEF Said

LEMMA SaidIsState == ExtensionTypeOK => Said \in State
<1> SUFFICES ASSUME ExtensionTypeOK PROVE Said \in State
  OBVIOUS
<1>1. writes # <<>> => writes[Len(writes)] \in WriteRec
  BY Types
<1> QED BY <1>1, Types DEF Said, Latest, WriteRec, StateOrNothing, State

LEMMA InitAll == Init => AllInv
<1> SUFFICES ASSUME Init PROVE AllInv
  OBVIOUS
<1>1. ExtensionTypeOK
  <2>1. [at |-> "idle", id |-> Nobody] \in ToggleRec
    BY DEF ToggleRec, Places, State
  <2>2. toggles \in [Toggle -> ToggleRec] /\ rec \in [Id -> RecStages]
        /\ stops \in [Id \cup {Nobody} -> StopStages]
    BY <2>1 DEF Init, RecStages, StopStages
  <2>3. writes \in Seq(WriteRec) /\ memory \in State /\ stored \in StateOrNothing
    BY DEF Init, State, StateOrNothing
  <2> QED BY <2>2, <2>3, Types DEF Init
<1>2. MemoryInv /\ AskedInv
  BY DEF Init, MemoryInv, AskedInv, Said, Latest
<1>3. StartInv /\ StopInv /\ RecorderInv
  BY DEF Init, StartInv, StopInv, RecorderInv, Starting, Ending, Alive
<1> QED BY <1>1, <1>2, <1>3 DEF AllInv, ControlInv

-----------------------------------------------------------------------------
(* What does not start or stop anything.                                   *)

Loud == {"minting", "ready", "asked", "told"}

\* An exchange that neither starts nor stops anything leaves control as it is.
LEMMA QuietStep ==
  ASSUME StartInv, StopInv, RecorderInv, UNCHANGED docVars, Said' = Said,
         \A u \in Toggle : toggles[u].at \in Loud \/ toggles'[u].at \in Loud => toggles'[u] = toggles[u],
         \A u \in Toggle : Starting(u) => memory' = Nobody
  PROVE  (StartInv /\ StopInv /\ RecorderInv)'
<1>1. \A u \in Toggle : /\ Starting(u)' <=> Starting(u)
                        /\ (toggles'[u].at = "told" <=> toggles[u].at = "told")
                        /\ (toggles'[u].at \in {"minting", "ready"} <=> toggles[u].at \in {"minting", "ready"})
  BY DEF Starting, Loud
<1>2. Ending' <=> Ending
  BY <1>1, DocStays DEF Ending
<1>3. \A r \in Id : Told(r)' <=> Told(r)
  BY DEF Told, Loud
<1>4. \A r \in Id : rec'[r] = rec[r]
  BY DocStays
<1>5. StartInv'
  BY <1>1, <1>2, <1>4 DEF StartInv
<1>6. StopInv'
  BY <1>2, <1>4, DocStays DEF StopInv, Alive
<1>7. RecorderInv'
  BY <1>3, <1>4, DocStays DEF RecorderInv, Alive
<1> QED BY <1>5, <1>6, <1>7

\* While an exchange is past the storage's answer, what the worker remembers is
\* what it said.
LEMMA AwakeRemembers ==
  ASSUME MemoryInv, NEW t \in Toggle, toggles[t].at \notin {"idle", "asking"}
  PROVE  memory = Said
BY DEF MemoryInv

-----------------------------------------------------------------------------
(* One lemma for each action: the worker.                                  *)

LEMMA StepGetState == ASSUME AllInv, NEW t \in Toggle, GetState(t) PROVE AllInv'
<1>1. /\ stored \in StateOrNothing /\ toggles \in [Toggle -> ToggleRec] /\ "asking" \in Places
      /\ toggles[t].at = "idle"
      /\ memory' = memory /\ stored' = stored /\ writes' = writes /\ badge' = badge /\ slips' = slips
  BY Types, WorkerStays DEF AllInv, GetState, Places
<1>2. /\ toggles' \in [Toggle -> ToggleRec] /\ toggles'[t].at = "asking" /\ toggles'[t].id = stored
      /\ \A u \in Toggle : u # t => toggles'[u] = toggles[u]
  BY <1>1, Sets DEF GetState, StateOrNothing
<1>3. ExtensionTypeOK'
  BY <1>1, <1>2, Types, TypesNext, DocStays DEF AllInv, GetState
<1>4. AskedInv'
  BY <1>2, AskedMoves DEF AllInv
<1>5. ASSUME Harmless' PROVE (MemoryInv /\ StartInv /\ StopInv /\ RecorderInv)'
  <2>1. MemoryInv /\ StartInv /\ StopInv /\ RecorderInv
    BY <1>1, <1>5 DEF AllInv, ControlInv, Harmless
  <2>2. Said' = Said
    BY <1>1, SaidStays
  <2>3. memory # Said /\ writes = <<>> => stored # Nothing \/ memory # Nobody
    BY DEF Said, Latest
  <2>4. MemoryInv'
    BY <1>1, <1>2, <2>1, <2>2, <2>3 DEF MemoryInv
  <2>5. \A u \in Toggle : toggles[u].at \in Loud \/ toggles'[u].at \in Loud => toggles'[u] = toggles[u]
    BY <1>1, <1>2 DEF Loud
  <2>6. \A u \in Toggle : Starting(u) => memory' = Nobody
    BY <1>1, <2>1 DEF StartInv
  <2> QED BY <2>1, <2>2, <2>4, <2>5, <2>6, QuietStep DEF GetState
<1>6. ControlInv'
  BY <1>5 DEF ControlInv
<1> QED BY <1>3, <1>4, <1>6 DEF AllInv

\* Without a slip the answer is what the worker has said.
LEMMA StepAnswered == ASSUME AllInv, NEW t \in Toggle, Answered(t) PROVE AllInv'
<1> DEFINE copy == toggles[t].id
           stale == copy \notin {Nothing, Said}
<1>1. PICK to \in {"idle", "start", "stop"} : Becomes(t, to)
  BY DEF Answered
<1>2. /\ toggles[t].at = "asking" /\ memory' = (IF copy = Nothing THEN memory ELSE copy)
      /\ stored' = stored /\ writes' = writes /\ badge' = badge
      /\ Slips(If("stale", stale)) /\ UNCHANGED docVars
  BY DEF Answered, copyVars
<1>3. /\ toggles \in [Toggle -> ToggleRec] /\ copy \in State \cup {Nothing} /\ memory' \in State
      /\ Nobody \in State
  BY <1>2, Types DEF AllInv, ToggleRec, State
<1>4. /\ toggles' \in [Toggle -> ToggleRec] /\ toggles'[t].at = to
      /\ \A u \in Toggle : u # t => toggles'[u] = toggles[u]
  <2>1. to \in Places
    BY DEF Places
  <2> QED BY <1>1, <1>3, <2>1, Sets DEF Becomes
<1>5. slips' \subseteq Slip /\ (Harmless' => Harmless /\ If("stale", stale) \subseteq slips')
  <2>1. If("stale", stale) \subseteq Slip
    BY DEF If, Slip
  <2> HIDE DEF stale
  <2> QED BY <1>2, <2>1, SlipsGrow, Types DEF AllInv
<1>6. ExtensionTypeOK'
  BY <1>2, <1>3, <1>4, <1>5, Types, TypesNext, DocStays DEF AllInv
<1>7. AskedInv'
  BY <1>4, AskedMoves DEF AllInv
<1>8. ASSUME Harmless' PROVE (MemoryInv /\ StartInv /\ StopInv /\ RecorderInv)'
  <2>1. MemoryInv /\ StartInv /\ StopInv /\ RecorderInv
    BY <1>5, <1>8 DEF AllInv, ControlInv
  <2>2. copy \in {Nothing, Said}
    <3>1. stale \in BOOLEAN
      OBVIOUS
    <3>2. ~stale
      <4> HIDE DEF stale
      <4> QED BY <1>5, <1>8, <3>1, NoSlip
    <3> QED BY <3>2
  <2>3. Said' = Said
    BY <1>2, SaidStays
  <2>4. memory' = Said
    BY <1>2, <2>1, <2>2 DEF MemoryInv
  <2>5. MemoryInv'
    BY <2>3, <2>4 DEF MemoryInv
  <2>6. \A u \in Toggle : toggles[u].at \in Loud \/ toggles'[u].at \in Loud => toggles'[u] = toggles[u]
    BY <1>2, <1>4 DEF Loud
  <2>7. \A u \in Toggle : Starting(u) => memory' = Nobody
    BY <2>1, <2>4, AwakeRemembers DEF StartInv, Starting
  <2> QED BY <1>2, <2>1, <2>3, <2>5, <2>6, <2>7, QuietStep
<1>9. ControlInv'
  BY <1>8 DEF ControlInv
<1> QED BY <1>6, <1>7, <1>9 DEF AllInv

\* An exchange past the answer that moves on without starting or stopping.
LEMMA StepMoves ==
  ASSUME AllInv, NEW t \in Toggle, NEW from \in {"start", "stop", "sent", "noted"},
         NEW to \in {"idle", "sent"}, Goes(t, from, to),
         UNCHANGED workerVars, UNCHANGED docVars, slips' \subseteq Slip, Harmless' => Harmless
  PROVE  AllInv'
<1>1. /\ toggles' \in [Toggle -> ToggleRec] /\ toggles[t].at = from /\ toggles'[t].at = to
      /\ \A u \in Toggle : u # t => toggles'[u] = toggles[u]
  <2>1. to \in Places
    BY DEF Places
  <2> QED BY <2>1, Moves, Types DEF AllInv
<1>2. ExtensionTypeOK'
  BY <1>1, Types, TypesNext, WorkerStays, DocStays DEF AllInv
<1>3. AskedInv'
  BY <1>1, AskedMoves DEF AllInv
<1>4. ASSUME Harmless' PROVE (MemoryInv /\ StartInv /\ StopInv /\ RecorderInv)'
  <2>1. MemoryInv /\ StartInv /\ StopInv /\ RecorderInv
    BY <1>4 DEF AllInv, ControlInv
  <2>2. Said' = Said /\ memory' = memory
    BY SaidStays, WorkerStays
  <2>3. MemoryInv'
    BY <1>1, <2>1, <2>2, AwakeRemembers DEF MemoryInv
  <2>4. \A u \in Toggle : toggles[u].at \in Loud \/ toggles'[u].at \in Loud => toggles'[u] = toggles[u]
    BY <1>1 DEF Loud
  <2>5. \A u \in Toggle : Starting(u) => memory' = Nobody
    BY <2>1, <2>2 DEF StartInv
  <2> QED BY <2>1, <2>2, <2>3, <2>4, <2>5, QuietStep
<1>5. ControlInv'
  BY <1>4 DEF ControlInv
<1> QED BY <1>2, <1>3, <1>5 DEF AllInv

LEMMA StepPopupCloses == ASSUME AllInv, NEW t \in Toggle, PopupCloses(t) PROVE AllInv'
<1>1. PICK from \in {"start", "stop"} : Goes(t, from, "idle")
  BY DEF PopupCloses
<1>2. slips' \subseteq Slip /\ (Harmless' => Harmless)
  BY Types DEF AllInv, PopupCloses, Harmless
<1> QED BY <1>1, <1>2, StepMoves DEF PopupCloses

LEMMA StepStopCapture == ASSUME AllInv, NEW t \in Toggle, StopCapture(t) PROVE AllInv'
<1>1. PICK to \in {"idle", "sent"} : Goes(t, "stop", to)
  BY DEF StopCapture
<1>2. slips' \subseteq Slip /\ (Harmless' => Harmless)
  BY Types DEF AllInv, StopCapture, Harmless
<1> QED BY <1>1, <1>2, StepMoves DEF StopCapture

LEMMA StepSetBadge == ASSUME AllInv, NEW t \in Toggle, SetBadge(t) PROVE AllInv'
<1>1. /\ toggles \in [Toggle -> ToggleRec] /\ "idle" \in Places /\ Nobody \in State
      /\ toggles[t].at = "noted" /\ toggles' = [toggles EXCEPT ![t] = [at |-> "idle", id |-> Nobody]]
      /\ memory' = memory /\ stored' = stored /\ writes' = writes /\ badge' \in BOOLEAN /\ slips' = slips
  BY Types DEF AllInv, SetBadge, Becomes, copyVars, Places, State
<1>2. /\ toggles' \in [Toggle -> ToggleRec] /\ toggles'[t].at = "idle"
      /\ \A u \in Toggle : u # t => toggles'[u] = toggles[u]
  BY <1>1, Sets
<1>3. ExtensionTypeOK'
  BY <1>1, <1>2, Types, TypesNext, DocStays DEF AllInv, SetBadge
<1>4. AskedInv'
  BY <1>2, AskedMoves DEF AllInv
<1>5. ASSUME Harmless' PROVE (MemoryInv /\ StartInv /\ StopInv /\ RecorderInv)'
  <2>1. MemoryInv /\ StartInv /\ StopInv /\ RecorderInv
    BY <1>1, <1>5 DEF AllInv, ControlInv, Harmless
  <2>2. Said' = Said
    BY <1>1, SaidStays
  <2>3. MemoryInv'
    BY <1>1, <2>1, <2>2, AwakeRemembers DEF MemoryInv
  <2>4. \A u \in Toggle : toggles[u].at \in Loud \/ toggles'[u].at \in Loud => toggles'[u] = toggles[u]
    BY <1>1, <1>2 DEF Loud
  <2>5. \A u \in Toggle : Starting(u) => memory' = Nobody
    BY <1>1, <2>1 DEF StartInv
  <2> QED BY <2>1, <2>2, <2>3, <2>4, <2>5, QuietStep DEF SetBadge
<1>6. ControlInv'
  BY <1>5 DEF ControlInv
<1> QED BY <1>3, <1>4, <1>6 DEF AllInv

LEMMA StepLands == AllInv /\ Lands => AllInv'
<1> SUFFICES ASSUME AllInv, Lands PROVE AllInv'
  OBVIOUS
<1>1. /\ writes' \in Seq(WriteRec) /\ stored' \in StateOrNothing /\ Said' = Said
      /\ memory' = memory /\ badge' = badge /\ slips' = slips /\ writes # <<>>
  BY LandsSays DEF AllInv, Lands, StateOrNothing
<1>2. /\ toggles' \in [Toggle -> ToggleRec]
      /\ \A u \in Toggle : \/ toggles'[u] = toggles[u]
                           \/ toggles[u].at = "noting" /\ toggles'[u].at = "noted"
  <2>1. "noted" \in Places
    BY DEF Places
  <2>2. toggles \in [Toggle -> ToggleRec]
    BY Types DEF AllInv
  <2>3. \A u \in Toggle : [toggles[u] EXCEPT !.at = "noted"] \in ToggleRec
    BY <2>1, <2>2 DEF ToggleRec
  <2>4. \A u \in Toggle : [toggles[u] EXCEPT !.at = "noted"].at = "noted"
    BY <2>2 DEF ToggleRec
  <2> QED BY <2>2, <2>3, <2>4 DEF Lands
<1>3. ExtensionTypeOK'
  BY <1>1, <1>2, Types, TypesNext, DocStays DEF AllInv, Lands
<1>4. AskedInv'
  BY <1>2 DEF AllInv, AskedInv, State, Id
<1>5. ASSUME Harmless' PROVE (MemoryInv /\ StartInv /\ StopInv /\ RecorderInv)'
  <2>1. MemoryInv /\ StartInv /\ StopInv /\ RecorderInv
    BY <1>1, <1>5 DEF AllInv, ControlInv, Harmless
  <2>2. MemoryInv'
    BY <1>1, <2>1 DEF MemoryInv
  <2>3. \A u \in Toggle : toggles[u].at \in Loud \/ toggles'[u].at \in Loud => toggles'[u] = toggles[u]
    BY <1>2 DEF Loud
  <2>4. \A u \in Toggle : Starting(u) => memory' = Nobody
    BY <1>1, <2>1 DEF StartInv
  <2> QED BY <1>1, <2>1, <2>2, <2>3, <2>4, QuietStep DEF Lands
<1>6. ControlInv'
  BY <1>5 DEF ControlInv
<1> QED BY <1>3, <1>4, <1>6 DEF AllInv

LEMMA StepProgress == AllInv /\ Progress => AllInv'
<1> SUFFICES ASSUME AllInv, Progress PROVE AllInv'
  OBVIOUS
<1> DEFINE woken == Said # Nobody /\ memory # Said
<1>1. /\ memory' = memory /\ stored' = stored /\ badge' = badge /\ toggles' = toggles
      /\ Persists(memory, Nobody) /\ Slips(If("woken", woken)) /\ UNCHANGED docVars
  BY DEF Progress
<1>2. slips' \subseteq Slip /\ (Harmless' => Harmless /\ If("woken", woken) \subseteq slips')
  <2>1. If("woken", woken) \subseteq Slip
    BY DEF If, Slip
  <2> HIDE DEF woken
  <2> QED BY <1>1, <2>1, SlipsGrow, Types DEF AllInv
<1>3. writes' \in Seq(WriteRec) /\ Said' = memory
  BY <1>1, PersistsSays, Types DEF AllInv
<1>4. ExtensionTypeOK'
  BY <1>1, <1>2, <1>3, Types, TypesNext, DocStays DEF AllInv
<1>5. AskedInv'
  BY <1>1 DEF AllInv, AskedInv, State, Id
<1>6. ASSUME Harmless' PROVE (MemoryInv /\ StartInv /\ StopInv /\ RecorderInv)'
  <2>1. MemoryInv /\ StartInv /\ StopInv /\ RecorderInv
    BY <1>2, <1>6 DEF AllInv, ControlInv
  <2>2. ~woken
    <3>1. woken \in BOOLEAN
      OBVIOUS
    <3> HIDE DEF woken
    <3> QED BY <1>2, <1>6, <3>1, NoSlip
  <2>3. memory = Said
    BY <2>1, <2>2 DEF MemoryInv
  <2>4. Said' = Said /\ MemoryInv'
    BY <1>1, <1>3, <2>3 DEF MemoryInv
  <2>5. \A u \in Toggle : toggles[u].at \in Loud \/ toggles'[u].at \in Loud => toggles'[u] = toggles[u]
    BY <1>1
  <2>6. \A u \in Toggle : Starting(u) => memory' = Nobody
    BY <1>1, <2>1 DEF StartInv
  <2> QED BY <1>1, <2>1, <2>4, <2>5, <2>6, QuietStep
<1>7. ControlInv'
  BY <1>6 DEF ControlInv
<1> QED BY <1>4, <1>5, <1>7 DEF AllInv

LEMMA StepSleep == AllInv /\ Sleep => AllInv'
<1> SUFFICES ASSUME AllInv, Sleep PROVE AllInv'
  OBVIOUS
<1>1. /\ memory' = Nobody /\ stored' = stored /\ writes' = writes /\ badge' = badge
      /\ toggles' = toggles /\ slips' = slips /\ UNCHANGED docVars
      /\ writes = <<>> /\ \A t \in Toggle : toggles[t].at = "idle"
  BY DEF Sleep, copyVars
<1>2. ExtensionTypeOK'
  BY <1>1, Types, TypesNext, DocStays DEF AllInv, State
<1>3. AskedInv'
  BY <1>1 DEF AllInv, AskedInv
<1>4. ASSUME Harmless' PROVE (MemoryInv /\ StartInv /\ StopInv /\ RecorderInv)'
  <2>1. MemoryInv /\ StartInv /\ StopInv /\ RecorderInv
    BY <1>1, <1>4 DEF AllInv, ControlInv, Harmless
  <2>2. Said' = Said
    BY <1>1, SaidStays
  <2>3. MemoryInv'
    BY <1>1 DEF MemoryInv
  <2>4. \A u \in Toggle : toggles[u].at \in Loud \/ toggles'[u].at \in Loud => toggles'[u] = toggles[u]
    BY <1>1
  <2>5. \A u \in Toggle : Starting(u) => memory' = Nobody
    BY <1>1
  <2> QED BY <1>1, <2>1, <2>2, <2>3, <2>4, <2>5, QuietStep
<1>5. ControlInv'
  BY <1>4 DEF ControlInv
<1> QED BY <1>2, <1>3, <1>5 DEF AllInv

\* One recorder lives at most, and none beside one that stops.
LEMMA OneAlive ==
  ASSUME ExtensionTypeOK, MemoryInv, StartInv, StopInv, RecorderInv
  PROVE  /\ \A q, r \in Id : Alive(q) /\ Alive(r) => q = r
         /\ \A q, r \in Id : Alive(q) => rec[r] # "stopping"
<1>1. ASSUME NEW q \in Id, NEW r \in Id, Told(q), Said = r PROVE FALSE
  <2>1. PICK t \in Toggle : toggles[t].at = "asked"
    BY <1>1 DEF Told
  <2>2. memory = Nobody /\ memory = Said
    BY <2>1, AwakeRemembers DEF StartInv, Starting
  <2> QED BY <1>1, <2>2, NumbersDiffer
<1>2. ASSUME NEW q \in Id, NEW r \in Id, Told(q), Told(r) PROVE q = r
  <2>1. PICK t \in Toggle : toggles[t].at = "asked" /\ toggles[t].id = q
    BY <1>2 DEF Told
  <2>2. PICK u \in Toggle : toggles[u].at = "asked" /\ toggles[u].id = r
    BY <1>2 DEF Told
  <2>3. t = u
    BY <2>1, <2>2 DEF StartInv, Starting
  <2> QED BY <2>1, <2>2, <2>3
<1>3. \A q, r \in Id : Alive(q) /\ Alive(r) => q = r
  BY <1>1, <1>2 DEF RecorderInv
<1>4. ASSUME NEW r \in Id, rec[r] = "stopping" PROVE Ending
  BY <1>4, Types DEF RecorderInv, Ending
<1> QED BY <1>3, <1>4 DEF StopInv

LEMMA StepStartCapture == ASSUME AllInv, NEW t \in Toggle, StartCapture(t) PROVE AllInv'
<1> DEFINE starts == memory = Nobody /\ \E u \in Toggle : Starting(u)
           kinds == If("starts", starts) \cup If("ending", Ending)
<1>1. kinds \subseteq Slip /\ starts \in BOOLEAN /\ Ending \in BOOLEAN
  BY DEF If, Slip, Ending
<1>2. Slips(kinds) /\ UNCHANGED workerVars /\ UNCHANGED docVars
  BY DEF StartCapture
<1>3. slips' \subseteq Slip /\ (Harmless' => Harmless /\ kinds \subseteq slips')
  <2> HIDE DEF kinds
  <2> QED BY <1>1, <1>2, SlipsGrow, Types DEF AllInv
<1>4. CASE memory # Nobody
  <2>1. Goes(t, "start", "idle")
    BY <1>4 DEF StartCapture
  <2> QED BY <1>2, <1>3, <2>1, StepMoves
<1>5. CASE memory = Nobody
  <2>1. /\ toggles' \in [Toggle -> ToggleRec] /\ toggles[t].at = "start" /\ toggles'[t].at = "minting"
        /\ \A u \in Toggle : u # t => toggles'[u] = toggles[u]
    <3>1. "minting" \in Places /\ Goes(t, "start", "minting")
      BY <1>5 DEF Places, StartCapture
    <3> QED BY <3>1, Moves, Types DEF AllInv
  <2>2. ExtensionTypeOK'
    BY <1>2, <1>3, <2>1, Types, TypesNext, WorkerStays, DocStays DEF AllInv
  <2>3. AskedInv'
    BY <2>1, AskedMoves DEF AllInv
  <2>4. ASSUME Harmless' PROVE (MemoryInv /\ StartInv /\ StopInv /\ RecorderInv)'
    <3>1. MemoryInv /\ StartInv /\ StopInv /\ RecorderInv
      BY <1>3, <2>4 DEF AllInv, ControlInv
    <3>2. ~starts /\ ~Ending
      <4> HIDE DEF starts
      <4>1. If("starts", starts) \subseteq slips' /\ If("ending", Ending) \subseteq slips'
        BY <1>3, <2>4
      <4> QED BY <4>1, <1>1, <2>4, NoSlip
    <3>3. \A u \in Toggle : ~Starting(u)
      BY <1>5, <3>2
    <3>4. memory = Said /\ Said' = Said /\ memory' = memory
      BY <1>2, <2>1, <3>1, AwakeRemembers, SaidStays, WorkerStays
    <3>5. \A r \in Id : rec[r] \notin Running
      <4>1. \A r \in Id : ~Told(r)
        BY <3>3 DEF Told, Starting
      <4>2. \A r \in Id : ~Alive(r)
        BY <1>5, <3>1, <3>4, <4>1, NumbersDiffer DEF RecorderInv
      <4>3. \A r \in Id : rec[r] # "stopping"
        BY <3>1, <3>2, Types DEF AllInv, RecorderInv, Ending
      <4> QED BY <4>2, <4>3 DEF Alive, Running
    <3>6. \A u \in Toggle : Starting(u)' => u = t
      BY <2>1, <3>3 DEF Starting
    <3>7. ~Ending' /\ rec' = rec
      BY <1>2, <2>1, <3>2, DocStays DEF Ending
    <3>8. StartInv'
      BY <1>5, <3>4, <3>5, <3>6, <3>7 DEF StartInv
    <3>9. StopInv'
      BY <1>2, <3>1, <3>7, DocStays DEF StopInv
    <3>10. RecorderInv'
      BY <1>2, <3>1, <3>5, <3>7, DocStays DEF RecorderInv, Alive, Running
    <3> QED BY <3>4, <3>8, <3>9, <3>10 DEF MemoryInv
  <2>5. ControlInv'
    BY <2>4 DEF ControlInv
  <2> QED BY <2>2, <2>3, <2>5 DEF AllInv
<1> QED BY <1>4, <1>5

LEMMA StepMinted == ASSUME AllInv, NEW t \in Toggle, Minted(t) PROVE AllInv'
<1>1. PICK to \in {"ready", "idle"} : Goes(t, "minting", to) /\ (doc' = doc \/ doc' = TRUE)
  BY DEF Minted
<1>2. /\ toggles' \in [Toggle -> ToggleRec] /\ toggles[t].at = "minting" /\ toggles'[t].at = to
      /\ \A u \in Toggle : u # t => toggles'[u] = toggles[u]
  <2>1. to \in Places
    BY DEF Places
  <2> QED BY <1>1, <2>1, Moves, Types DEF AllInv
<1>3. /\ memory' = memory /\ Said' = Said /\ held' = held /\ rec' = rec /\ stops' = stops /\ slips' = slips
      /\ stored' = stored /\ writes' = writes /\ badge' = badge
  BY WorkerStays, SaidStays DEF Minted
<1>4. ExtensionTypeOK'
  BY <1>1, <1>2, <1>3, Types, TypesNext DEF AllInv
<1>5. AskedInv'
  BY <1>2, AskedMoves DEF AllInv
<1>6. ASSUME Harmless' PROVE (MemoryInv /\ StartInv /\ StopInv /\ RecorderInv)'
  <2>1. MemoryInv /\ StartInv /\ StopInv /\ RecorderInv
    BY <1>3, <1>6 DEF AllInv, ControlInv, Harmless
  <2>2. memory' = Said'
    BY <1>2, <1>3, <2>1, AwakeRemembers
  <2>3. \A u \in Toggle : /\ Starting(u)' => Starting(u)
                          /\ (toggles'[u].at = "told" <=> toggles[u].at = "told")
                          /\ (toggles'[u].at \in {"minting", "ready"} => toggles[u].at \in {"minting", "ready"})
    BY <1>2 DEF Starting
  <2>4. Ending' <=> Ending
    BY <1>3, <2>3 DEF Ending
  <2>5. StartInv'
    BY <1>3, <2>1, <2>3, <2>4 DEF StartInv
  <2>6. StopInv'
    BY <1>3, <2>1, <2>4 DEF StopInv, Alive
  <2>7. \A r \in Id : Told(r) => Told(r)'
    BY <1>2 DEF Told
  <2>8. RecorderInv'
    BY <1>3, <2>1, <2>7 DEF RecorderInv, Alive
  <2> QED BY <2>2, <2>5, <2>6, <2>8 DEF MemoryInv
<1>7. ControlInv'
  BY <1>6 DEF ControlInv
<1> QED BY <1>4, <1>5, <1>7 DEF AllInv

\* The document opens the recorder r for the toggle t.
LEMMA StepAskOpens ==
  ASSUME AllInv, NEW t \in Toggle, Ask(t), NEW r \in Id,
         rec[r] = "none", toggles[t].at = "ready", rec' = [rec EXCEPT ![r] = "opening"],
         toggles' = [toggles EXCEPT ![t] = [at |-> "asked", id |-> r]]
  PROVE  AllInv'
<1>1. /\ toggles' \in [Toggle -> ToggleRec] /\ toggles'[t].at = "asked" /\ toggles'[t].id = r
      /\ \A u \in Toggle : u # t => toggles'[u] = toggles[u]
  <2>1. "asked" \in Places /\ r \in State \cup {Nothing}
    BY DEF Places, State
  <2> QED BY <2>1, Sets, Types DEF AllInv
<1>2. /\ rec' \in [Id -> RecStages] /\ rec'[r] = "opening"
      /\ \A q \in Id : q # r => rec'[q] = rec[q]
  BY Types DEF AllInv, RecStages, Running
<1>3. /\ memory' = memory /\ Said' = Said /\ held' = held /\ doc' = doc /\ stops' = stops /\ slips' = slips
      /\ stored' = stored /\ writes' = writes /\ badge' = badge
  BY WorkerStays, SaidStays DEF Ask
<1>4. ExtensionTypeOK'
  BY <1>1, <1>2, <1>3, Types, TypesNext DEF AllInv
<1>5. AskedInv'
  BY <1>1, AskedMoves DEF AllInv, State
<1>6. ASSUME Harmless' PROVE (MemoryInv /\ StartInv /\ StopInv /\ RecorderInv)'
  <2>1. MemoryInv /\ StartInv /\ StopInv /\ RecorderInv
    BY <1>3, <1>6 DEF AllInv, ControlInv, Harmless
  <2>2. /\ \A u \in Toggle : Starting(u) => u = t
        /\ memory = Nobody /\ ~Ending /\ \A q \in Id : rec[q] \notin Running
    BY <2>1 DEF StartInv, Starting
  <2>3. \A u \in Toggle : /\ Starting(u)' => u = t
                          /\ (toggles'[u].at = "told" <=> toggles[u].at = "told")
                          /\ toggles'[u].at \notin {"minting", "ready"}
    BY <1>1, <2>2 DEF Starting
  <2>4. ~Ending'
    BY <1>3, <2>2, <2>3 DEF Ending
  <2>5. MemoryInv'
    BY <1>3, <2>1, AwakeRemembers DEF MemoryInv
  <2>6. StartInv'
    BY <1>3, <2>2, <2>3, <2>4 DEF StartInv
  <2>7. StopInv'
    BY <1>3, <2>1, <2>4 DEF StopInv
  <2>8. Told(r)'
    BY <1>1 DEF Told
  <2>9. \A q \in Id : (Alive(q) => Told(q) \/ Said = q)'
    BY <1>2, <2>2, <2>8 DEF Alive, Running
  <2>10. \A q \in Id : (rec[q] \in {"starting", "recording", "stopping"} => held = q)'
    BY <1>2, <2>2 DEF Running
  <2>11. \A q \in Id : (rec[q] = "stopping" <=> stops[q] = "wait")'
    BY <1>2, <1>3, <2>2, Types DEF AllInv, Running, Ending
  <2>12. \A q \in Id : (rec[q] # "cut")'
    BY <1>2, <2>1 DEF RecorderInv
  <2> QED BY <2>5, <2>6, <2>7, <2>9, <2>10, <2>11, <2>12 DEF RecorderInv
<1>7. ControlInv'
  BY <1>6 DEF ControlInv
<1> QED BY <1>4, <1>5, <1>7 DEF AllInv

\* A start that has no document any more ends.
LEMMA StepAskLost ==
  ASSUME AllInv, NEW t \in Toggle, Ask(t), Goes(t, "ready", "idle"), UNCHANGED rec
  PROVE  AllInv'
<1>1. /\ toggles' \in [Toggle -> ToggleRec] /\ toggles[t].at = "ready" /\ toggles'[t].at = "idle"
      /\ \A u \in Toggle : u # t => toggles'[u] = toggles[u]
  <2>1. "idle" \in Places
    BY DEF Places
  <2> QED BY <2>1, Moves, Types DEF AllInv
<1>2. /\ memory' = memory /\ Said' = Said /\ held' = held /\ doc' = doc /\ stops' = stops /\ slips' = slips
      /\ rec' = rec /\ stored' = stored /\ writes' = writes /\ badge' = badge
  BY WorkerStays, SaidStays DEF Ask
<1>3. ExtensionTypeOK'
  BY <1>1, <1>2, Types, TypesNext DEF AllInv
<1>4. AskedInv'
  BY <1>1, AskedMoves DEF AllInv
<1>5. ASSUME Harmless' PROVE (MemoryInv /\ StartInv /\ StopInv /\ RecorderInv)'
  <2>1. MemoryInv /\ StartInv /\ StopInv /\ RecorderInv
    BY <1>2, <1>5 DEF AllInv, ControlInv, Harmless
  <2>2. \A u \in Toggle : /\ Starting(u)' => Starting(u)
                          /\ (toggles'[u].at = "told" <=> toggles[u].at = "told")
                          /\ (toggles'[u].at \in {"minting", "ready"} => toggles[u].at \in {"minting", "ready"})
    BY <1>1 DEF Starting
  <2>3. Ending' <=> Ending
    BY <1>2, <2>2 DEF Ending
  <2>4. MemoryInv'
    BY <1>1, <1>2, <2>1, AwakeRemembers DEF MemoryInv
  <2>5. StartInv'
    BY <1>2, <2>1, <2>2, <2>3 DEF StartInv
  <2>6. StopInv'
    BY <1>2, <2>1, <2>3 DEF StopInv, Alive
  <2>7. \A r \in Id : Told(r) => Told(r)'
    BY <1>1 DEF Told
  <2>8. RecorderInv'
    BY <1>2, <2>1, <2>7 DEF RecorderInv, Alive
  <2> QED BY <2>4, <2>5, <2>6, <2>8
<1>6. ControlInv'
  BY <1>5 DEF ControlInv
<1> QED BY <1>3, <1>4, <1>6 DEF AllInv

LEMMA StepAsk == ASSUME AllInv, NEW t \in Toggle, Ask(t) PROVE AllInv'
<1>1. CASE \E r \in Id : /\ rec[r] = "none" /\ toggles[t].at = "ready"
                         /\ rec' = [rec EXCEPT ![r] = "opening"]
                         /\ toggles' = [toggles EXCEPT ![t] = [at |-> "asked", id |-> r]]
  BY <1>1, StepAskOpens
<1>2. CASE Goes(t, "ready", "idle") /\ UNCHANGED rec
  BY <1>2, StepAskLost
<1> QED BY <1>1, <1>2 DEF Ask

\* A handler notes a state.
LEMMA NotesType ==
  ASSUME ExtensionTypeOK, NEW t \in Toggle, NEW state \in State, Notes(t, state), stored' = stored
  PROVE  /\ memory' = state /\ Said' = state /\ writes' \in Seq(WriteRec)
         /\ toggles' \in [Toggle -> ToggleRec] /\ toggles'[t].at = "noting"
         /\ \A u \in Toggle : u # t => toggles'[u] = toggles[u]
<1>1. writes' \in Seq(WriteRec) /\ Said' = state
  BY PersistsSays DEF Notes
<1>2. /\ toggles' \in [Toggle -> ToggleRec] /\ toggles'[t].at = "noting"
      /\ \A u \in Toggle : u # t => toggles'[u] = toggles[u]
  <2>1. "noting" \in Places
    BY DEF Places
  <2> QED BY <2>1, Sets, Types DEF Notes
<1> QED BY <1>1, <1>2 DEF Notes

LEMMA StepSetStarted == ASSUME AllInv, NEW t \in Toggle, SetStarted(t) PROVE AllInv'
<1> DEFINE id == toggles[t].id
<1>1. /\ toggles[t].at = "asked" /\ id \in State /\ Notes(t, id) /\ stored' = stored /\ badge' = badge
      /\ slips' = slips /\ UNCHANGED docVars
  BY DEF AllInv, AskedInv, SetStarted
<1>2. /\ memory' = id /\ Said' = id /\ writes' \in Seq(WriteRec)
      /\ toggles' \in [Toggle -> ToggleRec] /\ toggles'[t].at = "noting"
      /\ \A u \in Toggle : u # t => toggles'[u] = toggles[u]
  <2> HIDE DEF id
  <2> QED BY <1>1, NotesType DEF AllInv
<1>3. ExtensionTypeOK'
  BY <1>1, <1>2, Types, TypesNext, DocStays DEF AllInv
<1>4. AskedInv'
  BY <1>2, AskedMoves DEF AllInv
<1>5. ASSUME Harmless' PROVE (MemoryInv /\ StartInv /\ StopInv /\ RecorderInv)'
  <2>1. MemoryInv /\ StartInv /\ StopInv /\ RecorderInv
    BY <1>1, <1>5 DEF AllInv, ControlInv, Harmless
  <2>2. /\ \A u \in Toggle : Starting(u) => u = t
        /\ ~Ending /\ memory = Nobody /\ memory = Said
    BY <1>1, <2>1, AwakeRemembers DEF StartInv, Starting
  <2>3. \A u \in Toggle : ~Starting(u)' /\ toggles'[u].at # "told"
    BY <1>2, <2>2 DEF Starting, Ending
  <2>4. StartInv' /\ MemoryInv'
    BY <1>2, <2>3 DEF StartInv, Starting, MemoryInv
  <2>5. ~Ending'
    BY <1>1, <2>2, <2>3, DocStays DEF Ending
  <2>6. StopInv'
    BY <1>1, <2>1, <2>5, DocStays DEF StopInv
  <2>7. ASSUME NEW r \in Id, Alive(r) PROVE Said' = r
    <3>1. Told(r)
      BY <2>1, <2>2, <2>7, NumbersDiffer DEF RecorderInv
    <3>2. PICK u \in Toggle : toggles[u].at = "asked" /\ toggles[u].id = r
      BY <3>1 DEF Told
    <3>3. u = t
      BY <2>2, <3>2 DEF Starting
    <3> QED BY <1>2, <3>2, <3>3
  <2>8. RecorderInv'
    BY <1>1, <2>1, <2>7, DocStays DEF RecorderInv, Alive
  <2> QED BY <2>4, <2>6, <2>8
<1>6. ControlInv'
  BY <1>5 DEF ControlInv
<1> QED BY <1>3, <1>4, <1>6 DEF AllInv

LEMMA StepSetStopped == ASSUME AllInv, NEW t \in Toggle, SetStopped(t) PROVE AllInv'
<1>1. /\ toggles[t].at = "told" /\ Nobody \in State /\ Notes(t, Nobody) /\ stored' = stored /\ badge' = badge
      /\ slips' = slips /\ UNCHANGED docVars
  BY DEF AllInv, SetStopped, State
<1>2. /\ memory' = Nobody /\ Said' = Nobody /\ writes' \in Seq(WriteRec)
      /\ toggles' \in [Toggle -> ToggleRec] /\ toggles'[t].at = "noting"
      /\ \A u \in Toggle : u # t => toggles'[u] = toggles[u]
  BY <1>1, NotesType DEF AllInv
<1>3. ExtensionTypeOK'
  BY <1>1, <1>2, Types, TypesNext, DocStays DEF AllInv, State
<1>4. AskedInv'
  BY <1>2, AskedMoves DEF AllInv
<1>5. ASSUME Harmless' PROVE (MemoryInv /\ StartInv /\ StopInv /\ RecorderInv)'
  <2>1. MemoryInv /\ StartInv /\ StopInv /\ RecorderInv
    BY <1>1, <1>5 DEF AllInv, ControlInv, Harmless
  <2>2. Ending
    BY <1>1 DEF Ending
  <2>3. (\A u \in Toggle : ~Starting(u)) /\ \A r \in Id : ~Alive(r)
    BY <2>1, <2>2 DEF StartInv, StopInv
  <2>4. \A u \in Toggle : ~Starting(u)'
    BY <1>2, <2>3 DEF Starting
  <2>5. StartInv' /\ MemoryInv'
    BY <1>2, <2>4 DEF StartInv, Starting, MemoryInv
  <2>6. StopInv'
    BY <1>1, <2>1, <2>3, DocStays DEF StopInv, Alive
  <2>7. RecorderInv'
    BY <1>1, <2>1, <2>3, DocStays DEF RecorderInv, Alive
  <2> QED BY <2>5, <2>6, <2>7
<1>6. ControlInv'
  BY <1>5 DEF ControlInv
<1> QED BY <1>3, <1>4, <1>6 DEF AllInv

\* The stop that reaches the document: without a slip no other one is under
\* way, and what it finds is a recorder that records, or none.
LEMMA StepStopReaches ==
  ASSUME AllInv, NEW t \in Toggle, StopArrives(t), doc
  PROVE  AllInv'
<1> DEFINE young == \/ \E u \in Toggle : Starting(u)
                    \/ \E r \in Id : rec[r] \in {"opening", "starting"}
           kinds == If("ending", Ending) \cup If("early", young)
           found == held # Nobody /\ rec[held] = "recording"
<1>1. kinds \subseteq Slip /\ young \in BOOLEAN /\ Ending \in BOOLEAN
  BY DEF If, Slip, Ending
<1>2. Goes(t, "sent", "told") /\ OffscreenStops /\ Slips(kinds) /\ UNCHANGED workerVars /\ doc' = doc
  BY DEF StopArrives
<1>3. slips' \subseteq Slip /\ (Harmless' => Harmless /\ kinds \subseteq slips')
  <2> HIDE DEF kinds
  <2> QED BY <1>1, <1>2, SlipsGrow, Types DEF AllInv
<1>4. /\ toggles' \in [Toggle -> ToggleRec] /\ toggles[t].at = "sent" /\ toggles'[t].at = "told"
      /\ \A u \in Toggle : u # t => toggles'[u] = toggles[u]
  <2>1. "told" \in Places
    BY DEF Places
  <2> QED BY <1>2, <2>1, Moves, Types DEF AllInv
<1>5. /\ found => held \in Id /\ rec' = [rec EXCEPT ![held] = "stopping"]
                  /\ stops' = [stops EXCEPT ![held] = "wait"] /\ held' = held
      /\ ~found => stops' = [stops EXCEPT ![Nobody] = "close"] /\ held' = Nobody /\ rec' = rec
  BY <1>2, Types DEF AllInv, OffscreenStops
<1>6. ExtensionTypeOK'
  <2>1. rec' \in [Id -> RecStages] /\ held' \in Id \cup {Nobody}
        /\ stops' \in [Id \cup {Nobody} -> StopStages]
    BY <1>5, Types DEF AllInv, RecStages, Running, StopStages
  <2> QED BY <1>2, <1>3, <1>4, <2>1, Types, TypesNext, WorkerStays DEF AllInv
<1>7. AskedInv'
  BY <1>4, AskedMoves DEF AllInv
<1>8. ASSUME Harmless' PROVE (MemoryInv /\ StartInv /\ StopInv /\ RecorderInv)'
  <2>1. MemoryInv /\ StartInv /\ StopInv /\ RecorderInv
    BY <1>3, <1>8 DEF AllInv, ControlInv
  <2>2. ~young /\ ~Ending
    <3> HIDE DEF young
    <3>1. If("early", young) \subseteq slips' /\ If("ending", Ending) \subseteq slips'
      BY <1>3, <1>8
    <3> QED BY <3>1, <1>1, <1>8, NoSlip
  <2>3. /\ \A u \in Toggle : ~Starting(u)
        /\ \A r \in Id \cup {Nobody} : stops[r] = "none"
        /\ \A r \in Id : rec[r] # "stopping"
    BY <2>1, <2>2, Types DEF AllInv, RecorderInv, Ending
  <2>4. \A r \in Id : rec[r] \in {"opening", "starting", "recording"} => found /\ r = held
    BY <2>1, <2>2, NumbersDiffer DEF RecorderInv
  <2>5. \A r \in Id : /\ rec'[r] \notin {"opening", "starting", "recording", "cut"}
                      /\ rec'[r] = "stopping" <=> (found /\ r = held)
    BY <1>5, <2>1, <2>3, <2>4, Types DEF AllInv, RecorderInv
  <2>6. \A r \in Id \cup {Nobody} :
          stops'[r] = IF r = (IF found THEN held ELSE Nobody)
                      THEN (IF found THEN "wait" ELSE "close") ELSE "none"
    BY <1>5, <2>3, Types DEF AllInv
  <2>7. StartInv'
    BY <1>4, <2>3 DEF StartInv, Starting
  <2>8. DOMAIN stops' = Id \cup {Nobody}
    BY <1>6, TypesNext
  <2>9. StopInv'
    <3>1. \A r \in Id : ~Alive(r)'
      BY <2>5 DEF Alive
    <3>2. \A q, r \in DOMAIN stops' : stops'[q] # "none" /\ stops'[r] # "none" => q = r
      <4> HIDE DEF found
      <4> QED BY <2>6, <2>8
    <3> QED BY <3>1, <3>2 DEF StopInv
  <2>10. RecorderInv'
    <3>1. \A r \in Id : (rec[r] \in {"starting", "recording", "stopping"} => held = r)'
      BY <1>5, <2>5
    <3>2. \A r \in Id : (rec[r] = "stopping" <=> stops[r] = "wait")'
      BY <2>5, <2>6, NumbersDiffer
    <3> QED BY <2>5, <3>1, <3>2 DEF RecorderInv, Alive
  <2>11. MemoryInv'
    <3>1. memory = Said /\ memory' = memory /\ Said' = Said
      BY <1>2, <1>4, <2>1, AwakeRemembers, WorkerStays, SaidStays
    <3> QED BY <3>1 DEF MemoryInv
  <2> QED BY <2>7, <2>9, <2>10, <2>11
<1>9. ControlInv'
  BY <1>8 DEF ControlInv
<1> QED BY <1>6, <1>7, <1>9 DEF AllInv

LEMMA StepStopArrives == ASSUME AllInv, NEW t \in Toggle, StopArrives(t) PROVE AllInv'
<1>1. CASE doc
  BY <1>1, StepStopReaches
<1>2. CASE ~doc
  <2>1. Goes(t, "sent", "idle") /\ UNCHANGED docVars /\ slips' = slips
    BY <1>2 DEF StopArrives, docVars
  <2>2. slips' \subseteq Slip /\ (Harmless' => Harmless)
    BY <2>1, Types DEF AllInv, Harmless
  <2> QED BY <2>1, <2>2, StepMoves DEF StopArrives
<1> QED BY <1>1, <1>2

-----------------------------------------------------------------------------
(* One lemma for each action: the offscreen document.                      *)

\* What a step of the document leaves alone.
LEMMA WorkerWaits ==
  ASSUME UNCHANGED workerVars, UNCHANGED toggles
  PROVE  /\ memory' = memory /\ Said' = Said /\ (MemoryInv => MemoryInv') /\ (AskedInv => AskedInv')
         /\ \A t \in Toggle : (Starting(t)' <=> Starting(t)) /\ toggles'[t] = toggles[t]
         /\ \A r \in Id : Told(r)' <=> Told(r)
<1>1. memory' = memory /\ Said' = Said /\ writes' = writes
  BY WorkerStays, SaidStays
<1> QED BY <1>1 DEF MemoryInv, AskedInv, Starting, Told, State, Id

LEMMA StepOpens == ASSUME AllInv, NEW r \in Id, Opens(r) PROVE AllInv'
<1>1. /\ rec' \in [Id -> RecStages] /\ rec[r] = "opening" /\ rec'[r] = "starting"
      /\ \A q \in Id : q # r => rec'[q] = rec[q]
  BY Types DEF AllInv, Opens, RecStages, Running
<1>2. ExtensionTypeOK' /\ AskedInv'
  BY <1>1, Types, TypesNext, WorkerStays, WorkerWaits DEF AllInv, Opens
<1>3. ASSUME Harmless' PROVE (MemoryInv /\ StartInv /\ StopInv /\ RecorderInv)'
  <2>1. MemoryInv /\ StartInv /\ StopInv /\ RecorderInv
    BY <1>3 DEF AllInv, ControlInv, Harmless, Opens
  <2>2. Ending' <=> Ending
    BY DEF Ending, Opens
  <2>3. StartInv' /\ MemoryInv'
    BY <1>1, <2>1, <2>2, WorkerWaits DEF StartInv, Running, Opens
  <2>4. \A q \in Id : (Alive(q)' <=> Alive(q))
    BY <1>1 DEF Alive
  <2>5. StopInv'
    BY <2>1, <2>2, <2>4 DEF StopInv, Opens
  <2>6. \A q \in Id : rec[q] \in {"starting", "recording", "stopping"} => q = r
    BY <1>1, <2>1, OneAlive DEF AllInv, Alive
  <2>7. \A q \in Id : (rec[q] \in {"starting", "recording", "stopping"} => held = q)'
    BY <1>1, <2>6 DEF Opens
  <2>8. \A q \in Id : (Alive(q) => Told(q) \/ Said = q)'
    BY <2>1, <2>4, WorkerWaits DEF RecorderInv, Opens
  <2>9. RecorderInv'
    BY <1>1, <2>1, <2>7, <2>8 DEF RecorderInv, Opens
  <2> QED BY <2>3, <2>5, <2>9
<1>4. ControlInv'
  BY <1>3 DEF ControlInv
<1> QED BY <1>2, <1>4 DEF AllInv

LEMMA StepStarts == ASSUME AllInv, NEW r \in Id, Starts(r) PROVE AllInv'
<1>1. /\ rec' \in [Id -> RecStages] /\ rec[r] = "starting" /\ rec'[r] = "recording"
      /\ \A q \in Id : q # r => rec'[q] = rec[q]
  BY Types DEF AllInv, Starts, RecStages, Running
<1>2. ExtensionTypeOK' /\ AskedInv'
  BY <1>1, Types, TypesNext, WorkerStays, WorkerWaits DEF AllInv, Starts
<1>3. ASSUME Harmless' PROVE (MemoryInv /\ StartInv /\ StopInv /\ RecorderInv)'
  <2>1. MemoryInv /\ StartInv /\ StopInv /\ RecorderInv
    BY <1>3 DEF AllInv, ControlInv, Harmless, Starts
  <2>2. Ending' <=> Ending
    BY DEF Ending, Starts
  <2>3. StartInv' /\ MemoryInv'
    BY <1>1, <2>1, <2>2, WorkerWaits DEF StartInv, Running, Starts
  <2>4. \A q \in Id : (Alive(q)' <=> Alive(q))
    BY <1>1 DEF Alive
  <2>5. StopInv'
    BY <2>1, <2>2, <2>4 DEF StopInv, Starts
  <2>6. \A q \in Id : (Alive(q) => Told(q) \/ Said = q)'
    BY <2>1, <2>4, WorkerWaits DEF RecorderInv, Starts
  <2>7. RecorderInv'
    BY <1>1, <2>1, <2>6 DEF RecorderInv, Starts
  <2> QED BY <2>3, <2>5, <2>7
<1>4. ControlInv'
  BY <1>3 DEF ControlInv
<1> QED BY <1>2, <1>4 DEF AllInv

LEMMA StepFails == ASSUME AllInv, NEW r \in Id, Fails(r) PROVE AllInv'
<1>1. /\ rec' \in [Id -> RecStages] /\ rec[r] \in {"opening", "starting"} /\ rec'[r] = "failed"
      /\ \A q \in Id : q # r => rec'[q] = rec[q]
  BY Types DEF AllInv, Fails, RecStages
<1>2. slips' \subseteq Slip /\ (Harmless' => Harmless)
  BY SlipsGrow, Types DEF AllInv, Fails, Slip
<1>3. ExtensionTypeOK' /\ AskedInv'
  BY <1>1, <1>2, Types, TypesNext, WorkerStays, WorkerWaits DEF AllInv, Fails
<1>4. ASSUME Harmless' PROVE (MemoryInv /\ StartInv /\ StopInv /\ RecorderInv)'
  <2>1. MemoryInv /\ StartInv /\ StopInv /\ RecorderInv
    BY <1>2, <1>4 DEF AllInv, ControlInv
  <2>2. Ending' <=> Ending
    BY DEF Ending, Fails
  <2>3. StartInv' /\ MemoryInv'
    BY <1>1, <2>1, <2>2, WorkerWaits DEF StartInv, Running, Fails
  <2>4. \A q \in Id : (Alive(q)' => Alive(q))
    BY <1>1 DEF Alive
  <2>5. StopInv'
    BY <2>1, <2>2, <2>4 DEF StopInv, Fails
  <2>6. \A q \in Id : (Alive(q) => Told(q) \/ Said = q)'
    BY <2>1, <2>4, WorkerWaits DEF RecorderInv, Fails
  <2>7. RecorderInv'
    BY <1>1, <2>1, <2>6 DEF RecorderInv, Fails
  <2> QED BY <2>3, <2>5, <2>7
<1>5. ControlInv'
  BY <1>4 DEF ControlInv
<1> QED BY <1>3, <1>5 DEF AllInv

LEMMA StepSaved == ASSUME AllInv, NEW r \in Id, Saved(r) PROVE AllInv'
<1>1. /\ rec' \in [Id -> RecStages] /\ rec'[r] = "saved"
      /\ \A q \in Id : q # r => rec'[q] = rec[q]
  BY Types DEF AllInv, Saved, RecStages
<1>2. /\ stops' \in [Id \cup {Nobody} -> StopStages] /\ stops[r] = "wait" /\ stops'[r] = "close"
      /\ \A q \in Id \cup {Nobody} : q # r => stops'[q] = stops[q]
  BY Types DEF AllInv, Saved, StopStages
<1>3. ExtensionTypeOK' /\ AskedInv'
  BY <1>1, <1>2, Types, TypesNext, WorkerStays, WorkerWaits DEF AllInv, Saved
<1>4. ASSUME Harmless' PROVE (MemoryInv /\ StartInv /\ StopInv /\ RecorderInv)'
  <2>1. MemoryInv /\ StartInv /\ StopInv /\ RecorderInv
    BY <1>4 DEF AllInv, ControlInv, Harmless, Saved
  <2>2. Ending /\ Ending' /\ DOMAIN stops = Id \cup {Nobody} /\ DOMAIN stops' = Id \cup {Nobody}
    BY <1>2, Types DEF AllInv, Ending
  <2>3. \A q \in Id : ~Alive(q)
    BY <2>1, <2>2 DEF StopInv
  <2>4. \A q \in Id : rec[q] = "stopping" => q = r
    BY <1>2, <2>1, <2>2 DEF StopInv, RecorderInv
  <2>5. \A t \in Toggle : ~Starting(t)
    BY <2>1, <2>2 DEF StartInv
  <2>6. StartInv' /\ MemoryInv'
    BY <2>1, <2>5, WorkerWaits DEF StartInv, Starting, Saved
  <2>7. \A q \in Id : ~Alive(q)' /\ rec'[q] \notin {"stopping", "cut"}
    BY <1>1, <2>1, <2>3, <2>4 DEF Alive, RecorderInv
  <2>8. \A q \in Id \cup {Nobody} : stops'[q] # "none" => stops[q] # "none"
    BY <1>2
  <2>9. StopInv'
    BY <2>1, <2>2, <2>7, <2>8 DEF StopInv
  <2>10. \A q \in Id : stops'[q] # "wait"
    BY <1>2, <2>1, <2>2 DEF StopInv
  <2>11. \A q \in Id : rec'[q] \notin {"starting", "recording", "stopping"}
    BY <2>7 DEF Alive
  <2>12. RecorderInv'
    BY <2>7, <2>10, <2>11 DEF RecorderInv
  <2> QED BY <2>6, <2>9, <2>12
<1>5. ControlInv'
  BY <1>4 DEF ControlInv
<1> QED BY <1>3, <1>5 DEF AllInv

LEMMA StepCloseDocument == ASSUME AllInv, NEW r \in DOMAIN stops, CloseDocument(r) PROVE AllInv'
<1>1. rec' \in [Id -> RecStages] /\ stops' \in [Id \cup {Nobody} -> StopStages]
  BY Types DEF AllInv, CloseDocument, RecStages, StopStages
<1>2. ExtensionTypeOK' /\ AskedInv'
  BY <1>1, Types, TypesNext, WorkerStays, WorkerWaits DEF AllInv, CloseDocument
<1>3. ASSUME Harmless' PROVE (MemoryInv /\ StartInv /\ StopInv /\ RecorderInv)'
  <2>1. MemoryInv /\ StartInv /\ StopInv /\ RecorderInv
    BY <1>3 DEF AllInv, ControlInv, Harmless, CloseDocument
  <2>2. DOMAIN stops = Id \cup {Nobody} /\ stops[r] = "close" /\ Ending
    BY Types DEF AllInv, Ending, CloseDocument
  <2>3. (\A q \in Id : ~Alive(q)) /\ \A t \in Toggle : ~Starting(t)
    BY <2>1, <2>2 DEF StopInv, StartInv
  <2>4. \A q \in Id : rec[q] # "stopping"
    BY <2>1, <2>2 DEF StopInv, RecorderInv
  <2>5. \A q \in Id : rec'[q] = rec[q] /\ rec[q] \notin Running
    BY <2>3, <2>4 DEF Alive, Running, CloseDocument
  <2>6. \A q \in Id \cup {Nobody} : stops'[q] = "none"
    BY <2>2 DEF CloseDocument
  <2>7. StartInv' /\ MemoryInv'
    BY <2>1, <2>3, WorkerWaits DEF StartInv, Starting, CloseDocument
  <2>8. \A q, p \in DOMAIN stops' : stops'[q] # "none" /\ stops'[p] # "none" => q = p
    BY <1>1, <2>6
  <2>9. StopInv'
    BY <2>3, <2>5, <2>8 DEF StopInv, Alive
  <2>10. RecorderInv'
    BY <2>1, <2>5, <2>6 DEF RecorderInv, Alive, Running
  <2> QED BY <2>7, <2>9, <2>10
<1>4. ControlInv'
  BY <1>3 DEF ControlInv
<1> QED BY <1>2, <1>4 DEF AllInv

LEMMA StepStutters == AllInv /\ UNCHANGED vars => AllInv'
BY DEF AllInv, vars, workerVars, copyVars, docVars, ExtensionTypeOK, AskedInv, MemoryInv, ControlInv,
       Harmless, StartInv, StopInv, RecorderInv, Starting, Ending, Alive, Told, Said, Latest

LEMMA StepAll == AllInv /\ [Next]_vars => AllInv'
<1> SUFFICES ASSUME AllInv, [Next]_vars PROVE AllInv'
  OBVIOUS
<1>1. CASE Lands \/ Progress \/ Sleep
  BY <1>1, StepLands, StepProgress, StepSleep
<1>2. ASSUME NEW t \in Toggle,
             \/ GetState(t) \/ Answered(t) \/ PopupCloses(t) \/ StartCapture(t) \/ Minted(t) \/ Ask(t)
             \/ SetStarted(t) \/ StopCapture(t) \/ StopArrives(t) \/ SetStopped(t) \/ SetBadge(t)
      PROVE  AllInv'
  BY <1>2, StepGetState, StepAnswered, StepPopupCloses, StepStartCapture, StepMinted, StepAsk,
     StepSetStarted, StepStopCapture, StepStopArrives, StepSetStopped, StepSetBadge
<1>3. ASSUME NEW r \in Id, Opens(r) \/ Starts(r) \/ Fails(r) \/ Saved(r)
      PROVE  AllInv'
  BY <1>3, StepOpens, StepStarts, StepFails, StepSaved
<1>4. ASSUME NEW r \in DOMAIN stops, CloseDocument(r)
      PROVE  AllInv'
  BY <1>4, StepCloseDocument
<1>5. CASE UNCHANGED vars
  BY <1>5, StepStutters
<1> QED BY <1>1, <1>2, <1>3, <1>4, <1>5 DEF Next

-----------------------------------------------------------------------------
(* Theorems.                                                               *)

\* Until a harmful slip, the worker's memory, what it has noted, the exchanges
\* of the popup and the offscreen document keep what they know of each other
\* (background.ts, offscreen.ts, popup.ts).
THEOREM ExtensionInvHolds == Spec => []AllInv
BY InitAll, StepAll, PTL DEF Spec

\* Every variable of the extension keeps its type (background.ts,
\* offscreen.ts).
THEOREM ExtensionTypes == Spec => []ExtensionTypeOK
<1>1. AllInv => ExtensionTypeOK
  BY DEF AllInv
<1> QED BY <1>1, ExtensionInvHolds, PTL

\* What records is the recorder the document holds and the session the worker
\* has noted or is about to note, whatever exchanges, sleeps, restarts and
\* pending writes came before, unless one of the slips has happened
\* (background.ts state and persist, offscreen.ts recorder).
THEOREM RecordingStaysStoppable == Spec => []RecordingCanBeStopped
<1>1. ASSUME AllInv PROVE RecordingCanBeStopped
  BY <1>1 DEF AllInv, ControlInv, RecorderInv, Alive, RecordingCanBeStopped
<1> QED BY <1>1, ExtensionInvHolds, PTL

\* The offscreen document is never closed over a recorder that has not been
\* saved, unless one of the slips has happened (offscreen.ts stopRecording).
THEOREM StopWaitsForAudio == Spec => []NothingIsCut
<1>1. ASSUME AllInv PROVE NothingIsCut
  BY <1>1 DEF AllInv, ControlInv, RecorderInv, NothingIsCut
<1> QED BY <1>1, ExtensionInvHolds, PTL

=============================================================================
