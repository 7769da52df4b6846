------------------------ MODULE CaptureEngineProofs ------------------------
(***************************************************************************)
(* Machine-checked facts about CaptureEngine, for every set of channels    *)
(* and every number of samples.                                            *)
(***************************************************************************)
EXTENDS Recovery, TLAPS, SequenceTheorems, FiniteSetTheorems

LEMMA RequestFields ==
  ASSUME NEW r \in Request
  PROVE  /\ r.op \in {"read", "write"} => r.chunk \in Chunk
         /\ r.op = "write" => r.closed \in BOOLEAN
  BY DEF Request

LEMMA HeadOfQueue ==
  ASSUME TypeOK, manifestQ # <<>>
  PROVE  Head(manifestQ) \in Request /\ Tail(manifestQ) \in Seq(Request)
  BY HeadTailProperties DEF TypeOK

LEMMA FinalizeType ==
  ASSUME TypeOK, NEW c \in Channel, Finalize(c)
  PROVE  /\ held' \in [Channel -> SUBSET Nat]
         /\ parts' \in [Channel -> SUBSET Nat]
         /\ sequence' \in [Channel -> Nat]
         /\ writes' \subseteq Chunk
  BY DEF TypeOK, Finalize, Chunk

\* Type correctness: every reachable state has the shape the code's types
\* declare, and no request or chunk of another shape is ever queued.
THEOREM TypeCorrect == Spec => []TypeOK
<1>1. Init => TypeOK
  <2> SUFFICES ASSUME Init PROVE TypeOK
    OBVIOUS
  <2>1. manifestQ \in Seq(Request)
    BY EmptySeq DEF Init
  <2>2. /\ timers \in BOOLEAN /\ subscribed \in BOOLEAN /\ banner \in BOOLEAN
        /\ active \in [Channel -> BOOLEAN]
        /\ finalizing \in [Channel -> BOOLEAN]
        /\ track \in [Channel -> BOOLEAN]
    BY Zenon DEF Init
  <2> QED BY <2>1, <2>2 DEF Init, TypeOK
<1>2. TypeOK /\ [Next]_vars => TypeOK'
  <2> SUFFICES ASSUME TypeOK, [Next]_vars PROVE TypeOK'
    OBVIOUS
  <2> USE DEF engineVars, channelVars, requestVars, storeVars, outcomeVars
  <2>1. CASE Start
    <3>1. [op |-> "create"] \in Request
      BY DEF Request
    <3> QED BY <2>1, <3>1 DEF Start, TypeOK
  <2>2. CASE Pause
    BY <2>2 DEF Pause, TypeOK
  <2>3. CASE Resume
    BY <2>3 DEF Resume, TypeOK
  <2>4. CASE Stop
    BY <2>4 DEF Stop, StopChannels, StopRecorders, TypeOK
  <2>5. CASE StopWaited
    <3>1. [op |-> "closeRead"] \in Request
      BY DEF Request
    <3> QED BY <2>5, <3>1 DEF StopWaited, TypeOK
  <2>6. CASE Dispose
    BY <2>6 DEF Dispose, StopChannels, StopRecorders, TypeOK
  <2>7. CASE RotateAll
    BY <2>7 DEF RotateAll, StopRecorders, TypeOK
  <2>8. ASSUME NEW c \in Channel, Encode(c) PROVE TypeOK'
    BY <2>8 DEF Encode, TypeOK
  <2>9. ASSUME NEW c \in Channel, DataAvailable(c) PROVE TypeOK'
    BY <2>9 DEF DataAvailable, TypeOK
  <2>10. ASSUME NEW c \in Channel, TrackEnds(c) PROVE TypeOK'
    BY <2>10 DEF TrackEnds, StopRecorders, TypeOK
  <2>11. ASSUME NEW c \in Channel, HandleStop(c) PROVE TypeOK'
    BY <2>11, FinalizeType DEF HandleStop, TypeOK
  <2>12. ASSUME NEW ch \in writes, PutChunk(ch) PROVE TypeOK'
    <3>1. ch \in Chunk
      BY DEF TypeOK
    <3>2. [op |-> "read", chunk |-> ch] \in Request
      BY <3>1 DEF Request
    <3> QED BY <2>12, <3>1, <3>2 DEF PutChunk, TypeOK
  <2>13. ASSUME NEW ch \in writes, PutChunkFails(ch) PROVE TypeOK'
    BY <2>13 DEF PutChunkFails, Report, TypeOK
  <2>14. CASE CreateManifest
    <3>1. Tail(manifestQ) \in Seq(Request)
      BY <2>14, HeadOfQueue DEF CreateManifest
    <3>2. /\ engine' \in {"recording", "error"}
          /\ manifest' \in {"none", "open", "closed"}
          /\ mr' \in [Channel -> {"none", "recording", "paused", "stopping",
                                  "stopped"}]
      BY <2>14
         DEF CreateManifest, StartChannels, StartBreaks, Spawn, TypeOK
    <3>3. timers' \in BOOLEAN /\ active' \in [Channel -> BOOLEAN]
      <4>1. CASE StartChannels
        BY <4>1, Zenon DEF StartChannels
      <4>2. CASE StartBreaks
        BY <4>2 DEF StartBreaks, TypeOK
      <4>3. CASE timers' = timers /\ active' = active
        BY <4>3 DEF TypeOK
      <4>4. StartChannels \/ StartBreaks \/ (timers' = timers /\ active' = active)
        BY <2>14, Zenon DEF CreateManifest
      <4> QED BY <4>1, <4>2, <4>3, <4>4
    <3> QED BY <2>14, <3>1, <3>2, <3>3 DEF CreateManifest, TypeOK
  <2>15. CASE ReadManifest
    <3>1. /\ Head(manifestQ).chunk \in Chunk
          /\ Tail(manifestQ) \in Seq(Request)
      BY <2>15, HeadOfQueue, RequestFields DEF ReadManifest
    <3>2. [op |-> "write", chunk |-> Head(manifestQ).chunk,
           closed |-> manifest = "closed"] \in Request
      BY <3>1 DEF Request
    <3> QED BY <2>15, <3>1, <3>2 DEF ReadManifest, TypeOK
  <2>16. CASE WriteManifest
    <3>1. /\ Head(manifestQ).chunk \in Chunk
          /\ Tail(manifestQ) \in Seq(Request)
      BY <2>16, HeadOfQueue, RequestFields DEF WriteManifest
    <3> QED BY <2>16, <3>1 DEF WriteManifest, PutManifest, TypeOK
  <2>17. CASE RefreshFails
    <3>1. /\ Head(manifestQ).chunk \in Chunk
          /\ Tail(manifestQ) \in Seq(Request)
      BY <2>17, HeadOfQueue, RequestFields DEF RefreshFails
    <3> QED BY <2>17, <3>1 DEF RefreshFails, Report, TypeOK
  <2>18. CASE CloseRead
    <3>1. [op |-> "closeWrite"] \in Request
      BY DEF Request
    <3>2. Tail(manifestQ) \in Seq(Request)
      BY <2>18, HeadOfQueue DEF CloseRead
    <3>3. manifestQ' \in Seq(Request)
      BY <2>18, <3>1, <3>2 DEF CloseRead
    <3> QED BY <2>18, <3>3 DEF CloseRead, TypeOK
  <2>19. CASE CloseWrite
    BY <2>19, HeadOfQueue DEF CloseWrite, TypeOK
  <2>20. CASE CloseFails
    BY <2>20, HeadOfQueue DEF CloseFails, TypeOK
  <2>21. ASSUME NEW ch \in handed, Reclaim(ch) PROVE TypeOK'
    BY <2>21 DEF Reclaim, TypeOK
  <2>22. CASE Crash
    <3>1. \A c \in Channel : SamplesOf(writes, c) \in SUBSET Nat
      BY DEF SamplesOf, TypeOK, Chunk
    <3>2. lost' \in [Channel -> SUBSET Nat]
      BY <2>22, <3>1 DEF Crash, TypeOK
    <3>3. manifestQ' \in Seq(Request)
      BY <2>22, EmptySeq DEF Crash
    <3> QED BY <2>22, <3>2, <3>3 DEF Crash, TypeOK
  <2>23. CASE FindRecoverable
    BY <2>23 DEF FindRecoverable, TypeOK
  <2>24. CASE Discard
    BY <2>24 DEF Discard, TypeOK
  <2>25. CASE UNCHANGED vars
    BY <2>25 DEF vars, TypeOK
  <2> QED
    BY <2>1, <2>2, <2>3, <2>4, <2>5, <2>6, <2>7, <2>8, <2>9, <2>10, <2>11,
       <2>12, <2>13, <2>14, <2>15, <2>16, <2>17, <2>18, <2>19, <2>20, <2>21,
       <2>22, <2>23, <2>24, <2>25 DEF Next, ChunkRequest, ManifestRequest
<1> QED BY <1>1, <1>2, PTL DEF Spec

-----------------------------------------------------------------------------
(* The MediaRecorders and the rotation guard.                              *)

\* The rotation guard, the MediaRecorders and the buffers stay in step in
\* every reachable state.
THEOREM ChannelsInStep == Spec => []ChannelInv
<1>1. Init => ChannelInv
  BY DEF Init, ChannelInv, FinalizingEnds, StoppedChannelIsEmpty
<1>2. TypeOK /\ ChannelInv /\ [Next]_vars => ChannelInv'
  <2> SUFFICES ASSUME TypeOK, ChannelInv, [Next]_vars PROVE ChannelInv'
    OBVIOUS
  <2> USE DEF engineVars, channelVars, requestVars, storeVars, outcomeVars,
              ChannelInv, FinalizingEnds, StoppedChannelIsEmpty
  <2>1. CASE Start
    BY <2>1 DEF Start
  <2>2. CASE Pause
    BY <2>2 DEF Pause, TypeOK
  <2>3. CASE Resume
    BY <2>3 DEF Resume, TypeOK
  <2>4. CASE Stop
    BY <2>4 DEF Stop, StopChannels, StopRecorders, Running, TypeOK
  <2>5. CASE StopWaited
    BY <2>5 DEF StopWaited
  <2>6. CASE Dispose
    BY <2>6 DEF Dispose, StopChannels, StopRecorders, Running, TypeOK
  <2>7. CASE RotateAll
    BY <2>7 DEF RotateAll, CanRotate, StopRecorders, Running, TypeOK
  <2>8. ASSUME NEW c \in Channel, Encode(c) PROVE ChannelInv'
    BY <2>8 DEF Encode, TypeOK
  <2>9. ASSUME NEW c \in Channel, DataAvailable(c) PROVE ChannelInv'
    BY <2>9 DEF DataAvailable, Running, TypeOK
  <2>10. ASSUME NEW c \in Channel, TrackEnds(c) PROVE ChannelInv'
    BY <2>10 DEF TrackEnds, StopRecorders, TypeOK
  <2>11. ASSUME NEW c \in Channel, HandleStop(c) PROVE ChannelInv'
    BY <2>11 DEF HandleStop, Finalize, TypeOK
  <2>12. ASSUME NEW ch \in writes, PutChunk(ch) \/ PutChunkFails(ch)
         PROVE  ChannelInv'
    <3>1. engine # "crashed"
      OBVIOUS
    <3> QED BY <2>12, <3>1 DEF PutChunk, PutChunkFails
  <2>13. CASE CreateManifest
    BY <2>13, ZenonT(30) DEF CreateManifest, StartChannels, StartBreaks, Spawn, TypeOK
  <2>14. CASE ReadManifest \/ WriteManifest \/ RefreshFails
    BY <2>14 DEF ReadManifest, WriteManifest, RefreshFails
  <2>15. CASE CloseRead \/ CloseWrite \/ CloseFails
    BY <2>15 DEF CloseRead, CloseWrite, CloseFails
  <2>16. ASSUME NEW ch \in handed, Reclaim(ch) PROVE ChannelInv'
    BY <2>16 DEF Reclaim
  <2>17. CASE Crash
    BY <2>17 DEF Crash
  <2>18. CASE FindRecoverable \/ Discard
    BY <2>18 DEF FindRecoverable, Discard
  <2>19. CASE UNCHANGED vars
    BY <2>19 DEF vars
  <2> QED
    BY <2>1, <2>2, <2>3, <2>4, <2>5, <2>6, <2>7, <2>8, <2>9, <2>10, <2>11,
       <2>12, <2>13, <2>14, <2>15, <2>16, <2>17, <2>18, <2>19
       DEF Next, ChunkRequest, ManifestRequest
<1> QED BY <1>1, <1>2, TypeCorrect, PTL DEF Spec

-----------------------------------------------------------------------------
(* The order of the audio.                                                 *)

audioVars == <<captured, held, parts, sequence, lost>>

\* A step that moves chunks between the store and the other outcomes, or only
\* answers pending writes oldest first, keeps the order.
LEMMA OrderOfSettling ==
  ASSUME TypeOK, OrderInv,
         UNCHANGED audioVars,
         Finalized' = Finalized, writes' \subseteq writes,
         WritesComeLast',
         engine' = "crashed" <=> engine = "crashed",
         \/ (store \cup reclaimed)' \subseteq store \cup reclaimed
         \/ engine # "crashed"
  PROVE  OrderInv'
<1> USE DEF OrderInv, audioVars
<1>1. SamplesExist' /\ ChunksNumbered'
  BY DEF SamplesExist, ChunksNumbered
<1>2. ReassemblyInOrder'
  BY DEF ReassemblyInOrder
<1>3. MemoryDies'
  BY DEF MemoryDies, InMemoryEmpty
<1>4. CrashTakesTheTail'
  <2>1. CASE (store \cup reclaimed)' \subseteq store \cup reclaimed
    BY <2>1 DEF CrashTakesTheTail
  <2>2. CASE engine # "crashed"
    BY <2>2 DEF MemoryDies, CrashTakesTheTail
  <2> QED BY <2>1, <2>2
<1> QED BY <1>1, <1>2, <1>3, <1>4

\* A step that touches no audio at all.
LEMMA OrderOfStutter ==
  ASSUME TypeOK, OrderInv,
         UNCHANGED <<captured, held, parts, sequence, lost, writes, store,
                     reclaimed, dropped, discarded>>,
         engine' = "crashed" <=> engine = "crashed"
  PROVE  OrderInv'
<1>1. Finalized' = Finalized /\ WritesComeLast'
  BY DEF OrderInv, Finalized, Settled, WritesComeLast
<1> QED BY <1>1, OrderOfSettling DEF audioVars

\* Answering the oldest pending write of a channel, whatever the answer.
LEMMA OrderOfAnswer ==
  ASSUME TypeOK, OrderInv, NEW ch \in writes, NextWrite(ch),
         UNCHANGED audioVars, engine' = engine,
         writes' = writes \ {ch},
         Settled' = Settled \cup {ch}
  PROVE  OrderInv'
<1>1. Finalized' = Finalized /\ writes' \subseteq writes
  BY DEF Finalized
<1>2. WritesComeLast'
  <2> SUFFICES ASSUME NEW w \in writes', NEW a \in Settled', a.chan = w.chan
               PROVE  a.seq < w.seq
    BY DEF WritesComeLast
  <2>1. CASE a \in Settled
    BY <2>1 DEF OrderInv, WritesComeLast
  <2>2. CASE a = ch
    <3>1. a.seq <= w.seq
      BY <2>2 DEF NextWrite
    <3>2. a.seq # w.seq
      BY <2>2 DEF OrderInv, ReassemblyInOrder, Finalized
    <3>3. a.seq \in Nat /\ w.seq \in Nat
      BY <2>2 DEF TypeOK, Chunk
    <3> QED BY <3>1, <3>2, <3>3
  <2> QED BY <2>1, <2>2
<1>3. engine # "crashed"
  BY DEF OrderInv, MemoryDies, InMemoryEmpty
<1> QED BY <1>1, <1>2, <1>3, OrderOfSettling

LEMMA OrderOfEncode ==
  ASSUME TypeOK, OrderInv, NEW c \in Channel, Encode(c), engine # "crashed"
  PROVE  OrderInv'
<1> USE DEF Encode, OrderInv, engineVars, requestVars, storeVars, outcomeVars
<1>1. /\ Finalized' = Finalized /\ Settled' = Settled
      /\ UNCHANGED <<engine, writes, store, reclaimed, parts, sequence, lost>>
  BY DEF Finalized, Settled
<1>2. captured[c] \in Nat /\ captured' = [captured EXCEPT ![c] = captured[c] + 1]
  BY DEF TypeOK
<1>3. held' = [held EXCEPT ![c] = held[c] \cup {captured[c] + 1}]
  OBVIOUS
<1>4. \A a \in Finalized : a.chan \in Channel
  BY DEF Finalized, Settled, TypeOK, Chunk
<1>5. \A d \in Channel : captured[d] \in Nat /\ 1..captured[d] \subseteq 1..captured'[d]
  BY <1>2 DEF TypeOK
<1>6. SamplesExist'
  <2>1. \A d \in Channel : held'[d] \cup parts'[d] \subseteq 1..captured'[d]
    BY <1>1, <1>2, <1>3, <1>5 DEF SamplesExist, TypeOK
  <2>2. \A a \in Finalized' : a.parts \subseteq 1..captured'[a.chan]
    BY <1>1, <1>4, <1>5 DEF SamplesExist
  <2> QED BY <2>1, <2>2 DEF SamplesExist
<1>7. ChunksNumbered' /\ WritesComeLast'
  BY <1>1 DEF ChunksNumbered, WritesComeLast
<1>8. MemoryDies'
  BY <1>1 DEF MemoryDies
<1>9. ReassemblyInOrder'
  <2>1. \A a \in Finalized', m \in Nat, n \in Nat :
          m \in a.parts /\ n \in (parts'[a.chan] \cup held'[a.chan]) => m < n
    BY <1>1, <1>2, <1>3, <1>4 DEF SamplesExist, ReassemblyInOrder, TypeOK
  <2>2. \A d \in Channel : \A m \in parts'[d], n \in held'[d] : m < n
    BY <1>1, <1>2, <1>3 DEF SamplesExist, ReassemblyInOrder, TypeOK
  <2>3. /\ \A a \in Finalized : a.parts \subseteq Nat
        /\ \A d \in Channel : parts'[d] \cup held'[d] \subseteq Nat
    BY <1>1, <1>2, <1>3 DEF Finalized, Settled, TypeOK, Chunk
  <2> QED BY <1>1, <1>4, <2>1, <2>2, <2>3 DEF ReassemblyInOrder
<1>10. CrashTakesTheTail'
  BY <1>1 DEF MemoryDies, CrashTakesTheTail
<1> QED BY <1>6, <1>7, <1>8, <1>9, <1>10

LEMMA OrderOfDelivery ==
  ASSUME TypeOK, OrderInv, NEW c \in Channel, DataAvailable(c),
         engine # "crashed"
  PROVE  OrderInv'
<1> USE DEF DataAvailable, OrderInv, engineVars, requestVars, storeVars,
            outcomeVars
<1>1. /\ Finalized' = Finalized /\ Settled' = Settled
      /\ UNCHANGED <<engine, writes, store, reclaimed, captured, sequence, lost>>
  BY DEF Finalized, Settled
<1>2. /\ parts' = [parts EXCEPT ![c] = parts[c] \cup held[c]]
      /\ held' = [held EXCEPT ![c] = {}]
  OBVIOUS
<1>3. \A d \in Channel : /\ parts'[d] \cup held'[d] = parts[d] \cup held[d]
                         /\ held'[d] = {} \/ (held'[d] = held[d] /\ parts'[d] = parts[d])
  BY <1>2 DEF TypeOK
<1>4. \A a \in Finalized : a.chan \in Channel
  BY DEF Finalized, Settled, TypeOK, Chunk
<1>5. SamplesExist' /\ ChunksNumbered' /\ WritesComeLast' /\ MemoryDies'
  BY <1>1, <1>3 DEF SamplesExist, ChunksNumbered, WritesComeLast, MemoryDies
<1>6. ReassemblyInOrder'
  BY <1>1, <1>3, <1>4 DEF ReassemblyInOrder
<1>7. CrashTakesTheTail'
  BY <1>1 DEF CrashTakesTheTail
<1> QED BY <1>5, <1>6, <1>7

\* The stop event turns the buffer into a chunk that comes after every chunk
\* before it.
LEMMA OrderOfStopEvent ==
  ASSUME TypeOK, OrderInv, NEW c \in Channel, HandleStop(c),
         engine # "crashed"
  PROVE  OrderInv'
<1> DEFINE full == parts[c] \cup held[c]
           new == [chan |-> c, seq |-> sequence[c], parts |-> full]
<1> USE DEF OrderInv
<1>1. /\ UNCHANGED <<engine, captured, store, reclaimed, dropped, discarded, lost>>
      /\ Settled' = Settled
  BY DEF HandleStop, Settled, engineVars, storeVars, outcomeVars
<1>2. /\ parts' = [parts EXCEPT ![c] = {}]
      /\ held' = [held EXCEPT ![c] = {}]
      /\ \/ full = {} /\ UNCHANGED <<writes, sequence>>
         \/ /\ full # {}
            /\ writes' = writes \cup {new}
            /\ sequence' = [sequence EXCEPT ![c] = sequence[c] + 1]
  BY DEF HandleStop, Finalize
<1>3. \A d \in Channel : /\ parts'[d] = IF d = c THEN {} ELSE parts[d]
                         /\ held'[d] = IF d = c THEN {} ELSE held[d]
  BY <1>2 DEF TypeOK
<1>4. \A a \in Finalized : a.chan \in Channel /\ a.seq \in Nat
  BY DEF Finalized, Settled, TypeOK, Chunk
<1>5. MemoryDies' /\ CrashTakesTheTail'
  BY <1>1 DEF MemoryDies, CrashTakesTheTail
<1>6. CASE full = {}
  <2>1. UNCHANGED <<writes, sequence>> /\ Finalized' = Finalized
    BY <1>1, <1>2, <1>6 DEF Finalized
  <2>2. SamplesExist' /\ ChunksNumbered' /\ WritesComeLast'
    BY <1>1, <1>3, <2>1 DEF SamplesExist, ChunksNumbered, WritesComeLast
  <2>3. ReassemblyInOrder'
    BY <1>3, <1>4, <2>1 DEF ReassemblyInOrder
  <2> QED BY <1>5, <2>2, <2>3
<1>7. CASE full # {}
  <2>1. /\ writes' = writes \cup {new}
        /\ sequence' = [sequence EXCEPT ![c] = sequence[c] + 1]
        /\ Finalized' = Finalized \cup {new}
    BY <1>1, <1>2, <1>7 DEF Finalized
  <2>2. new.chan = c /\ new.seq = sequence[c] /\ new.parts = full
    OBVIOUS
  <2>3. /\ \A a \in Finalized : a.chan = c => a.seq < new.seq
        /\ \A a \in Finalized : a.chan = c =>
             \A m \in a.parts, n \in new.parts : m < n
    BY <2>2 DEF ChunksNumbered, ReassemblyInOrder
  <2>4. sequence[c] \in Nat /\ \A d \in Channel :
          sequence'[d] = IF d = c THEN sequence[c] + 1 ELSE sequence[d]
    BY <2>1 DEF TypeOK
  <2>5. SamplesExist'
    BY <1>1, <1>3, <2>1, <2>2 DEF SamplesExist
  <2>6. ChunksNumbered'
    <3>1. \A a \in Finalized : a.parts # {} /\ a.seq < sequence'[a.chan]
      <4> SUFFICES ASSUME NEW a \in Finalized
                   PROVE  a.parts # {} /\ a.seq < sequence'[a.chan]
        OBVIOUS
      <4>1. a.parts # {} /\ a.seq < sequence[a.chan]
        BY DEF ChunksNumbered
      <4>2. a.seq \in Nat /\ a.chan \in Channel
        BY <1>4
      <4> QED BY <2>4, <4>1, <4>2
    <3>2. new.parts # {} /\ new.seq < sequence'[new.chan]
      BY <1>7, <2>2, <2>4
    <3> QED BY <2>1, <3>1, <3>2 DEF ChunksNumbered
  <2>7. WritesComeLast'
    <3>1. \A a \in Settled : a.chan = new.chan => a.seq < new.seq
      BY <2>2, <2>3 DEF Finalized
    <3> QED BY <1>1, <2>1, <3>1 DEF WritesComeLast
  <2>8. ReassemblyInOrder'
    <3>1. \A a, b \in Finalized' : a.chan = b.chan =>
            /\ a.seq = b.seq => a = b
            /\ a.seq < b.seq => \A m \in a.parts, n \in b.parts : m < n
      <4> SUFFICES ASSUME NEW a \in Finalized', NEW b \in Finalized',
                          a.chan = b.chan
                   PROVE  /\ a.seq = b.seq => a = b
                          /\ a.seq < b.seq =>
                               \A m \in a.parts, n \in b.parts : m < n
        OBVIOUS
      <4>1. CASE a \in Finalized /\ b \in Finalized
        BY <4>1 DEF ReassemblyInOrder
      <4>2. CASE a \in Finalized /\ b = new
        BY <4>2, <1>4, <2>2, <2>3, <2>4
      <4>3. CASE a = new /\ b \in Finalized
        BY <4>3, <1>4, <2>2, <2>3, <2>4
      <4>4. CASE a = new /\ b = new
        BY <4>4, <2>2, <2>4
      <4> QED BY <2>1, <4>1, <4>2, <4>3, <4>4
    <3>2. \A a \in Finalized' :
            \A m \in a.parts, n \in parts'[a.chan] \cup held'[a.chan] : m < n
      BY <1>3, <1>4, <2>1, <2>2 DEF ReassemblyInOrder
    <3>3. \A d \in Channel : \A m \in parts'[d], n \in held'[d] : m < n
      BY <1>3 DEF ReassemblyInOrder
    <3> QED BY <3>1, <3>2, <3>3 DEF ReassemblyInOrder
  <2> QED BY <1>5, <2>5, <2>6, <2>7, <2>8
<1> QED BY <1>6, <1>7

LEMMA OrderOfCrash ==
  ASSUME TypeOK, OrderInv, Crash
  PROVE  OrderInv'
<1> USE DEF Crash, OrderInv, storeVars
<1>1. /\ writes' = {} /\ Settled' = Settled /\ Finalized' = Settled
      /\ UNCHANGED <<captured, sequence, store, reclaimed>>
  BY DEF Settled, Finalized
<1>2. \A c \in Channel : held'[c] = {} /\ parts'[c] = {}
  OBVIOUS
<1>3. \A a \in Settled : a \in Finalized /\ a.chan \in Channel
  BY DEF Finalized, Settled, TypeOK, Chunk
<1>4. SamplesExist' /\ ChunksNumbered' /\ WritesComeLast'
  BY <1>1, <1>2, <1>3 DEF SamplesExist, ChunksNumbered, WritesComeLast
<1>5. MemoryDies'
  BY <1>1, <1>2 DEF MemoryDies, InMemoryEmpty
<1>6. ReassemblyInOrder'
  BY <1>1, <1>2, <1>3 DEF ReassemblyInOrder
<1>7. CrashTakesTheTail'
  <2> SUFFICES ASSUME NEW c \in Channel, NEW n \in lost'[c],
                      NEW ch \in store \cup reclaimed, ch.chan = c,
                      NEW m \in ch.parts
               PROVE  m < n
    BY <1>1 DEF CrashTakesTheTail
  <2>1. ch \in Settled /\ ch \in Finalized
    BY DEF Finalized, Settled
  <2>2. n \in held[c] \/ n \in parts[c] \/ n \in SamplesOf(writes, c)
    OBVIOUS
  <2>3. CASE n \in held[c] \/ n \in parts[c]
    BY <2>1, <2>3 DEF ReassemblyInOrder
  <2>4. CASE n \in SamplesOf(writes, c)
    <3>1. PICK w \in writes : w.chan = c /\ n \in w.parts
      BY <2>4 DEF SamplesOf
    <3>2. ch.seq < w.seq /\ w \in Finalized
      BY <2>1, <3>1 DEF WritesComeLast, Finalized
    <3> QED BY <2>1, <3>1, <3>2 DEF ReassemblyInOrder
  <2> QED BY <2>2, <2>3, <2>4
<1> QED BY <1>4, <1>5, <1>6, <1>7

\* The order of the audio survives every interleaving of rotations, pauses,
\* track ends, stops, slow and failing writes, reclaims, discards and a crash.
THEOREM OrderHolds == Spec => []OrderInv
<1>1. Init => OrderInv
  BY DEF Init, OrderInv, SamplesExist, ChunksNumbered, WritesComeLast,
         MemoryDies, ReassemblyInOrder, CrashTakesTheTail, Finalized, Settled
<1>2. TypeOK /\ OrderInv /\ ChannelInv /\ [Next]_vars => OrderInv'
  <2> SUFFICES ASSUME TypeOK, OrderInv, ChannelInv, [Next]_vars
               PROVE  OrderInv'
    OBVIOUS
  <2> USE DEF engineVars, channelVars, requestVars, storeVars, outcomeVars
  <2>1. ASSUME NEW c \in Channel, mr[c] # "none" PROVE engine # "crashed"
    BY <2>1 DEF ChannelInv
  <2>2. CASE Start \/ Pause \/ Resume
    BY <2>2, OrderOfStutter DEF Start, Pause, Resume
  <2>3. CASE Stop \/ StopWaited \/ Dispose
    BY <2>3, OrderOfStutter DEF Stop, StopWaited, Dispose
  <2>4. CASE RotateAll
    BY <2>4, OrderOfStutter DEF RotateAll
  <2>5. ASSUME NEW c \in Channel, Encode(c) PROVE OrderInv'
    BY <2>1, <2>5, OrderOfEncode DEF Encode
  <2>6. ASSUME NEW c \in Channel, DataAvailable(c) PROVE OrderInv'
    BY <2>1, <2>6, OrderOfDelivery DEF DataAvailable, Running
  <2>7. ASSUME NEW c \in Channel, TrackEnds(c) PROVE OrderInv'
    BY <2>7, OrderOfStutter DEF TrackEnds
  <2>8. ASSUME NEW c \in Channel, HandleStop(c) PROVE OrderInv'
    BY <2>1, <2>8, OrderOfStopEvent DEF HandleStop
  <2>9. ASSUME NEW ch \in writes, PutChunk(ch) PROVE OrderInv'
    <3>1. \A x \in store : ~SameKey(x, ch)
      BY DEF OrderInv, WritesComeLast, Settled, SameKey, TypeOK, Chunk
    <3>2. Settled' = Settled \cup {ch}
      BY <2>9, <3>1 DEF PutChunk, Settled
    <3> QED BY <2>9, <3>2, OrderOfAnswer DEF PutChunk, audioVars
  <2>10. ASSUME NEW ch \in writes, PutChunkFails(ch) PROVE OrderInv'
    <3>1. Settled' = Settled \cup {ch}
      BY <2>10 DEF PutChunkFails, Settled
    <3> QED BY <2>10, <3>1, OrderOfAnswer DEF PutChunkFails, audioVars
  <2>11. CASE CreateManifest
    BY <2>11, OrderOfStutter DEF CreateManifest, StartChannels, StartBreaks
  <2>12. CASE ReadManifest \/ WriteManifest \/ RefreshFails
    BY <2>12, OrderOfStutter DEF ReadManifest, WriteManifest, RefreshFails
  <2>13. CASE CloseRead \/ CloseWrite \/ CloseFails
    BY <2>13, OrderOfStutter DEF CloseRead, CloseWrite, CloseFails, ChannelInv
  <2>14. ASSUME NEW ch \in handed, Reclaim(ch) PROVE OrderInv'
    <3>1. Settled' = Settled
      BY <2>14 DEF Reclaim, Settled
    <3>2. Finalized' = Finalized /\ WritesComeLast'
      BY <2>14, <3>1 DEF Reclaim, Finalized, OrderInv, WritesComeLast
    <3>3. (store \cup reclaimed)' \subseteq store \cup reclaimed
      BY <2>14 DEF Reclaim
    <3> QED BY <2>14, <3>2, <3>3, OrderOfSettling DEF Reclaim, audioVars
  <2>15. CASE Crash
    BY <2>15, OrderOfCrash
  <2>16. CASE FindRecoverable
    BY <2>16, OrderOfStutter DEF FindRecoverable
  <2>17. CASE Discard
    <3>1. Settled' = Settled
      BY <2>17 DEF Discard, Settled
    <3>2. Finalized' = Finalized /\ WritesComeLast'
      BY <2>17, <3>1 DEF Discard, Finalized, OrderInv, WritesComeLast
    <3>3. (store \cup reclaimed)' \subseteq store \cup reclaimed
      BY <2>17 DEF Discard
    <3> QED BY <2>17, <3>2, <3>3, OrderOfSettling DEF Discard, audioVars
  <2>18. CASE UNCHANGED vars
    BY <2>18, OrderOfStutter DEF vars
  <2> QED
    BY <2>2, <2>3, <2>4, <2>5, <2>6, <2>7, <2>8, <2>9, <2>10, <2>11, <2>12,
       <2>13, <2>14, <2>15, <2>16, <2>17, <2>18
       DEF Next, ChunkRequest, ManifestRequest
<1> QED BY <1>1, <1>2, TypeCorrect, ChannelsInStep, PTL DEF Spec

\* Reassembling a channel's chunks by sequence number plays its audio in order
\* and plays nothing twice.
THEOREM ReassemblyIsInOrder == Spec => []ReassemblyInOrder
BY OrderHolds, PTL DEF OrderInv

\* A crash takes the newest audio of each channel and nothing older.
THEOREM CrashTakesOnlyTheTail == Spec => []CrashTakesTheTail
BY OrderHolds, PTL DEF OrderInv

\* A rotation in progress always has its stop event to come.
THEOREM RotationEnds == Spec => []FinalizingEnds
BY ChannelsInStep, PTL DEF ChannelInv

\* A MediaRecorder that has stopped leaves no audio behind in memory.
THEOREM StoppedIsEmpty == Spec => []StoppedChannelIsEmpty
BY ChannelsInStep, PTL DEF ChannelInv

-----------------------------------------------------------------------------
(* No audio vanishes.                                                      *)

\* A step that encodes nothing, and lets no sample leave the places it can be
\* in, keeps the account.
LEMMA AccountOfMoves ==
  ASSUME AudioAccounted, captured' = captured,
         \A c \in Channel, n \in Nat :
           \/ InMemory(c, n) \/ InChunks(Settled, c, n) \/ n \in lost[c]
           => InMemory(c, n)' \/ InChunks(Settled, c, n)' \/ n \in lost'[c],
         TypeOK
  PROVE  AudioAccounted'
BY DEF AudioAccounted, TypeOK

LEMMA AccountOfStutter ==
  ASSUME TypeOK, AudioAccounted,
         UNCHANGED <<captured, held, parts, lost, writes, store, reclaimed,
                     dropped, discarded>>
  PROVE  AudioAccounted'
BY AccountOfMoves DEF InMemory, InChunks, Settled

LEMMA AccountOfSettling ==
  ASSUME TypeOK, AudioAccounted,
         UNCHANGED <<captured, held, parts, lost>>,
         writes \cup Settled \subseteq writes' \cup Settled'
  PROVE  AudioAccounted'
<1>1. \A c \in Channel, n \in Nat :
        InChunks(writes, c, n) \/ InChunks(Settled, c, n)
          => InChunks(writes, c, n)' \/ InChunks(Settled, c, n)'
  BY DEF InChunks
<1> QED BY <1>1, AccountOfMoves DEF InMemory

LEMMA AccountOfStopEvent ==
  ASSUME TypeOK, AudioAccounted, NEW c \in Channel, HandleStop(c)
  PROVE  AudioAccounted'
<1> DEFINE full == parts[c] \cup held[c]
           new == [chan |-> c, seq |-> sequence[c], parts |-> full]
<1>1. /\ UNCHANGED <<captured, lost>>
      /\ Settled' = Settled
  BY DEF HandleStop, Settled, storeVars, outcomeVars
<1>2. /\ writes \subseteq writes'
      /\ full # {} => new \in writes'
  BY DEF HandleStop, Finalize
<1>3. \A d \in Channel : d # c => parts'[d] = parts[d] /\ held'[d] = held[d]
  BY DEF HandleStop, Finalize, TypeOK
<1>4. new.chan = c /\ new.parts = full
  OBVIOUS
<1>5. \A n \in Nat : n \in full => InChunks(writes', c, n)
  BY <1>2, <1>4 DEF InChunks
<1>6. \A d \in Channel, n \in Nat :
        InChunks(writes, d, n) => InChunks(writes', d, n)
  BY <1>2 DEF InChunks
<1>7. ASSUME NEW d \in Channel, NEW n \in Nat,
             InMemory(d, n) \/ InChunks(Settled, d, n) \/ n \in lost[d]
      PROVE  InMemory(d, n)' \/ InChunks(Settled, d, n)' \/ n \in lost'[d]
  <2>1. CASE d = c
    BY <2>1, <1>1, <1>5, <1>6, <1>7 DEF InMemory, InChunks
  <2>2. CASE d # c
    BY <2>2, <1>1, <1>3, <1>6, <1>7 DEF InMemory, InChunks
  <2> QED BY <2>1, <2>2
<1> QED BY <1>1, <1>7, AccountOfMoves

LEMMA AccountOfCrash ==
  ASSUME TypeOK, OrderInv, AudioAccounted, Crash
  PROVE  AudioAccounted'
<1>1. captured' = captured /\ Settled' = Settled
  BY DEF Crash, Settled, storeVars
<1>2. \A c \in Channel : lost[c] = {}
  BY DEF Crash, Alive, OrderInv, MemoryDies
<1>3. \A c \in Channel, n \in Nat : InMemory(c, n) => n \in lost'[c]
  BY DEF Crash, InMemory, InChunks, SamplesOf
<1> QED BY <1>1, <1>2, <1>3, AccountOfMoves DEF InChunks

\* Every encoded sample is in memory, durable, in a failed write, discarded
\* by the user, or was in memory when the page died.
THEOREM NoAudioVanishes == Spec => []AudioAccounted
<1>1. Init => AudioAccounted
  BY DEF Init, AudioAccounted
<1>2. TypeOK /\ OrderInv /\ AudioAccounted /\ [Next]_vars => AudioAccounted'
  <2> SUFFICES ASSUME TypeOK, OrderInv, AudioAccounted, [Next]_vars
               PROVE  AudioAccounted'
    OBVIOUS
  <2> USE DEF engineVars, channelVars, requestVars, storeVars, outcomeVars
  <2>1. CASE Start \/ Pause \/ Resume \/ Stop \/ StopWaited \/ Dispose
    BY <2>1, AccountOfStutter
       DEF Start, Pause, Resume, Stop, StopWaited, Dispose
  <2>2. CASE RotateAll
    BY <2>2, AccountOfStutter DEF RotateAll
  <2>3. ASSUME NEW c \in Channel, Encode(c) PROVE AudioAccounted'
    <3>1. captured[c] \in Nat /\ captured'[c] = captured[c] + 1
      BY <2>3 DEF Encode, TypeOK
    <3>2. captured[c] + 1 \in held'[c]
      BY <2>3 DEF Encode, TypeOK
    <3>3. \A d \in Channel : /\ held[d] \subseteq held'[d]
                             /\ d # c => captured'[d] = captured[d]
      BY <2>3 DEF Encode, TypeOK
    <3>4. UNCHANGED <<parts, lost, writes, Settled>>
      BY <2>3 DEF Encode, Settled
    <3> SUFFICES ASSUME NEW d \in Channel, NEW n \in 1..captured'[d]
                 PROVE  \/ InMemory(d, n)' \/ InChunks(Settled, d, n)'
                        \/ n \in lost'[d]
      BY DEF AudioAccounted
    <3>5. CASE d = c /\ n = captured[c] + 1
      BY <3>2, <3>5 DEF InMemory
    <3>6. CASE n \in 1..captured[d]
      <4>1. InMemory(d, n) \/ InChunks(Settled, d, n) \/ n \in lost[d]
        BY <3>6 DEF AudioAccounted
      <4> QED BY <4>1, <3>3, <3>4 DEF InMemory, InChunks
    <3> QED BY <3>1, <3>3, <3>5, <3>6
  <2>4. ASSUME NEW c \in Channel, DataAvailable(c) PROVE AudioAccounted'
    <3>1. \A d \in Channel : held'[d] \cup parts'[d] = held[d] \cup parts[d]
      BY <2>4 DEF DataAvailable, TypeOK
    <3>2. UNCHANGED <<captured, lost, writes, Settled>>
      BY <2>4 DEF DataAvailable, Settled
    <3> QED BY <3>1, <3>2, AccountOfMoves DEF InMemory, InChunks
  <2>5. ASSUME NEW c \in Channel, TrackEnds(c) PROVE AudioAccounted'
    BY <2>5, AccountOfStutter DEF TrackEnds
  <2>6. ASSUME NEW c \in Channel, HandleStop(c) PROVE AudioAccounted'
    BY <2>6, AccountOfStopEvent
  <2>7. ASSUME NEW ch \in writes, PutChunk(ch) PROVE AudioAccounted'
    <3>1. \A x \in store : ~SameKey(x, ch)
      BY DEF OrderInv, WritesComeLast, Settled, SameKey, TypeOK, Chunk
    <3>2. writes \cup Settled \subseteq writes' \cup Settled'
      BY <2>7, <3>1 DEF PutChunk, Settled
    <3> QED BY <2>7, <3>2, AccountOfSettling DEF PutChunk
  <2>8. ASSUME NEW ch \in writes, PutChunkFails(ch) PROVE AudioAccounted'
    <3>1. writes \cup Settled \subseteq writes' \cup Settled'
      BY <2>8 DEF PutChunkFails, Settled
    <3> QED BY <2>8, <3>1, AccountOfSettling DEF PutChunkFails
  <2>9. CASE CreateManifest
    BY <2>9, AccountOfStutter DEF CreateManifest
  <2>10. CASE ReadManifest \/ WriteManifest \/ RefreshFails
    BY <2>10, AccountOfStutter DEF ReadManifest, WriteManifest, RefreshFails
  <2>11. CASE CloseRead \/ CloseWrite \/ CloseFails
    BY <2>11, AccountOfStutter DEF CloseRead, CloseWrite, CloseFails
  <2>12. ASSUME NEW ch \in handed, Reclaim(ch) PROVE AudioAccounted'
    <3>1. writes \cup Settled \subseteq writes' \cup Settled'
      BY <2>12 DEF Reclaim, Settled
    <3> QED BY <2>12, <3>1, AccountOfSettling DEF Reclaim
  <2>13. CASE Crash
    BY <2>13, AccountOfCrash
  <2>14. CASE FindRecoverable
    BY <2>14, AccountOfStutter DEF FindRecoverable
  <2>15. CASE Discard
    <3>1. writes \cup Settled \subseteq writes' \cup Settled'
      BY <2>15 DEF Discard, Settled
    <3> QED BY <2>15, <3>1, AccountOfSettling DEF Discard
  <2>16. CASE UNCHANGED vars
    BY <2>16, AccountOfStutter DEF vars
  <2> QED
    BY <2>1, <2>2, <2>3, <2>4, <2>5, <2>6, <2>7, <2>8, <2>9, <2>10, <2>11,
       <2>12, <2>13, <2>14, <2>15, <2>16
       DEF Next, ChunkRequest, ManifestRequest
<1> QED BY <1>1, <1>2, TypeCorrect, OrderHolds, PTL DEF Spec

-----------------------------------------------------------------------------
(* Durable before upload.                                                  *)

LEMMA DurableTail ==
  ASSUME NEW q \in Seq(Request), NEW K, q # <<>>, DurableOnly(q, K)
  PROVE  /\ DurableOnly(Tail(q), K)
         /\ Head(q).op \in {"read", "write"} => Head(q).chunk \in K
<1>1. /\ Len(Tail(q)) = Len(q) - 1 /\ Len(q) \in Nat /\ Len(q) >= 1
      /\ \A i \in 1..Len(Tail(q)) : Tail(q)[i] = q[i+1]
      /\ Head(q) = q[1]
  BY HeadTailProperties, EmptySeq
<1>2. \A i \in 1..Len(Tail(q)) : i + 1 \in 1..Len(q)
  BY <1>1
<1> QED BY <1>1, <1>2 DEF DurableOnly

LEMMA DurableAppend ==
  ASSUME NEW q \in Seq(Request), NEW r \in Request, NEW K, DurableOnly(q, K),
         r.op \in {"read", "write"} => r.chunk \in K
  PROVE  DurableOnly(Append(q, r), K)
<1>1. /\ Len(Append(q, r)) = Len(q) + 1 /\ Len(q) \in Nat
      /\ \A i \in 1..Len(q) : Append(q, r)[i] = q[i]
      /\ Append(q, r)[Len(q) + 1] = r
  BY AppendProperties
<1>2. \A i \in 1..(Len(q) + 1) : i \in 1..Len(q) \/ i = Len(q) + 1
  BY <1>1
<1> QED BY <1>1, <1>2 DEF DurableOnly

LEMMA DurableGrows ==
  ASSUME NEW q \in Seq(Request), NEW K, NEW L, DurableOnly(q, K), K \subseteq L
  PROVE  DurableOnly(q, L)
BY DEF DurableOnly

\* What is durable stays so: no step but a reclaim or a discard removes a
\* chunk from the store.
LEMMA KeptGrows ==
  ASSUME TypeOK, OrderInv, [Next]_vars
  PROVE  store \subseteq store' \cup reclaimed' \cup discarded' /\ Kept \subseteq Kept'
<1> USE DEF engineVars, channelVars, requestVars, storeVars, outcomeVars, Kept
<1>1. CASE \/ Start \/ Pause \/ Resume \/ Stop \/ StopWaited \/ Dispose
           \/ RotateAll \/ Crash \/ FindRecoverable \/ Discard
  BY <1>1 DEF Start, Pause, Resume, Stop, StopWaited, Dispose, RotateAll, Crash,
              FindRecoverable, Discard
<1>2. ASSUME NEW c \in Channel,
             Encode(c) \/ DataAvailable(c) \/ TrackEnds(c) \/ HandleStop(c)
      PROVE  UNCHANGED <<store, reclaimed, discarded>>
  BY <1>2 DEF Encode, DataAvailable, TrackEnds, HandleStop
<1>3. ASSUME NEW ch \in writes, PutChunk(ch)
      PROVE  store \subseteq store' /\ UNCHANGED <<reclaimed, discarded>>
  <2>1. \A x \in store : ~SameKey(x, ch)
    BY DEF OrderInv, WritesComeLast, Settled, SameKey, TypeOK, Chunk
  <2> QED BY <1>3, <2>1 DEF PutChunk
<1>4. ASSUME NEW ch \in writes, PutChunkFails(ch)
      PROVE  UNCHANGED <<store, reclaimed, discarded>>
  BY <1>4 DEF PutChunkFails
<1>5. CASE ManifestRequest
  BY <1>5 DEF ManifestRequest, CreateManifest, ReadManifest, WriteManifest,
              RefreshFails, CloseRead, CloseWrite, CloseFails
<1>6. ASSUME NEW ch \in handed, Reclaim(ch)
      PROVE  /\ store \subseteq store' \cup reclaimed'
             /\ reclaimed \subseteq reclaimed' /\ discarded' = discarded
  BY <1>6 DEF Reclaim
<1>7. CASE UNCHANGED vars
  BY <1>7 DEF vars
<1> QED BY <1>1, <1>2, <1>3, <1>4, <1>5, <1>6, <1>7 DEF Next, ChunkRequest

\* Durable audio is never overwritten or dropped.
THEOREM DurableAudioIsKept == Spec => DurableIsKept
<1>1. TypeOK /\ OrderInv /\ [Next]_vars
        => [store \subseteq store' \cup reclaimed' \cup discarded']_vars
  BY KeptGrows
<1> QED BY <1>1, TypeCorrect, OrderHolds, PTL DEF Spec, DurableIsKept

\* The manifest is refreshed, and a chunk handed over, only for durable chunks.
THEOREM HandOverHolds == Spec => []HandOverInv
<1>1. Init => HandOverInv
  BY EmptySeq DEF Init, HandOverInv, DurableOnly
<1>2. TypeOK /\ OrderInv /\ HandOverInv /\ [Next]_vars => HandOverInv'
  <2> SUFFICES ASSUME TypeOK, OrderInv, HandOverInv, [Next]_vars
               PROVE  HandOverInv'
    OBVIOUS
  <2> USE DEF engineVars, channelVars, requestVars, storeVars, outcomeVars
  <2>1. /\ Kept \subseteq Kept' /\ manifestQ \in Seq(Request)
        /\ handed \subseteq Kept' /\ DurableOnly(manifestQ, Kept')
    BY KeptGrows, DurableGrows DEF HandOverInv, TypeOK
  <2>2. CASE manifestQ' = manifestQ /\ handed' = handed
    BY <2>1, <2>2 DEF HandOverInv
  <2>3. ASSUME NEW r \in Request, manifestQ' = Append(manifestQ, r),
               r.op \in {"read", "write"} => r.chunk \in Kept',
               handed' = handed
        PROVE  HandOverInv'
    BY <2>1, <2>3, DurableAppend DEF HandOverInv
  <2>4. CASE manifestQ # <<>> /\ manifestQ' = Tail(manifestQ)
             /\ handed' \subseteq Kept'
    BY <2>1, <2>4, DurableTail DEF HandOverInv
  <2>5. CASE Start
    <3>1. [op |-> "create"] \in Request
      BY DEF Request
    <3> QED BY <2>3, <2>5, <3>1 DEF Start
  <2>6. CASE StopWaited
    <3>1. [op |-> "closeRead"] \in Request
      BY DEF Request
    <3> QED BY <2>3, <2>6, <3>1 DEF StopWaited
  <2>7. CASE Pause \/ Resume \/ Stop \/ Dispose \/ RotateAll \/ FindRecoverable
             \/ Discard
    BY <2>2, <2>7 DEF Pause, Resume, Stop, Dispose, RotateAll, FindRecoverable,
                      Discard
  <2>8. ASSUME NEW c \in Channel,
               Encode(c) \/ DataAvailable(c) \/ TrackEnds(c) \/ HandleStop(c)
        PROVE  HandOverInv'
    BY <2>2, <2>8 DEF Encode, DataAvailable, TrackEnds, HandleStop
  <2>9. ASSUME NEW ch \in writes, PutChunk(ch) PROVE HandOverInv'
    <3>1. ch \in Chunk /\ ch \in Kept'
      BY <2>9 DEF PutChunk, TypeOK, Kept
    <3> DEFINE r == [op |-> "read", chunk |-> ch]
    <3>2. r \in Request /\ r.chunk = ch
      BY <3>1 DEF Request
    <3>3. manifestQ' = Append(manifestQ, r) /\ handed' = handed
      BY <2>9 DEF PutChunk
    <3> QED BY <2>3, <3>1, <3>2, <3>3
  <2>10. ASSUME NEW ch \in writes, PutChunkFails(ch) PROVE HandOverInv'
    BY <2>2, <2>10 DEF PutChunkFails
  <2>11. CASE CreateManifest \/ RefreshFails \/ CloseWrite \/ CloseFails
    BY <2>1, <2>4, <2>11
       DEF CreateManifest, RefreshFails, CloseWrite, CloseFails
  <2>12. CASE WriteManifest
    <3>1. Head(manifestQ).chunk \in Kept'
      BY <2>1, <2>12, DurableTail DEF WriteManifest
    <3> QED BY <2>1, <2>4, <2>12, <3>1 DEF WriteManifest
  <2>13. CASE ReadManifest
    <3> DEFINE r == [op |-> "write", chunk |-> Head(manifestQ).chunk,
                     closed |-> manifest = "closed"]
    <3>1. /\ Head(manifestQ).chunk \in Chunk /\ Head(manifestQ).chunk \in Kept'
          /\ Tail(manifestQ) \in Seq(Request)
          /\ DurableOnly(Tail(manifestQ), Kept')
      BY <2>1, <2>13, HeadOfQueue, RequestFields, DurableTail DEF ReadManifest
    <3>2. r \in Request /\ r.chunk = Head(manifestQ).chunk
      BY <3>1 DEF Request
    <3>3. manifestQ' = Append(Tail(manifestQ), r) /\ handed' = handed
      BY <2>13 DEF ReadManifest
    <3>4. DurableOnly(manifestQ', Kept')
      BY <3>1, <3>2, <3>3, DurableAppend
    <3> QED BY <2>1, <3>3, <3>4 DEF HandOverInv
  <2>14. CASE CloseRead
    <3> DEFINE r == [op |-> "closeWrite"]
    <3>1. /\ Tail(manifestQ) \in Seq(Request)
          /\ DurableOnly(Tail(manifestQ), Kept') /\ handed' = handed
      BY <2>1, <2>14, HeadOfQueue, DurableTail DEF CloseRead
    <3>2. r \in Request /\ r.op = "closeWrite"
      BY DEF Request
    <3>3. manifestQ' = Append(Tail(manifestQ), r) \/ manifestQ' = Tail(manifestQ)
      BY <2>14 DEF CloseRead
    <3>4. DurableOnly(manifestQ', Kept')
      BY <3>1, <3>2, <3>3, DurableAppend
    <3> QED BY <2>1, <3>1, <3>4 DEF HandOverInv
  <2>15. ASSUME NEW ch \in handed, Reclaim(ch) PROVE HandOverInv'
    BY <2>2, <2>15 DEF Reclaim
  <2>16. CASE Crash
    BY <2>1, <2>16, EmptySeq DEF Crash, HandOverInv, DurableOnly
  <2>17. CASE UNCHANGED vars
    BY <2>2, <2>17 DEF vars
  <2> QED
    BY <2>5, <2>6, <2>7, <2>8, <2>9, <2>10, <2>11, <2>12, <2>13, <2>14, <2>15,
       <2>16, <2>17 DEF Next, ChunkRequest, ManifestRequest
<1> QED BY <1>1, <1>2, TypeCorrect, OrderHolds, PTL DEF Spec

\* A chunk handed to the uploader was durable first.
THEOREM DurableBeforeUpload == Spec => []HandedOverIsDurable
<1>1. HandOverInv => HandedOverIsDurable
  BY DEF HandOverInv, HandedOverIsDurable, Kept
<1> QED BY <1>1, HandOverHolds, PTL

-----------------------------------------------------------------------------
(* The engine implements DurableAudio.                                     *)

LEMMA SamplesOfPlus ==
  ASSUME NEW S, NEW ch, NEW c
  PROVE  SamplesOf(S \cup {ch}, c) =
           SamplesOf(S, c) \cup (IF ch.chan = c THEN ch.parts ELSE {})
BY DEF SamplesOf

\* One more chunk adds its samples to its channel.
LEMMA SamplesByChannel ==
  ASSUME NEW S, NEW T, NEW ch, T = S \cup {ch}, ch.chan \in Channel
  PROVE  [c \in Channel |-> SamplesOf(T, c)] =
           [[c \in Channel |-> SamplesOf(S, c)] EXCEPT
              ![ch.chan] = SamplesOf(S, ch.chan) \cup ch.parts]
<1>1. \A c \in Channel : SamplesOf(T, c) =
        SamplesOf(S, c) \cup (IF ch.chan = c THEN ch.parts ELSE {})
  BY SamplesOfPlus
<1>2. SamplesOf(T, ch.chan) = SamplesOf(S, ch.chan) \cup ch.parts
  BY <1>1
<1>3. \A c \in Channel : c # ch.chan => SamplesOf(T, c) = SamplesOf(S, c)
  BY <1>1
<1> QED BY <1>2, <1>3

Failed == [c \in Channel |-> SamplesOf(dropped, c)]

\* A step that leaves the four sets and the counter alone is a stutter.
LEMMA RefinementStutter ==
  ASSUME UNCHANGED <<captured, lost, Memory, Durable, Failed>>,
         engine' = "crashed" <=> engine = "crashed"
  PROVE  UNCHANGED Abstract!aVars
<1>1. (engine' # "crashed") = (engine # "crashed")
  OBVIOUS
<1> QED BY <1>1 DEF Abstract!aVars, Failed

\* Answering the oldest pending write takes the oldest samples from memory.
LEMMA AnswerTakesOldest ==
  ASSUME TypeOK, OrderInv, NEW ch \in writes, NextWrite(ch),
         UNCHANGED <<held, parts>>, writes' = writes \ {ch}
  PROVE  /\ ch.chan \in Channel /\ ch.parts \in SUBSET Memory[ch.chan]
         /\ Abstract!Oldest(ch.chan, ch.parts)
         /\ Memory' = [Memory EXCEPT ![ch.chan] = Memory[ch.chan] \ ch.parts]
<1> DEFINE c == ch.chan
<1>1. c \in Channel /\ ch \in Finalized /\ ch.parts # {} /\ ch.seq \in Nat
  BY DEF TypeOK, Chunk, Finalized, OrderInv, ChunksNumbered
<1>2. \A w \in writes : /\ w \in Finalized /\ w.seq \in Nat /\ w.chan \in Channel
                        /\ w.parts \subseteq Nat
  BY DEF TypeOK, Chunk, Finalized
<1>3. ch.parts \subseteq SamplesOf(writes, c) /\ ch.parts \subseteq Memory[c]
  BY <1>1 DEF SamplesOf, Memory
<1>4. \A w \in writes : w.chan = c /\ w # ch =>
        \A m \in ch.parts, n \in w.parts : m < n
  <2> SUFFICES ASSUME NEW w \in writes, w.chan = c, w # ch
               PROVE  \A m \in ch.parts, n \in w.parts : m < n
    OBVIOUS
  <2>1. ch.seq <= w.seq
    BY DEF NextWrite
  <2>2. ch.seq # w.seq
    BY <1>1, <1>2 DEF OrderInv, ReassemblyInOrder
  <2>3. ch.seq < w.seq
    BY <1>1, <1>2, <2>1, <2>2
  <2> QED BY <1>1, <1>2, <2>3 DEF OrderInv, ReassemblyInOrder
<1>5. \A m \in ch.parts, n \in held[c] \cup parts[c] : m < n
  BY <1>1 DEF OrderInv, ReassemblyInOrder
<1>6. ch.parts \subseteq Nat /\ held[c] \subseteq Nat /\ parts[c] \subseteq Nat
  BY <1>1, <1>2 DEF TypeOK
<1>7. \A n \in Memory[c] \ ch.parts :
        \/ n \in held[c] \cup parts[c]
        \/ \E w \in writes : w.chan = c /\ w # ch /\ n \in w.parts
  BY <1>1 DEF Memory, SamplesOf
<1>8. Abstract!Oldest(c, ch.parts)
  BY <1>1, <1>3, <1>4, <1>5, <1>7 DEF Abstract!Oldest
<1>9. Memory'[c] = Memory[c] \ ch.parts
  <2>1. \A n : n \in SamplesOf(writes', c) <=>
                 \E w \in writes : w # ch /\ w.chan = c /\ n \in w.parts
    BY DEF SamplesOf
  <2>2. \A n \in ch.parts : ~(n < n)
    BY <1>6
  <2>3. \A n : n \in SamplesOf(writes', c) =>
                 n \in SamplesOf(writes, c) /\ n \notin ch.parts
    BY <1>4, <2>1, <2>2 DEF SamplesOf
  <2>4. \A n : n \in held[c] \cup parts[c] => n \notin ch.parts
    BY <1>5, <2>2
  <2>5. \A n : n \in SamplesOf(writes, c) /\ n \notin ch.parts =>
                 n \in SamplesOf(writes', c)
    BY <2>1 DEF SamplesOf
  <2>6. /\ Memory[c] = held[c] \cup parts[c] \cup SamplesOf(writes, c)
        /\ Memory'[c] = held[c] \cup parts[c] \cup SamplesOf(writes', c)
    BY <1>1 DEF Memory
  <2> QED BY <2>3, <2>4, <2>5, <2>6
<1>10. \A d \in Channel : d # c => Memory'[d] = Memory[d]
  <2> SUFFICES ASSUME NEW d \in Channel, d # c PROVE Memory'[d] = Memory[d]
    OBVIOUS
  <2>1. SamplesOf(writes', d) = SamplesOf(writes, d)
    BY DEF SamplesOf
  <2> QED BY <2>1 DEF Memory
<1>11. Memory' = [Memory EXCEPT ![c] = Memory[c] \ ch.parts]
  BY <1>1, <1>9, <1>10 DEF Memory
<1> QED BY <1>1, <1>3, <1>8, <1>11

LEMMA StepRefines ==
  ASSUME TypeOK, OrderInv, ChannelInv, [Next]_vars
  PROVE  [Abstract!ANext]_(Abstract!aVars)
<1> USE DEF engineVars, channelVars, requestVars, storeVars, outcomeVars
<1>1. CASE /\ UNCHANGED <<captured, lost, held, parts, writes, dropped>>
           /\ (store \cup reclaimed \cup discarded)'
                = store \cup reclaimed \cup discarded
           /\ engine' = "crashed" <=> engine = "crashed"
  BY <1>1, RefinementStutter DEF Memory, Durable, Failed
<1>2. CASE Start \/ Pause \/ Resume
  BY <1>1, <1>2 DEF Start, Pause, Resume
<1>3. CASE Stop \/ StopWaited \/ Dispose \/ RotateAll \/ FindRecoverable
  BY <1>1, <1>3 DEF Stop, StopWaited, Dispose, RotateAll, FindRecoverable
<1>4. ASSUME NEW c \in Channel, Encode(c) PROVE [Abstract!ANext]_(Abstract!aVars)
  <2>1. engine # "crashed"
    BY <1>4 DEF Encode, ChannelInv
  <2>2. UNCHANGED <<engine, parts, writes, lost, Durable, Failed>>
    BY <1>4 DEF Encode, Durable, Failed
  <2>3. /\ captured' = [captured EXCEPT ![c] = captured[c] + 1]
        /\ held' = [held EXCEPT ![c] = held[c] \cup {captured[c] + 1}]
    BY <1>4 DEF Encode
  <2>4. \A d \in Channel : held'[d] = IF d = c THEN held[c] \cup {captured[c] + 1}
                                               ELSE held[d]
    BY <2>3 DEF TypeOK
  <2>5. Memory' = [Memory EXCEPT ![c] = Memory[c] \cup {captured[c] + 1}]
    BY <2>2, <2>4 DEF Memory
  <2>6. Abstract!AEncode(c)
    BY <2>1, <2>2, <2>3, <2>5 DEF Abstract!AEncode, Failed
  <2> QED BY <2>6 DEF Abstract!ANext
<1>5. ASSUME NEW c \in Channel, DataAvailable(c)
      PROVE  UNCHANGED Abstract!aVars
  <2>1. \A d \in Channel : held'[d] \cup parts'[d] = held[d] \cup parts[d]
    BY <1>5 DEF DataAvailable, TypeOK
  <2>2. Memory' = Memory
    BY <1>5, <2>1 DEF DataAvailable, Memory
  <2> QED BY <1>5, <2>2, RefinementStutter DEF DataAvailable, Durable, Failed
<1>6. ASSUME NEW c \in Channel, TrackEnds(c) PROVE UNCHANGED Abstract!aVars
  BY <1>6, RefinementStutter DEF TrackEnds, Memory, Durable, Failed
<1>7. ASSUME NEW c \in Channel, HandleStop(c) PROVE UNCHANGED Abstract!aVars
  <2> DEFINE full == parts[c] \cup held[c]
             new == [chan |-> c, seq |-> sequence[c], parts |-> full]
  <2>1. \A d \in Channel : /\ parts'[d] = IF d = c THEN {} ELSE parts[d]
                           /\ held'[d] = IF d = c THEN {} ELSE held[d]
    BY <1>7 DEF HandleStop, Finalize, TypeOK
  <2>2. (writes' = writes /\ full = {}) \/ writes' = writes \cup {new}
    BY <1>7 DEF HandleStop, Finalize
  <2>3. new.chan = c /\ new.parts = full
    OBVIOUS
  <2>4. \A d \in Channel : SamplesOf(writes', d) =
          SamplesOf(writes, d) \cup (IF d = c THEN full ELSE {})
    <3>1. CASE writes' = writes /\ full = {}
      BY <3>1
    <3>2. CASE writes' = writes \cup {new}
      <4>1. \A d \in Channel : SamplesOf(writes \cup {new}, d) =
              SamplesOf(writes, d)
                \cup (IF new.chan = d THEN new.parts ELSE {})
        BY SamplesOfPlus
      <4> HIDE DEF new, full
      <4> QED BY <3>2, <2>3, <4>1
    <3> QED BY <2>2, <3>1, <3>2
  <2>5. Memory' = Memory
    BY <2>1, <2>4 DEF Memory
  <2> QED BY <1>7, <2>5, RefinementStutter DEF HandleStop, Durable, Failed
<1>8. ASSUME NEW ch \in writes, PutChunk(ch)
      PROVE  [Abstract!ANext]_(Abstract!aVars)
  <2>1. engine # "crashed" /\ engine' = engine
    BY <1>8 DEF PutChunk, ChannelInv
  <2>2. NextWrite(ch) /\ UNCHANGED <<held, parts, captured, lost, Failed>>
        /\ writes' = writes \ {ch}
    BY <1>8 DEF PutChunk, Failed
  <2>3. \A x \in store : ~SameKey(x, ch)
    BY DEF OrderInv, WritesComeLast, Settled, SameKey, TypeOK, Chunk
  <2>4. (store \cup reclaimed \cup discarded)'
          = (store \cup reclaimed \cup discarded) \cup {ch}
    BY <1>8, <2>3 DEF PutChunk
  <2>5. Durable' = [Durable EXCEPT ![ch.chan] = Durable[ch.chan] \cup ch.parts]
    <3>1. ch.chan \in Channel
      BY <2>2, AnswerTakesOldest
    <3> DEFINE S == store \cup reclaimed \cup discarded
    <3>2. /\ Durable = [c \in Channel |-> SamplesOf(S, c)]
          /\ Durable' = [c \in Channel |-> SamplesOf(S \cup {ch}, c)]
      BY <2>4 DEF Durable
    <3> HIDE DEF S
    <3>3. [c \in Channel |-> SamplesOf(S \cup {ch}, c)] =
            [[c \in Channel |-> SamplesOf(S, c)] EXCEPT
               ![ch.chan] = SamplesOf(S, ch.chan) \cup ch.parts]
      BY <3>1, SamplesByChannel
    <3>4. Durable[ch.chan] = SamplesOf(S, ch.chan)
      BY <3>1, <3>2
    <3> QED BY <3>2, <3>3, <3>4
  <2>6. Abstract!APersist(ch.chan, ch.parts)
    BY <2>1, <2>2, <2>5, AnswerTakesOldest DEF Abstract!APersist, Failed
  <2> QED BY <2>2, <2>6, AnswerTakesOldest DEF Abstract!ANext
<1>9. ASSUME NEW ch \in writes, PutChunkFails(ch)
      PROVE  [Abstract!ANext]_(Abstract!aVars)
  <2>1. engine # "crashed" /\ engine' = engine
    BY <1>9 DEF PutChunkFails, ChannelInv
  <2>2. NextWrite(ch) /\ UNCHANGED <<held, parts, captured, lost, Durable>>
        /\ writes' = writes \ {ch} /\ dropped' = dropped \cup {ch}
    BY <1>9 DEF PutChunkFails, Durable
  <2>3. Failed' = [Failed EXCEPT ![ch.chan] = Failed[ch.chan] \cup ch.parts]
    <3>1. ch.chan \in Channel
      BY <2>2, AnswerTakesOldest
    <3>2. [c \in Channel |-> SamplesOf(dropped \cup {ch}, c)] =
            [[c \in Channel |-> SamplesOf(dropped, c)] EXCEPT
               ![ch.chan] = SamplesOf(dropped, ch.chan) \cup ch.parts]
      BY <3>1, SamplesByChannel
    <3>3. Failed[ch.chan] = SamplesOf(dropped, ch.chan)
      BY <3>1 DEF Failed
    <3> QED BY <2>2, <3>2, <3>3 DEF Failed
  <2>4. Abstract!AFail(ch.chan, ch.parts)
    BY <2>1, <2>2, <2>3, AnswerTakesOldest DEF Abstract!AFail, Failed
  <2> QED BY <2>2, <2>4, AnswerTakesOldest DEF Abstract!ANext
<1>10. CASE CreateManifest
  BY <1>1, <1>10 DEF CreateManifest, StartChannels, StartBreaks
<1>11. CASE ReadManifest \/ WriteManifest \/ RefreshFails
  BY <1>1, <1>11 DEF ReadManifest, WriteManifest, RefreshFails
<1>12. CASE CloseRead \/ CloseWrite \/ CloseFails
  BY <1>1, <1>12 DEF CloseRead, CloseWrite, CloseFails, ChannelInv
<1>13. ASSUME NEW ch \in handed, Reclaim(ch) PROVE UNCHANGED Abstract!aVars
  <2>1. (store \cup reclaimed \cup discarded)'
          = store \cup reclaimed \cup discarded
    BY <1>13 DEF Reclaim
  <2> QED BY <1>13, <2>1, RefinementStutter DEF Reclaim, Memory, Durable, Failed
<1>14. CASE Crash
  <2>1. /\ engine # "crashed" /\ engine' = "crashed"
        /\ UNCHANGED <<captured, Durable, Failed>> /\ lost' = Memory
    BY <1>14 DEF Crash, Alive, Durable, Failed, Memory
  <2>2. \A c \in Channel : SamplesOf(writes', c) = {}
    BY <1>14 DEF Crash, SamplesOf
  <2>3. Memory' = [c \in Channel |-> {}]
    BY <1>14, <2>2 DEF Crash, Memory
  <2>4. Abstract!ADie
    BY <2>1, <2>3 DEF Abstract!ADie, Abstract!Nothing, Failed
  <2> QED BY <2>4 DEF Abstract!ANext
<1>15. CASE Discard
  <2>1. (store \cup reclaimed \cup discarded)'
          = store \cup reclaimed \cup discarded
    BY <1>15 DEF Discard
  <2> QED BY <1>1, <1>15, <2>1 DEF Discard
<1>16. CASE UNCHANGED vars
  BY <1>1, <1>16 DEF vars
<1> QED
  BY <1>2, <1>3, <1>4, <1>5, <1>6, <1>7, <1>8, <1>9, <1>10, <1>11, <1>12,
     <1>13, <1>14, <1>15, <1>16 DEF Next, ChunkRequest, ManifestRequest

\* Every behaviour of the engine is one the promise allows: audio leaves
\* memory once, oldest first, and only a death of the page loses any.
THEOREM EngineImplementsDurableAudio == Spec => ImplementsDurableAudio
<1>1. Init => Abstract!AInit
  <2> SUFFICES ASSUME Init PROVE Abstract!AInit
    OBVIOUS
  <2>1. \A c \in Channel : SamplesOf({}, c) = {}
    BY DEF SamplesOf
  <2>2. /\ engine # "crashed" /\ captured = [c \in Channel |-> 0]
        /\ lost = [c \in Channel |-> {}]
    BY DEF Init
  <2>3. Memory = [c \in Channel |-> {}]
    BY <2>1 DEF Init, Memory
  <2>4. store \cup reclaimed \cup discarded = {} /\ dropped = {}
    BY DEF Init
  <2>5. Durable = [c \in Channel |-> {}] /\ Failed = [c \in Channel |-> {}]
    BY <2>1, <2>4 DEF Durable, Failed
  <2> QED BY <2>2, <2>3, <2>5 DEF Abstract!AInit, Abstract!Nothing, Failed
<1>2. TypeOK /\ OrderInv /\ ChannelInv /\ [Next]_vars
        => [Abstract!ANext]_(Abstract!aVars)
  BY StepRefines
<1> QED BY <1>1, <1>2, TypeCorrect, OrderHolds, ChannelsInStep, PTL
        DEF Spec, ImplementsDurableAudio, Abstract!ASpec

-----------------------------------------------------------------------------
(* A crash before stop() leaves a session that recovery finds.             *)

LEMMA OpensTail ==
  ASSUME NEW q \in Seq(Request), q # <<>>, OpensOnly(q)
  PROVE  /\ OpensOnly(Tail(q)) /\ Head(q).op \in {"create", "read", "write"}
         /\ Head(q).op = "write" => Head(q).closed = FALSE
<1>1. /\ Len(Tail(q)) = Len(q) - 1 /\ Len(q) \in Nat /\ Len(q) >= 1
      /\ \A i \in 1..Len(Tail(q)) : Tail(q)[i] = q[i+1]
      /\ Head(q) = q[1]
  BY HeadTailProperties, EmptySeq
<1>2. \A i \in 1..Len(Tail(q)) : i + 1 \in 1..Len(q)
  BY <1>1
<1> QED BY <1>1, <1>2 DEF OpensOnly

LEMMA OpensAppend ==
  ASSUME NEW q \in Seq(Request), NEW r \in Request, OpensOnly(q),
         r.op \in {"create", "read", "write"},
         r.op = "write" => r.closed = FALSE
  PROVE  OpensOnly(Append(q, r))
<1>1. /\ Len(Append(q, r)) = Len(q) + 1 /\ Len(q) \in Nat
      /\ \A i \in 1..Len(q) : Append(q, r)[i] = q[i]
      /\ Append(q, r)[Len(q) + 1] = r
  BY AppendProperties
<1>2. \A i \in 1..(Len(q) + 1) : i \in 1..Len(q) \/ i = Len(q) + 1
  BY <1>1
<1> QED BY <1>1, <1>2 DEF OpensOnly

LEMMA OfferStep ==
  ASSUME OtherTab = FALSE, TypeOK, ChannelInv, OfferInv, [Next]_vars
  PROVE  OfferInv'
<1> USE DEF engineVars, channelVars, requestVars, storeVars, outcomeVars, OfferInv
<1>1. manifestQ \in Seq(Request)
  BY DEF TypeOK
<1>2. CASE Start
  <2> DEFINE r == [op |-> "create"]
  <2>1. r \in Request /\ r.op = "create"
    BY DEF Request
  <2>2. OpensOnly(manifestQ) => OpensOnly(Append(manifestQ, r))
    BY <1>1, <2>1, OpensAppend
  <2> QED BY <1>2, <2>2 DEF Start
<1>3. CASE Pause
  BY <1>3 DEF Pause, TypeOK
<1>4. CASE Resume
  BY <1>4 DEF Resume, TypeOK
<1>5. CASE Stop
  BY <1>5 DEF Stop, StopChannels, StopRecorders, Running, TypeOK
<1>6. CASE StopWaited
  BY <1>6 DEF StopWaited
<1>7. CASE Dispose
  BY <1>7 DEF Dispose, StopChannels, StopRecorders, Running, TypeOK
<1>8. CASE RotateAll
  BY <1>8 DEF RotateAll, CanRotate, StopRecorders, Running, TypeOK
<1>9. ASSUME NEW c \in Channel, Encode(c) \/ DataAvailable(c) PROVE OfferInv'
  BY <1>9 DEF Encode, DataAvailable
<1>10. ASSUME NEW c \in Channel, TrackEnds(c) PROVE OfferInv'
  BY <1>10 DEF TrackEnds, StopRecorders, TypeOK
<1>11. ASSUME NEW c \in Channel, HandleStop(c) PROVE OfferInv'
  <2>1. manifest # "none"
    BY <1>11 DEF HandleStop
  <2> QED BY <1>11, <2>1 DEF HandleStop
<1>12. ASSUME NEW ch \in writes, PutChunk(ch) PROVE OfferInv'
  <2>1. manifest # "none"
    OBVIOUS
  <2> DEFINE r == [op |-> "read", chunk |-> ch]
  <2>2. r \in Request /\ r.op = "read"
    BY DEF Request, TypeOK
  <2>3. OpensOnly(manifestQ) => OpensOnly(Append(manifestQ, r))
    BY <1>1, <2>2, OpensAppend
  <2> QED BY <1>12, <2>1, <2>3 DEF PutChunk
<1>13. ASSUME NEW ch \in writes, PutChunkFails(ch) PROVE OfferInv'
  BY <1>13 DEF PutChunkFails
<1>14. CASE CreateManifest
  <2>1. OpensOnly(manifestQ) => OpensOnly(Tail(manifestQ))
    BY <1>1, <1>14, OpensTail DEF CreateManifest
  <2>2. engine # "crashed" /\ engine' # "crashed" /\ banner' = banner
        /\ stopPc' = stopPc /\ manifestQ' = Tail(manifestQ)
    BY <1>14 DEF CreateManifest, StartChannels, StartBreaks
  <2>3. manifest' = "open" \/ UNCHANGED <<manifest, store, writes, mr>>
    BY <1>14 DEF CreateManifest
  <2> QED BY <2>1, <2>2, <2>3
<1>15. CASE ReadManifest
  <2> DEFINE r == [op |-> "write", chunk |-> Head(manifestQ).chunk,
                   closed |-> manifest = "closed"]
  <2>1. /\ manifestQ # <<>> /\ manifestQ' = Append(Tail(manifestQ), r)
        /\ Head(manifestQ).op = "read"
        /\ UNCHANGED <<engine, banner, manifest, store, writes, mr, stopPc>>
    BY <1>15 DEF ReadManifest
  <2>2. /\ Head(manifestQ).chunk \in Chunk /\ Tail(manifestQ) \in Seq(Request)
    BY <2>1, HeadOfQueue, RequestFields
  <2>3. r \in Request /\ r.op = "write" /\ r.closed = (manifest = "closed")
    BY <2>2 DEF Request
  <2>4. stopPc = "none" => OpensOnly(manifestQ')
    BY <1>1, <2>1, <2>2, <2>3, OpensTail, OpensAppend
  <2> QED BY <2>1, <2>4
<1>16. CASE WriteManifest
  <2>1. /\ manifestQ # <<>> /\ manifestQ' = Tail(manifestQ)
        /\ Head(manifestQ).op = "write"
        /\ manifest' = IF Head(manifestQ).closed THEN "closed" ELSE "open"
        /\ UNCHANGED <<engine, banner, store, writes, mr, stopPc>>
    BY <1>16 DEF WriteManifest, PutManifest
  <2>2. stopPc = "none" => OpensOnly(manifestQ') /\ Head(manifestQ).closed = FALSE
    BY <1>1, <2>1, OpensTail
  <2>3. manifest' # "none"
    BY <2>1
  <2>4. stopPc = "none" => manifest' = "open"
    BY <2>1, <2>2
  <2> QED BY <2>1, <2>2, <2>3, <2>4
<1>17. CASE RefreshFails
  <2>1. stopPc = "none" => OpensOnly(Tail(manifestQ))
    BY <1>1, <1>17, OpensTail DEF RefreshFails
  <2> QED BY <1>17, <2>1 DEF RefreshFails
<1>18. CASE CloseRead \/ CloseWrite \/ CloseFails
  <2>1. stopPc # "none" /\ stopPc' # "none" /\ engine # "crashed"
    BY <1>1, <1>18, OpensTail DEF CloseRead, CloseWrite, CloseFails, ChannelInv
  <2> QED BY <1>18, <2>1 DEF CloseRead, CloseWrite, CloseFails
<1>19. ASSUME NEW ch \in handed, Reclaim(ch) PROVE OfferInv'
  BY <1>19 DEF Reclaim
<1>20. CASE Crash
  BY <1>20 DEF Crash, OpensOnly
<1>21. CASE FindRecoverable
  BY <1>21 DEF FindRecoverable, PageOpen
<1>22. CASE Discard
  BY <1>22 DEF Discard, ChannelInv
<1>23. CASE UNCHANGED vars
  BY <1>23 DEF vars
<1> QED
  BY <1>2, <1>3, <1>4, <1>5, <1>6, <1>7, <1>8, <1>9, <1>10, <1>11, <1>12,
     <1>13, <1>14, <1>15, <1>16, <1>17, <1>18, <1>19, <1>20, <1>21, <1>22,
     <1>23 DEF Next, ChunkRequest, ManifestRequest

\* Without a second page of the app nothing closes the manifest before stop().
THEOREM OffersHold == OtherTab = FALSE => (Spec => []OfferInv)
<1> SUFFICES ASSUME OtherTab = FALSE PROVE Spec => []OfferInv
  OBVIOUS
<1>1. Init => OfferInv
  BY EmptySeq DEF Init, OfferInv, OpensOnly
<1>2. TypeOK /\ ChannelInv /\ OfferInv /\ [Next]_vars => OfferInv'
  BY OfferStep
<1> QED BY <1>1, <1>2, TypeCorrect, ChannelsInStep, PTL DEF Spec

\* Then a page that dies before stop() leaves an open manifest over its stored
\* chunks.
THEOREM CrashedIsOffered ==
  OtherTab = FALSE => (Spec => []CrashedSessionIsOffered)
<1> SUFFICES ASSUME OtherTab = FALSE
             PROVE  Spec => []CrashedSessionIsOffered
  OBVIOUS
<1>1. TypeOK /\ OfferInv => CrashedSessionIsOffered
  BY DEF OfferInv, CrashedSessionIsOffered, TypeOK
<1>2. Spec => []OfferInv
  BY OffersHold
<1> QED BY <1>1, <1>2, TypeCorrect, PTL

-----------------------------------------------------------------------------
(* Where the gaps of a recovered session come from, and what the recovery  *)
(* algorithms make of them.                                                *)

Used(S, c, k) == \E a \in S : a.chan = c /\ a.seq = k

\* No number is skipped: until a crash, every number below the buffer's next
\* one is that of a chunk.
NumbersUsed ==
  engine # "crashed" =>
    \A c \in Channel : \A k \in Nat : k < sequence[c] => Used(Finalized, c, k)

\* Nor overtaken: below a chunk whose write was answered, every number is of a
\* chunk whose write was answered too.
GapsHaveCause ==
  \A a \in Settled : \A k \in Nat : k < a.seq => Used(Settled, a.chan, k)

GapInv == NumbersUsed /\ GapsHaveCause

LEMMA GapsOfStutter ==
  ASSUME GapInv, engine' # "crashed" => engine # "crashed",
         sequence' = sequence, Settled' = Settled, engine' # "crashed" => writes' = writes
  PROVE  GapInv'
BY DEF GapInv, NumbersUsed, GapsHaveCause, Finalized, Used

\* The write of a channel's first pending chunk is answered.
LEMMA GapsOfAnswer ==
  ASSUME TypeOK, ChannelInv, OrderInv, OrderInv', GapInv, NEW ch \in writes,
         Settled' = Settled \cup {ch}, writes' = writes \ {ch},
         sequence' = sequence, engine' = engine
  PROVE  GapInv'
<1>1. NumbersUsed'
  BY DEF GapInv, NumbersUsed, Finalized, Used
<1>2. engine # "crashed" /\ ch \in Chunk /\ ch.seq \in Nat /\ ch.chan \in Channel
  BY DEF ChannelInv, TypeOK, Chunk
<1>3. ASSUME NEW k \in Nat, k < ch.seq PROVE Used(Settled', ch.chan, k)
  <2>1. ch.seq < sequence[ch.chan] /\ sequence[ch.chan] \in Nat
    BY <1>2 DEF OrderInv, ChunksNumbered, Finalized, TypeOK
  <2>2. k < sequence[ch.chan]
    BY <1>2, <1>3, <2>1
  <2>3. PICK b \in Finalized : b.chan = ch.chan /\ b.seq = k
    BY <1>2, <2>2 DEF GapInv, NumbersUsed, Used
  <2>4. b # ch
    BY <1>2, <1>3, <2>3
  <2>5. b \notin writes'
    <3>1. SUFFICES ASSUME b \in writes' PROVE FALSE
      OBVIOUS
    <3>2. ch.seq < b.seq
      BY <2>3, <3>1 DEF OrderInv, WritesComeLast
    <3> QED BY <1>2, <1>3, <2>3, <3>2
  <2>6. b \in Settled'
    BY <2>4, <2>5 DEF Finalized
  <2> QED BY <2>3, <2>6 DEF Used
<1>4. GapsHaveCause'
  <2>1. SUFFICES ASSUME NEW a \in Settled', NEW k \in Nat, k < a.seq
                 PROVE  Used(Settled', a.chan, k)
    BY DEF GapsHaveCause, Used
  <2>2. CASE a = ch
    BY <1>3, <2>1, <2>2
  <2>3. CASE a \in Settled
    BY <2>1, <2>3 DEF GapInv, GapsHaveCause, Used
  <2> QED BY <2>2, <2>3
<1> QED BY <1>1, <1>4 DEF GapInv

\* A rotation numbers its chunk next.
LEMMA GapsOfStopEvent ==
  ASSUME TypeOK, GapInv, NEW c \in Channel, Finalize(c), Settled' = Settled, engine' = engine
  PROVE  GapInv'
<1>1. GapsHaveCause'
  BY DEF GapInv, GapsHaveCause, Used
<1>2. CASE UNCHANGED <<writes, sequence>>
  BY <1>1, <1>2 DEF GapInv, NumbersUsed, Finalized, Used
<1>3. ASSUME NEW ch, ch.chan = c, ch.seq = sequence[c], writes' = writes \cup {ch},
             sequence' = [sequence EXCEPT ![c] = @ + 1]
      PROVE  GapInv'
  <2>1. SUFFICES ASSUME engine # "crashed", NEW d \in Channel, NEW k \in Nat, k < sequence'[d]
                 PROVE  Used(Finalized', d, k)
    BY <1>1 DEF GapInv, NumbersUsed
  <2>2. Finalized' = Finalized \cup {ch} /\ sequence[c] \in Nat /\ sequence[d] \in Nat
    BY <1>3 DEF Finalized, TypeOK
  <2>3. k < sequence[d] \/ (d = c /\ k = sequence[c])
    BY <1>3, <2>1, <2>2 DEF TypeOK
  <2> QED BY <1>3, <2>1, <2>2, <2>3 DEF GapInv, NumbersUsed, Used
<1>4. \/ UNCHANGED <<writes, sequence>>
      \/ \E ch : /\ ch.chan = c /\ ch.seq = sequence[c] /\ writes' = writes \cup {ch}
                 /\ sequence' = [sequence EXCEPT ![c] = @ + 1]
  <2> DEFINE ch == [chan |-> c, seq |-> sequence[c], parts |-> parts[c] \cup held[c]]
  <2>1. ch.chan = c /\ ch.seq = sequence[c]
    OBVIOUS
  <2> QED BY <2>1 DEF Finalize
<1> QED BY <1>2, <1>3, <1>4

\* A gap below a chunk that recovery finds is a chunk that was uploaded and
\* reclaimed, discarded, or whose write failed (recorder.ts persistChunk,
\* chunk-buffer.ts rotate): none was skipped, overtaken or lost by a crash.
THEOREM GapsAreNoLoss == Spec => []GapsHaveCause
<1>1. Init => GapInv
  BY DEF Init, GapInv, NumbersUsed, GapsHaveCause, Settled
<1>2. TypeOK /\ ChannelInv /\ OrderInv /\ OrderInv' /\ GapInv /\ [Next]_vars => GapInv'
  <2> SUFFICES ASSUME TypeOK, ChannelInv, OrderInv, OrderInv', GapInv, [Next]_vars
               PROVE  GapInv'
    OBVIOUS
  <2> USE DEF engineVars, channelVars, requestVars, storeVars, outcomeVars, Settled
  <2>1. CASE \/ Start \/ Pause \/ Resume \/ Stop \/ StopWaited \/ Dispose
             \/ RotateAll \/ FindRecoverable \/ UNCHANGED vars
    BY <2>1, GapsOfStutter DEF Start, Pause, Resume, Stop, StopWaited, Dispose, RotateAll,
                               FindRecoverable, vars
  <2>2. CASE Discard
    <3>1. Settled' = Settled
      BY <2>2 DEF Discard
    <3> QED BY <2>2, <3>1, GapsOfStutter DEF Discard
  <2>3. ASSUME NEW c \in Channel, Encode(c) \/ DataAvailable(c) \/ TrackEnds(c)
        PROVE  GapInv'
    BY <2>3, GapsOfStutter DEF Encode, DataAvailable, TrackEnds
  <2>4. ASSUME NEW c \in Channel, HandleStop(c) PROVE GapInv'
    BY <2>4, GapsOfStopEvent DEF HandleStop
  <2>5. ASSUME NEW ch \in writes, PutChunk(ch) PROVE GapInv'
    <3>1. \A x \in store : ~SameKey(x, ch)
      BY DEF OrderInv, WritesComeLast, SameKey, TypeOK, Chunk
    <3>2. Settled' = Settled \cup {ch}
      BY <2>5, <3>1 DEF PutChunk
    <3>3. writes' = writes \ {ch} /\ sequence' = sequence /\ engine' = engine
      BY <2>5 DEF PutChunk
    <3> HIDE DEF Settled
    <3> QED BY <3>2, <3>3, GapsOfAnswer
  <2>6. ASSUME NEW ch \in writes, PutChunkFails(ch) PROVE GapInv'
    <3>1. Settled' = Settled \cup {ch}
      BY <2>6 DEF PutChunkFails
    <3>2. writes' = writes \ {ch} /\ sequence' = sequence /\ engine' = engine
      BY <2>6 DEF PutChunkFails
    <3> HIDE DEF Settled
    <3> QED BY <3>1, <3>2, GapsOfAnswer
  <2>7. CASE ManifestRequest
    <3>1. /\ UNCHANGED <<sequence, writes, store, reclaimed, dropped, discarded>>
          /\ engine' # "crashed" => engine # "crashed"
      BY <2>7 DEF ManifestRequest, CreateManifest, StartChannels, StartBreaks, ReadManifest,
                  WriteManifest, RefreshFails, CloseRead, CloseWrite, CloseFails, ChannelInv
    <3> QED BY <3>1, GapsOfStutter
  <2>8. ASSUME NEW ch \in handed, Reclaim(ch) PROVE GapInv'
    <3>1. Settled' = Settled
      BY <2>8 DEF Reclaim
    <3> QED BY <2>8, <3>1, GapsOfStutter DEF Reclaim
  <2>9. CASE Crash
    BY <2>9, GapsOfStutter DEF Crash
  <2> QED BY <2>1, <2>2, <2>3, <2>4, <2>5, <2>6, <2>7, <2>8, <2>9
             DEF Next, ChunkRequest, ManifestRequest
<1>3. GapInv => GapsHaveCause
  BY DEF GapInv
<1> QED BY <1>1, <1>2, <1>3, TypeCorrect, ChannelsInStep, OrderHolds, PTL DEF Spec

\* The chunks of I that are sorted before a chunk.
Before(chunks, I, j) == {i \in I : Precedes(chunks, i, j)}

LEMMA RankRises ==
  ASSUME NEW chunks, NEW I \in SUBSET Nat, IsFiniteSet(I), \A i \in I : chunks[i].seq \in Nat
  PROVE  /\ \A j \in I : Rank(chunks, I, j) \in 0..(Cardinality(I) - 1)
         /\ \A i, j \in I : Precedes(chunks, i, j) => Rank(chunks, I, i) < Rank(chunks, I, j)
<1>0. \A j : Rank(chunks, I, j) = Cardinality(Before(chunks, I, j))
  BY DEF Rank, Before
<1>1. \A j \in I : ~Precedes(chunks, j, j)
  BY DEF Precedes
<1>2. ASSUME NEW j \in I
      PROVE  /\ IsFiniteSet(Before(chunks, I, j))
             /\ Rank(chunks, I, j) \in 0..(Cardinality(I) - 1)
  <2>1. Before(chunks, I, j) \in SUBSET I /\ Before(chunks, I, j) # I
    BY <1>1 DEF Before
  <2>2. Cardinality(I) \in Nat
    BY FS_CardinalityType
  <2>3. /\ IsFiniteSet(Before(chunks, I, j))
        /\ Cardinality(Before(chunks, I, j)) <= Cardinality(I)
        /\ Cardinality(Before(chunks, I, j)) # Cardinality(I)
    BY <2>1, FS_Subset
  <2>4. Cardinality(Before(chunks, I, j)) \in Nat
    BY <2>3, FS_CardinalityType
  <2> QED BY <1>0, <2>2, <2>3, <2>4
<1>3. ASSUME NEW i \in I, NEW j \in I, Precedes(chunks, i, j)
      PROVE  Rank(chunks, I, i) < Rank(chunks, I, j)
  <2>1. Before(chunks, I, i) \in SUBSET Before(chunks, I, j)
    <3>1. ASSUME NEW k \in I, Precedes(chunks, k, i) PROVE Precedes(chunks, k, j)
      <4>1. /\ k \in Nat /\ i \in Nat /\ j \in Nat
            /\ chunks[k].seq \in Nat /\ chunks[i].seq \in Nat /\ chunks[j].seq \in Nat
        OBVIOUS
      <4> QED BY <1>3, <3>1, <4>1 DEF Precedes
    <3> QED BY <3>1 DEF Before
  <2>2. i \in Before(chunks, I, j) /\ i \notin Before(chunks, I, i)
    BY <1>1, <1>3 DEF Before
  <2>3. /\ Cardinality(Before(chunks, I, i)) <= Cardinality(Before(chunks, I, j))
        /\ Cardinality(Before(chunks, I, i)) # Cardinality(Before(chunks, I, j))
    BY <1>2, <2>1, <2>2, FS_Subset
  <2> QED BY <1>0, <1>2, <2>3
<1> QED BY <1>2, <1>3

\* A sorted list is the places of I, each once, in their order.
Places(chunks, I, p) ==
  /\ p \in [1..Cardinality(I) -> I]
  /\ \A j \in I : \E n \in 1..Cardinality(I) : p[n] = j
  /\ \A m, n \in 1..Cardinality(I) : m < n => Precedes(chunks, p[m], p[n])
  /\ Sorted(chunks, I) = [n \in 1..Cardinality(I) |-> chunks[p[n]]]

LEMMA SortedPlaces ==
  ASSUME NEW chunks, NEW I \in SUBSET Nat, IsFiniteSet(I), \A i \in I : chunks[i].seq \in Nat
  PROVE  \E p : Places(chunks, I, p)
<1> DEFINE N == Cardinality(I)
           r == [j \in I |-> Rank(chunks, I, j) + 1]
           p == [n \in 1..N |-> CHOOSE j \in I : Rank(chunks, I, j) = n - 1]
<1>1. N \in Nat
  BY FS_CardinalityType
<1>2. \A i, j \in I : i = j \/ Precedes(chunks, i, j) \/ Precedes(chunks, j, i)
  BY DEF Precedes
<1>3. \A j \in I : Rank(chunks, I, j) \in Int /\ Rank(chunks, I, j) + 1 \in 1..N
  BY <1>1, RankRises
<1>4. \A i, j \in I : Rank(chunks, I, i) = Rank(chunks, I, j) => i = j
  BY <1>2, <1>3, RankRises
<1>5. r \in Injection(I, 1..N)
  <2>1. r \in [I -> 1..N]
    BY <1>3
  <2>2. ASSUME NEW i \in I, NEW j \in I, r[i] = r[j] PROVE i = j
    <3>1. PICK a \in Int, b \in Int : a = Rank(chunks, I, i) /\ b = Rank(chunks, I, j)
      BY <1>3
    <3>2. r[i] = a + 1 /\ r[j] = b + 1
      BY <3>1, Zenon
    <3>3. a = b
      <4>1. r[i] = r[j]
        BY <2>2
      <4> HIDE DEF r
      <4>2. a + 1 = b + 1
        BY <3>2, <4>1
      <4> QED BY <4>2
    <3> QED BY <1>4, <3>1, <3>3
  <2> QED BY <2>1, <2>2 DEF Injection, IsInjective
<1>6. r \in Surjection(I, 1..N)
  <2>1. IsFiniteSet(1..N) /\ Cardinality(1..N) = N
    BY <1>1, FS_Interval
  <2> HIDE DEF r
  <2> QED BY <1>5, <2>1, FS_Injection
<1>7. \A n \in 1..N : \E j \in I : Rank(chunks, I, j) = n - 1
  <2>1. ASSUME NEW n \in 1..N PROVE \E j \in I : Rank(chunks, I, j) = n - 1
    <3>1. PICK j \in I : r[j] = n
      BY <1>6 DEF Surjection
    <3> QED BY <1>3, <3>1
  <2> QED BY <2>1
<1>8. \A n \in 1..N : p[n] \in I /\ Rank(chunks, I, p[n]) = n - 1
  BY <1>7
<1>9. p \in [1..N -> I]
  BY <1>8
<1>10. \A j \in I : \E n \in 1..N : p[n] = j
  <2>1. ASSUME NEW j \in I PROVE \E n \in 1..N : p[n] = j
    <3>1. PICK n \in 1..N : n = Rank(chunks, I, j) + 1
      BY <1>3
    <3> HIDE DEF p
    <3>2. p[n] \in I /\ Rank(chunks, I, p[n]) = n - 1
      BY <1>8
    <3>3. Rank(chunks, I, p[n]) = Rank(chunks, I, j)
      BY <1>3, <3>1, <3>2
    <3>4. p[n] = j
      BY <1>4, <3>2, <3>3
    <3> QED BY <3>4
  <2> QED BY <2>1
<1>11. ASSUME NEW m \in 1..N, NEW n \in 1..N, m < n PROVE Precedes(chunks, p[m], p[n])
  <2> HIDE DEF p
  <2>1. p[m] \in I /\ p[n] \in I /\ Rank(chunks, I, p[m]) < Rank(chunks, I, p[n])
    BY <1>1, <1>8, <1>11
  <2>2. Rank(chunks, I, p[m]) \in Int /\ Rank(chunks, I, p[n]) \in Int
    BY <1>3, <2>1
  <2>3. p[m] # p[n]
    BY <2>1, <2>2
  <2>4. ~Precedes(chunks, p[n], p[m])
    BY <2>1, <2>2, RankRises
  <2> QED BY <1>2, <2>1, <2>3, <2>4
<1>12. Sorted(chunks, I) = [n \in 1..N |-> chunks[p[n]]]
  BY DEF Sorted
<1> QED BY <1>9, <1>10, <1>11, <1>12 DEF Places

\* A sum of natural numbers is positive if one of them is.
LEMMA TotalIsPositive ==
  ASSUME NEW S, IsFiniteSet(S), NEW f \in [S -> Nat]
  PROVE  Total(f) \in Nat /\ (Total(f) > 0 <=> \E x \in S : f[x] > 0)
<1> DEFINE g == [x \in S |-> {x} \X (1..f[x])]
           T == {g[x] : x \in S}
<1>1. T = {{x} \X (1..f[x]) : x \in DOMAIN f}
  OBVIOUS
<1>2. IsFiniteSet(T)
  <2>1. g \in Surjection(S, T)
    BY DEF Surjection
  <2> HIDE DEF g, T
  <2> QED BY <2>1, FS_Surjection
<1>3. ASSUME NEW x \in S PROVE IsFiniteSet({x} \X (1..f[x]))
  <2>1. IsFiniteSet({x}) /\ IsFiniteSet(1..f[x])
    <3>1. f[x] \in Int /\ 1 \in Int
      OBVIOUS
    <3> QED BY <3>1, FS_Singleton, FS_Interval, Zenon
  <2> QED BY <2>1, FS_Product
<1>4. IsFiniteSet(UNION T)
  <2>1. \A U \in T : IsFiniteSet(U)
    BY <1>3
  <2> HIDE DEF T
  <2> QED BY <1>2, <2>1, FS_UNION
<1>5. Total(f) = Cardinality(UNION T)
  BY <1>1 DEF Total
<1>6. Total(f) \in Nat /\ (Total(f) = 0 <=> UNION T = {})
  <2> HIDE DEF T
  <2> QED BY <1>4, <1>5, FS_CardinalityType, FS_EmptySet
<1>7. UNION T = {} <=> \A x \in S : ~(f[x] > 0)
  <2>1. ASSUME NEW x \in S, f[x] > 0 PROVE <<x, 1>> \in UNION T
    BY <2>1
  <2>2. ASSUME NEW y \in UNION T PROVE \E x \in S : f[x] > 0
    BY <2>2
  <2> HIDE DEF T
  <2> QED BY <2>1, <2>2
<1> QED BY <1>6, <1>7

\* Chunks of a channel have different numbers below the buffer's next one, so
\* there are finitely many.
LEMMA StoreIsFinite ==
  ASSUME TypeOK, OrderInv
  PROVE  IsFiniteSet(store)
<1> DEFINE Keys == [c \in Channel |-> {c} \X (0..sequence[c])]
           All == {Keys[c] : c \in Channel}
           key == [a \in store |-> <<a.chan, a.seq>>]
<1>1. IsFiniteSet(All)
  <2>1. Keys \in Surjection(Channel, All)
    BY DEF Surjection
  <2> HIDE DEF Keys, All
  <2> QED BY <2>1, FS_Surjection, ChannelAssumption
<1>2. ASSUME NEW c \in Channel PROVE IsFiniteSet(Keys[c])
  <2>1. IsFiniteSet({c}) /\ IsFiniteSet(0..sequence[c])
    <3>1. sequence[c] \in Int /\ 0 \in Int
      BY DEF TypeOK
    <3> QED BY <3>1, FS_Singleton, FS_Interval, Zenon
  <2> QED BY <2>1, FS_Product
<1>3. IsFiniteSet(UNION All)
  <2>1. \A U \in All : IsFiniteSet(U)
    BY <1>2
  <2> HIDE DEF All
  <2> QED BY <1>1, <2>1, FS_UNION
<1>4. key \in Injection(store, UNION All)
  <2>1. ASSUME NEW a \in store PROVE <<a.chan, a.seq>> \in UNION All
    <3>1. /\ a.chan \in Channel /\ a.seq \in Nat /\ sequence[a.chan] \in Nat
          /\ a.seq < sequence[a.chan]
      BY DEF TypeOK, Chunk, OrderInv, ChunksNumbered, Finalized, Settled
    <3>2. <<a.chan, a.seq>> \in Keys[a.chan]
      BY <3>1
    <3> QED BY <3>1, <3>2
  <2>2. \A a, b \in store : a.chan = b.chan /\ a.seq = b.seq => a = b
    BY DEF OrderInv, ReassemblyInOrder, Finalized, Settled
  <2>3. key \in [store -> UNION All]
    <3> HIDE DEF All
    <3> QED BY <2>1
  <2>4. \A a, b \in store : key[a] = key[b] => a = b
    BY <2>2
  <2> HIDE DEF All, key
  <2> QED BY <2>3, <2>4 DEF Injection, IsInjective
<1> HIDE DEF All, key
<1> QED BY <1>3, <1>4, FS_Injection

\* The stored chunks can be listed by sequence number.
LEMMA ListExists ==
  ASSUME TypeOK, OrderInv
  PROVE  GetChunks # {}
<1> DEFINE N == Cardinality(store)
<1>1. IsFiniteSet(store) /\ N \in Nat
  BY StoreIsFinite, FS_CardinalityType
<1>2. PICK f : f \in Bijection(1..N, store)
  BY <1>1, FS_CardinalityType DEF ExistsBijection
<1>3. /\ f \in [1..N -> store]
      /\ \A a \in store : \E i \in 1..N : f[i] = a
  BY <1>2 DEF Bijection, Surjection, Injection
<1>4. IsFiniteSet(1..N) /\ Cardinality(1..N) = N /\ 1..N \in SUBSET Nat
  BY <1>1, FS_Interval
<1>5. \A i \in 1..N : f[i].seq \in Nat
  <2>1. \A a \in store : a.seq \in Nat
    BY DEF TypeOK, Chunk
  <2> QED BY <1>3, <2>1
<1>6. PICK p : Places(f, 1..N, p)
  BY <1>4, <1>5, SortedPlaces
<1> DEFINE chunks == [n \in 1..N |-> f[p[n]]]
<1>7. p \in [1..N -> 1..N] /\ \A j \in 1..N : \E n \in 1..N : p[n] = j
  BY <1>4, <1>6 DEF Places
<1>8. chunks \in [1..N -> store]
  BY <1>3, <1>7
<1>9. Entries(chunks) = store
  BY <1>3, <1>7 DEF Entries
<1>10. ASSUME NEW i \in 1..N, NEW j \in 1..N, i < j PROVE chunks[i].seq <= chunks[j].seq
  <2>1. Precedes(f, p[i], p[j])
    BY <1>4, <1>6, <1>10 DEF Places
  <2>2. f[p[i]].seq \in Nat /\ f[p[j]].seq \in Nat
    BY <1>5, <1>7
  <2> QED BY <2>1, <2>2 DEF Precedes
<1>11. chunks \in GetChunks
  BY <1>8, <1>9, <1>10 DEF GetChunks
<1> QED BY <1>11

\* What the algorithms see of the list: every stored chunk once, and one
\* channel's chunks under different numbers.
LEMMA ListedOnce ==
  ASSUME TypeOK, OrderInv, NEW chunks \in GetChunks
  PROVE  /\ IsFiniteSet(DOMAIN chunks) /\ DOMAIN chunks \in SUBSET Nat
         /\ \A i \in DOMAIN chunks : chunks[i] \in store /\ chunks[i] \in Chunk
         /\ \A a \in store : \E i \in DOMAIN chunks : chunks[i] = a
         /\ \A i, j \in DOMAIN chunks :
              chunks[i].chan = chunks[j].chan /\ chunks[i].seq = chunks[j].seq => i = j
<1> DEFINE N == Cardinality(store)
<1>1. IsFiniteSet(store) /\ N \in Nat
  BY StoreIsFinite, FS_CardinalityType
<1>2. IsFiniteSet(1..N) /\ Cardinality(1..N) = N /\ 1..N \in SUBSET Nat
  BY <1>1, FS_Interval, SMTT(30)
<1>3. chunks \in [1..N -> store] /\ DOMAIN chunks = 1..N /\ Entries(chunks) = store
  BY DEF GetChunks
<1>4. chunks \in Surjection(1..N, store)
  BY <1>3 DEF Entries, Surjection
<1>5. chunks \in Injection(1..N, store)
  <2> HIDE DEF N
  <2> QED BY <1>1, <1>2, <1>4, FS_SurjSameCardinalityImpliesInj DEF N
<1>6. \A i, j \in 1..N : chunks[i] = chunks[j] => i = j
  BY <1>5 DEF Injection, IsInjective
<1>7. \A a, b \in store : a.chan = b.chan /\ a.seq = b.seq => a = b
  BY DEF OrderInv, ReassemblyInOrder, Finalized, Settled
<1>8. store \subseteq Chunk
  BY DEF TypeOK
<1> HIDE DEF N
<1> QED BY <1>2, <1>3, <1>6, <1>7, <1>8 DEF Entries

\* The two lists of a channel: the plan's, which drops duplicates, and the
\* download's, which does not, are one, sorted strictly.
Sorting(chunks, I, p) ==
  /\ Cardinality(I) \in Nat \ {0}
  /\ p \in [1..Cardinality(I) -> I]
  /\ \A j \in I : \E n \in 1..Cardinality(I) : p[n] = j
  /\ \A m, n \in 1..Cardinality(I) : m < n => chunks[p[m]].seq < chunks[p[n]].seq
  /\ Sorted(chunks, I) = [n \in 1..Cardinality(I) |-> chunks[p[n]]]

LEMMA ChannelList ==
  ASSUME TypeOK, OrderInv, NEW chunks \in GetChunks, NEW c \in ChannelsOf(chunks)
  PROVE  LET I == OfChannel(chunks, c) IN
         /\ I \in SUBSET Nat /\ IsFiniteSet(I) /\ I # {} /\ I \subseteq DOMAIN chunks
         /\ Seen(chunks, I) = I
         /\ Duplicates(chunks, I) = {}
         /\ \E p : Sorting(chunks, I, p)
<1> DEFINE I == OfChannel(chunks, c)
<1>1. I \subseteq DOMAIN chunks /\ I # {}
  BY DEF OfChannel, ChannelsOf
<1>2. I \in SUBSET Nat /\ IsFiniteSet(I)
  BY <1>1, ListedOnce, FS_Subset
<1>3. \A i \in I : chunks[i].seq \in Nat /\ i \in Nat
  BY <1>1, ListedOnce DEF Chunk
<1>4. \A i, j \in I : chunks[i].seq = chunks[j].seq => i = j
  BY ListedOnce DEF OfChannel
<1>5. Seen(chunks, I) = I
  <2> HIDE DEF I
  <2> QED BY <1>3, <1>4 DEF Seen
<1>6. Duplicates(chunks, I) = {}
  <2> HIDE DEF I
  <2> QED BY <1>3, <1>4 DEF Duplicates
<1>7. PICK p : Places(chunks, I, p)
  <2> HIDE DEF I
  <2> QED BY <1>2, <1>3, SortedPlaces
<1>8. Cardinality(I) \in Nat \ {0}
  <2> HIDE DEF I
  <2> QED BY <1>1, <1>2, FS_CardinalityType, FS_EmptySet
<1>9. ASSUME NEW m \in 1..Cardinality(I), NEW n \in 1..Cardinality(I), m < n
      PROVE  chunks[p[m]].seq < chunks[p[n]].seq
  <2> HIDE DEF I
  <2>1. Precedes(chunks, p[m], p[n]) /\ p[m] \in I /\ p[n] \in I
    BY <1>7, <1>9 DEF Places
  <2>2. p[m] = p[n] => ~Precedes(chunks, p[m], p[n])
    BY <1>3, <2>1 DEF Precedes
  <2> QED BY <1>3, <1>4, <2>1, <2>2 DEF Precedes
<1>10. Sorting(chunks, I, p)
  <2> HIDE DEF I
  <2> QED BY <1>7, <1>8, <1>9 DEF Places, Sorting
<1> QED BY <1>1, <1>2, <1>5, <1>6, <1>10

\* No number is missing exactly if there are as many chunks as numbers up to
\* the last one, and then the first is 0.
LEMMA CompleteWhenNoneMissing ==
  ASSUME NEW chunks, NEW I, NEW p, Sorting(chunks, I, p), \A i \in I : chunks[i].seq \in Nat
  PROVE  LET K == Cardinality(I)
             missing == Missing(Numbers(chunks, I))
         IN /\ missing = (0..chunks[p[K]].seq) \ Numbers(chunks, I)
            /\ missing = {} => chunks[p[1]].seq = 0
            /\ missing = {} <=> K = chunks[p[K]].seq + 1
<1> DEFINE K == Cardinality(I)
           L == chunks[p[K]].seq
           Ns == Numbers(chunks, I)
           f == [n \in 1..K |-> chunks[p[n]].seq]
<1>1. /\ K \in Nat \ {0}
      /\ \A n \in 1..K : p[n] \in I /\ chunks[p[n]].seq \in Nat
      /\ \A j \in I : \E n \in 1..K : p[n] = j
      /\ \A m, n \in 1..K : m < n => chunks[p[m]].seq < chunks[p[n]].seq
  BY DEF Sorting
<1> HIDE DEF K
<1>2. L \in Nat /\ L \in Ns /\ 1 \in 1..K /\ K \in 1..K
  BY <1>1 DEF Numbers
<1>3. \A k \in Ns : k \in Nat /\ \E n \in 1..K : k = chunks[p[n]].seq
  BY <1>1 DEF Numbers
<1>4. \A k \in Ns : k \in Nat /\ k <= L /\ chunks[p[1]].seq <= k
  <2>1. ASSUME NEW n \in 1..K PROVE chunks[p[n]].seq <= L /\ chunks[p[1]].seq <= chunks[p[n]].seq
    <3>1. n \in Nat /\ (n = K \/ n < K) /\ (n = 1 \/ 1 < n)
      BY <1>1
    <3> QED BY <1>1, <1>2, <3>1
  <2> QED BY <1>3, <2>1
<1>5. Missing(Ns) = (0..L) \ Ns
  <2> HIDE DEF L, Ns
  <2>1. ASSUME NEW k \in UNION {0..m : m \in Ns} PROVE k \in 0..L
    <3>1. PICK m \in Ns : k \in 0..m
      BY <2>1
    <3> QED BY <1>2, <1>4, <3>1
  <2>2. 0..L \subseteq UNION {0..m : m \in Ns}
    BY <1>2
  <2> QED BY <2>1, <2>2 DEF Missing
<1>6. Missing(Ns) = {} => chunks[p[1]].seq = 0
  <2>1. SUFFICES ASSUME Missing(Ns) = {} PROVE chunks[p[1]].seq = 0
    OBVIOUS
  <2>2. 0 \in Ns
    BY <1>2, <1>5, <2>1
  <2> QED BY <1>1, <1>2, <1>4, <2>2
<1>7. Cardinality(Ns) = K /\ IsFiniteSet(Ns)
  <2>1. IsFiniteSet(1..K) /\ Cardinality(1..K) = K
    BY <1>1, FS_Interval
  <2>2. f \in Surjection(1..K, Ns)
    <3>1. \A n \in 1..K : f[n] \in Ns
      BY <1>1 DEF Numbers
    <3> QED BY <1>3, <3>1 DEF Surjection
  <2>3. \A m, n \in 1..K : f[m] = f[n] => m = n
    BY <1>1
  <2>4. f \in Injection(1..K, Ns)
    <3> HIDE DEF f
    <3> QED BY <2>2, <2>3 DEF Surjection, Injection, IsInjective
  <2> HIDE DEF f, Ns
  <2> QED BY <2>1, <2>2, <2>4, FS_Surjection
<1>8. IsFiniteSet(0..L) /\ Cardinality(0..L) = L + 1 /\ Ns \in SUBSET (0..L)
  <2>1. L \in Int /\ 0 \in Int /\ ~(0 > L)
    BY <1>2
  <2>2. IsFiniteSet(0..L) /\ Cardinality(0..L) = L - 0 + 1
    <3> HIDE DEF L
    <3> QED BY <2>1, FS_Interval, Zenon
  <2> HIDE DEF L, Ns
  <2>3. L - 0 + 1 = L + 1
    BY <1>2
  <2>4. Ns \in SUBSET (0..L)
    BY <1>2, <1>4
  <2> QED BY <2>2, <2>3, <2>4
<1>9. Missing(Ns) = {} <=> K = L + 1
  <2>1. Missing(Ns) = {} <=> Ns = 0..L
    <3> HIDE DEF L, Ns
    <3> QED BY <1>5, <1>8
  <2>2. Ns = 0..L <=> Cardinality(Ns) = Cardinality(0..L)
    <3> HIDE DEF L, Ns
    <3> QED BY <1>8, FS_Subset
  <2> QED BY <1>7, <1>8, <2>1, <2>2
<1> QED BY <1>5, <1>6, <1>9 DEF K

\* What the plan and the download say of one channel.
ChannelExplained(chunks, c) ==
  LET channel == ReassembleChannel(chunks, OfChannel(chunks, c))
      audio == Reassemble(chunks)[c]
  IN /\ channel.missing \subseteq Sequences(reclaimed \cup dropped \cup discarded, c)
     /\ channel.duplicates = {}
     /\ channel.contiguous <=> channel.missing = {}
     /\ audio.complete <=> channel.missing = {}
     /\ audio.blob = channel.ordered
     /\ Entries(audio.blob) = {ch \in store : ch.chan = c}
     /\ \A i, j \in DOMAIN audio.blob : i < j =>
          \A m \in audio.blob[i].parts, n \in audio.blob[j].parts : m < n

LEMMA ChannelIsExplained ==
  ASSUME TypeOK, OrderInv, GapsHaveCause,
         NEW chunks \in GetChunks, NEW c \in ChannelsOf(chunks)
  PROVE  ChannelExplained(chunks, c)
<1> DEFINE I == OfChannel(chunks, c)
           K == Cardinality(I)
           S == Sorted(chunks, I)
           missing == Missing(Numbers(chunks, I))
           channel == ReassembleChannel(chunks, I)
           audio == Reassemble(chunks)[c]
<1>1. /\ I \subseteq DOMAIN chunks /\ Seen(chunks, I) = I /\ Duplicates(chunks, I) = {}
      /\ \E p : Sorting(chunks, I, p)
  BY ChannelList
<1>2. PICK p : Sorting(chunks, I, p)
  BY <1>1
<1>3. \A i \in I : chunks[i] \in store /\ chunks[i] \in Chunk /\ chunks[i].chan = c
  BY <1>1, ListedOnce DEF OfChannel
<1>4. \A i \in I : chunks[i].seq \in Nat
  BY <1>3 DEF Chunk
<1>5. /\ missing = (0..chunks[p[K]].seq) \ Numbers(chunks, I)
      /\ missing = {} => chunks[p[1]].seq = 0
      /\ missing = {} <=> K = chunks[p[K]].seq + 1
  <2> HIDE DEF I
  <2> QED BY <1>2, <1>4, CompleteWhenNoneMissing
<1>6. /\ channel.ordered = S /\ channel.missing = missing /\ channel.duplicates = {}
      /\ channel.contiguous <=> missing = {} /\ S # <<>> /\ S[1].seq = 0
  <2> HIDE DEF I
  <2> QED BY <1>1 DEF ReassembleChannel
<1>7. /\ audio.blob = S
      /\ audio.complete <=> Len(S) = S[Len(S)].seq + 1 /\ S[1].seq = 0
  BY DEF Reassemble
<1> HIDE DEF I, S, missing, channel, audio
<1>8. /\ K \in Nat \ {0} /\ S = [n \in 1..K |-> chunks[p[n]]]
      /\ \A n \in 1..K : p[n] \in I
      /\ \A j \in I : \E n \in 1..K : p[n] = j
      /\ \A m, n \in 1..K : m < n => chunks[p[m]].seq < chunks[p[n]].seq
  BY <1>2 DEF Sorting, S
<1> HIDE DEF K
<1>9. DOMAIN S = 1..K /\ Len(S) = K /\ 1 \in 1..K /\ K \in 1..K /\ S # <<>>
  <2>1. S \in [1..K -> Chunk]
    BY <1>3, <1>8
  <2>2. S \in Seq(Chunk) /\ Len(S) = K
    BY <1>8, <2>1
  <2> QED BY <1>8, <2>1, <2>2
<1>10. S[1] = chunks[p[1]] /\ S[K] = chunks[p[K]]
  BY <1>8, <1>9
<1>11. channel.contiguous <=> channel.missing = {}
  BY <1>5, <1>6, <1>9, <1>10
<1>12. audio.complete <=> channel.missing = {}
  BY <1>5, <1>6, <1>7, <1>9, <1>10
<1>13. Entries(audio.blob) = {ch \in store : ch.chan = c}
  <2>1. ASSUME NEW i \in DOMAIN S PROVE S[i] \in store /\ S[i].chan = c
    BY <1>3, <1>8, <1>9, <2>1
  <2>2. ASSUME NEW ch \in store, ch.chan = c PROVE \E i \in DOMAIN S : S[i] = ch
    <3>1. PICK j \in DOMAIN chunks : chunks[j] = ch
      BY ListedOnce
    <3>2. j \in I
      BY <2>2, <3>1 DEF I, OfChannel
    <3>3. PICK n \in 1..K : p[n] = j
      BY <1>8, <3>2
    <3> QED BY <1>8, <1>9, <3>1, <3>3
  <2> QED BY <1>7, <2>1, <2>2 DEF Entries
<1>14. ASSUME NEW i \in DOMAIN S, NEW j \in DOMAIN S, i < j,
              NEW m \in S[i].parts, NEW n \in S[j].parts
       PROVE  m < n
  <2>1. /\ S[i] = chunks[p[i]] /\ S[j] = chunks[p[j]]
        /\ S[i].seq < S[j].seq /\ S[i] \in store /\ S[j] \in store
        /\ S[i].chan = c /\ S[j].chan = c
    BY <1>3, <1>8, <1>9, <1>14
  <2> QED BY <1>14, <2>1 DEF OrderInv, ReassemblyInOrder, Finalized, Settled
<1>15. ASSUME NEW k \in missing
       PROVE  k \in Sequences(reclaimed \cup dropped \cup discarded, c)
  <2>1. PICK a \in store : a = chunks[p[K]] /\ a.chan = c /\ a.seq \in Nat
    BY <1>3, <1>4, <1>8, <1>9
  <2>2. k \in 0..a.seq /\ k \notin Numbers(chunks, I)
    BY <1>5, <1>15, <2>1 DEF missing
  <2>3. a.seq \in Numbers(chunks, I)
    BY <1>8, <1>9, <2>1 DEF Numbers
  <2>4. k \in Nat /\ k < a.seq
    BY <2>1, <2>2, <2>3
  <2>5. PICK b \in Settled : b.chan = c /\ b.seq = k
    BY <2>1, <2>4 DEF GapsHaveCause, Used, Settled
  <2>6. b \notin store
    <3>1. SUFFICES ASSUME b \in store PROVE FALSE
      OBVIOUS
    <3>2. PICK j \in DOMAIN chunks : chunks[j] = b
      BY <3>1, ListedOnce
    <3>3. j \in I
      BY <2>5, <3>2 DEF I, OfChannel
    <3> QED BY <2>2, <2>5, <3>2, <3>3 DEF Numbers
  <2> QED BY <2>5, <2>6 DEF Settled, Sequences
<1> QED BY <1>6, <1>7, <1>11, <1>12, <1>13, <1>14, <1>15
        DEF ChannelExplained, I, channel, audio

\* The bytes of a plan are those of every stored chunk: none of them is empty.
LEMMA PlanHasBytes ==
  ASSUME TypeOK, OrderInv, NEW chunks \in GetChunks
  PROVE  PlanReassembly(chunks).bytes > 0 <=> store # {}
<1> DEFINE C == ChannelsOf(chunks)
           list == [c \in C |-> Sorted(chunks, OfChannel(chunks, c))]
           bytes == [c \in C |-> TotalBytes(list[c])]
<1>1. \A a \in store : BytesOf(a) \in Nat /\ BytesOf(a) > 0
  <2>1. SUFFICES ASSUME NEW a \in store PROVE BytesOf(a) \in Nat /\ BytesOf(a) > 0
    OBVIOUS
  <2>2. a.parts # {} /\ a.parts \in SUBSET (1..captured[a.chan])
    BY DEF OrderInv, ChunksNumbered, SamplesExist, Finalized, Settled
  <2>3. captured[a.chan] \in Int /\ 1 \in Int
    BY DEF TypeOK, Chunk
  <2>4. IsFiniteSet(1..captured[a.chan])
    BY <2>3, FS_Interval, Zenon
  <2>5. IsFiniteSet(a.parts)
    BY <2>2, <2>4, FS_Subset
  <2> QED BY <2>2, <2>5, FS_CardinalityType, FS_EmptySet DEF BytesOf
<1>2. ASSUME NEW c \in C PROVE bytes[c] \in Nat /\ bytes[c] > 0
  <2> DEFINE I == OfChannel(chunks, c)
             K == Cardinality(I)
             g == [n \in 1..K |-> BytesOf(list[c][n])]
  <2>1. PICK p : Sorting(chunks, I, p)
    BY ChannelList
  <2>2. /\ K \in Nat \ {0} /\ list[c] = [n \in 1..K |-> chunks[p[n]]]
        /\ \A n \in 1..K : p[n] \in I
    BY <2>1 DEF Sorting
  <2>3. \A i \in I : chunks[i] \in store
    BY ListedOnce DEF OfChannel
  <2> HIDE DEF I, K
  <2>4. \A n \in 1..K : list[c][n] \in store
    BY <2>2, <2>3
  <2>5. g \in [1..K -> Nat] /\ \A n \in 1..K : g[n] > 0
    BY <1>1, <2>4
  <2>6. IsFiniteSet(1..K)
    <3>1. K \in Int /\ 1 \in Int
      BY <2>2
    <3> QED BY <3>1, FS_Interval, Zenon
  <2>7. Total(g) \in Nat /\ Total(g) > 0
    <3>1. 1 \in 1..K
      BY <2>2
    <3> HIDE DEF g
    <3> QED BY <2>5, <2>6, <3>1, TotalIsPositive
  <2>8. TotalBytes(list[c]) = Total(g)
    <3>1. DOMAIN list[c] = 1..K
      BY <2>2
    <3> HIDE DEF list
    <3> QED BY <3>1 DEF TotalBytes
  <2> QED BY <2>7, <2>8
<1>3. IsFiniteSet(C)
  <2>1. IsFiniteSet(DOMAIN chunks)
    BY ListedOnce
  <2>2. [i \in DOMAIN chunks |-> chunks[i].chan] \in Surjection(DOMAIN chunks, C)
    BY DEF Surjection, ChannelsOf
  <2> HIDE DEF C
  <2> QED BY <2>1, <2>2, FS_Surjection
<1>4. C # {} <=> store # {}
  BY ListedOnce DEF ChannelsOf
<1>5. PlanReassembly(chunks).bytes = Total(bytes)
  <2>1. ASSUME NEW c \in C
        PROVE  ReassembleChannel(chunks, OfChannel(chunks, c)).bytes = bytes[c]
    <3>1. Seen(chunks, OfChannel(chunks, c)) = OfChannel(chunks, c)
      BY ChannelList
    <3> QED BY <3>1 DEF ReassembleChannel
  <2>2. [c \in C |-> ReassembleChannel(chunks, OfChannel(chunks, c)).bytes] = bytes
    BY <2>1
  <2> HIDE DEF C, bytes
  <2> QED BY <2>2 DEF PlanReassembly, C
<1>6. Total(bytes) > 0 <=> C # {}
  <2>1. bytes \in [C -> Nat] /\ \A c \in C : bytes[c] > 0
    BY <1>2
  <2> HIDE DEF C, bytes
  <2> QED BY <1>3, <2>1, TotalIsPositive
<1> QED BY <1>4, <1>5, <1>6

LEMMA ListIsExplained ==
  ASSUME TypeOK, OrderInv, GapsHaveCause, NEW chunks \in GetChunks
  PROVE  Explained(chunks)
<1> DEFINE plan == PlanReassembly(chunks)
           audio == Reassemble(chunks)
<1>1. plan.bytes > 0 <=> store # {}
  BY PlanHasBytes
<1>2. /\ DOMAIN audio = ChannelsOf(chunks) /\ DOMAIN plan.channels = ChannelsOf(chunks)
      /\ \A c \in ChannelsOf(chunks) :
           plan.channels[c] = ReassembleChannel(chunks, OfChannel(chunks, c))
  BY DEF PlanReassembly, Reassemble
<1>3. \A c \in ChannelsOf(chunks) : ChannelExplained(chunks, c)
  BY ChannelIsExplained
<1> HIDE DEF plan, audio
<1>4. ASSUME NEW c \in DOMAIN audio
      PROVE  LET channel == plan.channels[c] IN
             /\ channel.missing \subseteq Sequences(reclaimed \cup dropped \cup discarded, c)
             /\ channel.duplicates = {}
             /\ channel.contiguous <=> channel.missing = {}
             /\ audio[c].complete <=> channel.missing = {}
             /\ audio[c].blob = channel.ordered
             /\ Entries(audio[c].blob) = {ch \in store : ch.chan = c}
             /\ \A i, j \in DOMAIN audio[c].blob : i < j =>
                  \A m \in audio[c].blob[i].parts, n \in audio[c].blob[j].parts : m < n
  <2>1. ChannelExplained(chunks, c)
    BY <1>2, <1>3
  <2> QED BY <1>2, <2>1 DEF ChannelExplained, audio
<1> QED BY <1>1, <1>2, <1>4 DEF Explained, plan, audio

\* Whatever page looks whenever: the banner shows a gap only where a chunk was
\* uploaded, discarded or could not be written, the plan and the download
\* agree on what is complete, and the download plays every stored chunk once
\* in the order it was recorded.
THEOREM RecoveryExplainsGaps == Spec => []GapsAreExplained
<1>1. TypeOK /\ OrderInv /\ GapsHaveCause => GapsAreExplained
  BY ListExists, ListIsExplained DEF GapsAreExplained
<1> QED BY <1>1, TypeCorrect, OrderHolds, GapsAreNoLoss, PTL

\* The whole inductive invariant of the engine.
THEOREM InductiveInvHolds == Spec => []InductiveInv
<1>1. CASE OtherTab = FALSE
  <2>1. TypeOK /\ ChannelInv /\ OrderInv /\ AudioAccounted /\ HandOverInv /\ OfferInv
          => InductiveInv
    BY DEF InductiveInv
  <2>2. Spec => []OfferInv
    BY <1>1, OffersHold
  <2> QED BY <2>1, <2>2, TypeCorrect, ChannelsInStep, OrderHolds, NoAudioVanishes,
             HandOverHolds, PTL
<1>2. CASE OtherTab = TRUE
  <2>1. TypeOK /\ ChannelInv /\ OrderInv /\ AudioAccounted /\ HandOverInv => InductiveInv
    BY <1>2 DEF InductiveInv
  <2> QED BY <2>1, TypeCorrect, ChannelsInStep, OrderHolds, NoAudioVanishes,
             HandOverHolds, PTL
<1> QED BY <1>1, <1>2, SwitchAssumption

=============================================================================
