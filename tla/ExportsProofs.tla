--------------------------- MODULE ExportsProofs ---------------------------
(***************************************************************************)
(* Why an export that is sent is whole, however the recording changes      *)
(* while it is put together: the audio it had when it was asked for is     *)
(* still committed as long as the recording exists, and once it does not,  *)
(* no channel can be read any more.  Why the blocks of the viewer are the  *)
(* turns of the text, and why captions and the PDF are read as the text    *)
(* they are made of: what the code does to a list is proved with the least *)
(* number at which it would go wrong.                                      *)
(***************************************************************************)
EXTENDS Exports, TLAPS, SequenceTheorems, FiniteSetTheorems, WellFoundedInduction

Stored == {Diarized(segs) : segs \in Raw}
AudioKinds == {"webm", "flac", "wav", "zip"}

\* What may be left to do of each kind of export.
Left ==
  [webm |-> {<<"list", "audio">>, <<"audio">>, <<>>},
   flac |-> {<<"list", "audio", "ffmpeg">>, <<"audio", "ffmpeg">>, <<"ffmpeg">>, <<>>},
   wav |-> {<<"chunks", "blobs">>, <<"blobs">>, <<>>},
   txt |-> {<<"completed">>, <<>>}, vtt |-> {<<"completed">>, <<>>},
   srt |-> {<<"completed">>, <<>>}, words |-> {<<"completed">>, <<>>},
   md |-> {<<"summary", "text">>, <<"text">>, <<>>},
   pdf |-> {<<"summary", "text">>, <<"text">>, <<>>},
   zip |-> {<<"list", "audio", "text", "summary">>, <<"audio", "text", "summary">>,
            <<"text", "summary">>, <<"summary">>, <<>>}]

Kinds == {"webm", "flac", "wav", "txt", "vtt", "srt", "words", "md", "pdf", "zip"}
Todos == UNION {Left[kind] : kind \in Kinds}

ExportTypes ==
  [kind : Kinds \cup {"none"}, todo : Todos, had : [Channel -> Nat],
   channels : SUBSET Channel, audio : [Channel -> Nat], heard : Nat,
   text : SUBSET Stored, summary : SUBSET Stored,
   result : {"none", "underway", "failed", "sent"}]

ExportsTypeOK ==
  /\ status \in {"none", "queued", "processing", "completed", "failed", "deleted"}
  /\ text \in SUBSET Stored /\ summary \in SUBSET Stored /\ runs \in Nat
  /\ chunks \in [Channel -> Nat]
  /\ export \in ExportTypes

TodoInv == Underway => export.kind \in Kinds /\ export.todo \in Left[export.kind]

Listing == export.todo # <<>> /\ Head(export.todo) \in {"list", "chunks"}
Gathering == export.todo # <<>> /\ Head(export.todo) = "audio"

\* Rows of chunks only go with the recording.
RowsInv ==
  /\ ~Exists => chunks = Nothing
  /\ Underway /\ Exists => \A c \in Channel : chunks[c] >= export.had[c]
  /\ status = "completed" => text # {}

\* The audio that was gathered so far, and the channels to be gathered.
Gathered ==
  /\ \A c \in export.channels :
       /\ export.audio[c] > 0 => export.audio[c] >= export.had[c]
       /\ export.audio[c] > 0 \/ Gathering
  /\ export.kind # "zip" => \E c \in Channel : export.channels = {c}
  /\ export.kind = "zip" /\ Exists =>
       \A c \in Channel : export.had[c] > 0 => c \in export.channels

GatherInv ==
  Underway /\ export.kind \in AudioKinds => IF Listing THEN export.audio = Nothing ELSE Gathered

\* A file made of a completed text has one.
TextKinds == {"txt", "vtt", "srt", "words"}
SentHasText == Sent(TextKinds) => export.text # {}
TextInv == SentHasText /\ (Underway /\ export.kind \in TextKinds /\ export.todo = <<>> => export.text # {})

AllInv == ExportsTypeOK /\ TodoInv /\ RowsInv /\ GatherInv /\ TextInv /\ ExportsAreWhole

-----------------------------------------------------------------------------
(* The plans.                                                              *)

LEMMA LeftOf ==
  /\ Left["webm"] = {<<"list", "audio">>, <<"audio">>, <<>>}
  /\ Left["flac"] = {<<"list", "audio", "ffmpeg">>, <<"audio", "ffmpeg">>, <<"ffmpeg">>, <<>>}
  /\ Left["wav"] = {<<"chunks", "blobs">>, <<"blobs">>, <<>>}
  /\ \A kind \in TextKinds : Left[kind] = {<<"completed">>, <<>>}
  /\ Left["md"] = {<<"summary", "text">>, <<"text">>, <<>>}
  /\ Left["pdf"] = {<<"summary", "text">>, <<"text">>, <<>>}
  /\ Left["zip"] = {<<"list", "audio", "text", "summary">>, <<"audio", "text", "summary">>,
                    <<"text", "summary">>, <<"summary">>, <<>>}
BY DEF Left, TextKinds

LEMMA StepsOf ==
  /\ \A a : Head(<<a>>) = a /\ Tail(<<a>>) = <<>> /\ <<a>> # <<>>
  /\ \A a, b : Head(<<a, b>>) = a /\ Tail(<<a, b>>) = <<b>> /\ <<a, b>> # <<>>
  /\ \A a, b, c : Head(<<a, b, c>>) = a /\ Tail(<<a, b, c>>) = <<b, c>> /\ <<a, b, c>> # <<>>
  /\ \A a, b, c, d : Head(<<a, b, c, d>>) = a /\ Tail(<<a, b, c, d>>) = <<b, c, d>> /\ <<a, b, c, d>> # <<>>
OBVIOUS

\* A plan that has lost its first step is a plan, and gathers audio only
\* right after the channels were listed.
LEMMA RestOf ==
  ASSUME NEW kind \in Kinds, NEW todo \in Left[kind], todo # <<>>
  PROVE  /\ Tail(todo) \in Left[kind]
         /\ Head(todo) = "list" => Tail(todo) # <<>> /\ Head(Tail(todo)) = "audio"
         /\ Head(todo) # "list" /\ Tail(todo) # <<>> => Head(Tail(todo)) # "audio"
         /\ Tail(todo) # <<>> => Head(Tail(todo)) \notin {"list", "chunks"}
         /\ Head(todo) = "chunks" => kind = "wav"
         /\ Head(todo) = "list" => kind # "wav"
         /\ kind \in TextKinds => Head(todo) = "completed"
<1>1. CASE kind = "webm"
  <2>0. todo = <<"list", "audio">> \/ todo = <<"audio">>
    BY <1>1, LeftOf
  <2>1. CASE todo = <<"list", "audio">>
    <3>1. Head(todo) = "list" /\ Tail(todo) = <<"audio">> /\ Tail(todo) # <<>> /\ Head(Tail(todo)) = "audio"
      BY <2>1, StepsOf
    <3> QED BY <1>1, <3>1, LeftOf DEF TextKinds
  <2>2. CASE todo = <<"audio">>
    <3>1. Head(todo) = "audio" /\ Tail(todo) = <<>>
      BY <2>2, StepsOf
    <3> QED BY <1>1, <3>1, LeftOf DEF TextKinds
  <2> QED BY <2>0, <2>1, <2>2
<1>2. CASE kind = "flac"
  <2>0. todo = <<"list", "audio", "ffmpeg">> \/ todo = <<"audio", "ffmpeg">> \/ todo = <<"ffmpeg">>
    BY <1>2, LeftOf
  <2>1. CASE todo = <<"list", "audio", "ffmpeg">>
    <3>1. Head(todo) = "list" /\ Tail(todo) = <<"audio", "ffmpeg">> /\ Tail(todo) # <<>> /\ Head(Tail(todo)) = "audio"
      BY <2>1, StepsOf
    <3> QED BY <1>2, <3>1, LeftOf DEF TextKinds
  <2>2. CASE todo = <<"audio", "ffmpeg">>
    <3>1. Head(todo) = "audio" /\ Tail(todo) = <<"ffmpeg">> /\ Tail(todo) # <<>> /\ Head(Tail(todo)) = "ffmpeg"
      BY <2>2, StepsOf
    <3> QED BY <1>2, <3>1, LeftOf DEF TextKinds
  <2>3. CASE todo = <<"ffmpeg">>
    <3>1. Head(todo) = "ffmpeg" /\ Tail(todo) = <<>>
      BY <2>3, StepsOf
    <3> QED BY <1>2, <3>1, LeftOf DEF TextKinds
  <2> QED BY <2>0, <2>1, <2>2, <2>3
<1>3. CASE kind = "wav"
  <2>0. todo = <<"chunks", "blobs">> \/ todo = <<"blobs">>
    BY <1>3, LeftOf
  <2>1. CASE todo = <<"chunks", "blobs">>
    <3>1. Head(todo) = "chunks" /\ Tail(todo) = <<"blobs">> /\ Tail(todo) # <<>> /\ Head(Tail(todo)) = "blobs"
      BY <2>1, StepsOf
    <3> QED BY <1>3, <3>1, LeftOf DEF TextKinds
  <2>2. CASE todo = <<"blobs">>
    <3>1. Head(todo) = "blobs" /\ Tail(todo) = <<>>
      BY <2>2, StepsOf
    <3> QED BY <1>3, <3>1, LeftOf DEF TextKinds
  <2> QED BY <2>0, <2>1, <2>2
<1>4. CASE kind \in TextKinds
  <2>0. todo = <<"completed">>
    BY <1>4, LeftOf
  <2>1. CASE todo = <<"completed">>
    <3>1. Head(todo) = "completed" /\ Tail(todo) = <<>>
      BY <2>1, StepsOf
    <3> QED BY <1>4, <3>1, LeftOf DEF TextKinds
  <2> QED BY <2>0, <2>1
<1>5. CASE kind \in {"md", "pdf"}
  <2>0. todo = <<"summary", "text">> \/ todo = <<"text">>
    BY <1>5, LeftOf
  <2>1. CASE todo = <<"summary", "text">>
    <3>1. Head(todo) = "summary" /\ Tail(todo) = <<"text">> /\ Tail(todo) # <<>> /\ Head(Tail(todo)) = "text"
      BY <2>1, StepsOf
    <3> QED BY <1>5, <3>1, LeftOf DEF TextKinds
  <2>2. CASE todo = <<"text">>
    <3>1. Head(todo) = "text" /\ Tail(todo) = <<>>
      BY <2>2, StepsOf
    <3> QED BY <1>5, <3>1, LeftOf DEF TextKinds
  <2> QED BY <2>0, <2>1, <2>2
<1>6. CASE kind = "zip"
  <2>0. todo = <<"list", "audio", "text", "summary">> \/ todo = <<"audio", "text", "summary">> \/ todo = <<"text", "summary">> \/ todo = <<"summary">>
    BY <1>6, LeftOf
  <2>1. CASE todo = <<"list", "audio", "text", "summary">>
    <3>1. Head(todo) = "list" /\ Tail(todo) = <<"audio", "text", "summary">> /\ Tail(todo) # <<>> /\ Head(Tail(todo)) = "audio"
      BY <2>1, StepsOf
    <3> QED BY <1>6, <3>1, LeftOf DEF TextKinds
  <2>2. CASE todo = <<"audio", "text", "summary">>
    <3>1. Head(todo) = "audio" /\ Tail(todo) = <<"text", "summary">> /\ Tail(todo) # <<>> /\ Head(Tail(todo)) = "text"
      BY <2>2, StepsOf
    <3> QED BY <1>6, <3>1, LeftOf DEF TextKinds
  <2>3. CASE todo = <<"text", "summary">>
    <3>1. Head(todo) = "text" /\ Tail(todo) = <<"summary">> /\ Tail(todo) # <<>> /\ Head(Tail(todo)) = "summary"
      BY <2>3, StepsOf
    <3> QED BY <1>6, <3>1, LeftOf DEF TextKinds
  <2>4. CASE todo = <<"summary">>
    <3>1. Head(todo) = "summary" /\ Tail(todo) = <<>>
      BY <2>4, StepsOf
    <3> QED BY <1>6, <3>1, LeftOf DEF TextKinds
  <2> QED BY <2>0, <2>1, <2>2, <2>3, <2>4
<1> QED BY <1>1, <1>2, <1>3, <1>4, <1>5, <1>6 DEF Kinds, TextKinds

LEMMA ReadsAreLeft ==
  ASSUME NEW kind \in Kinds
  PROVE  /\ Reads[kind] \in Left[kind] /\ <<>> \in Left[kind] /\ Left[kind] \subseteq Todos
         /\ kind \in AudioKinds => Reads[kind] # <<>> /\ Head(Reads[kind]) \in {"list", "chunks"}
         /\ kind \in TextKinds => Reads[kind] # <<>>
<1>1. Reads[kind] \in Left[kind] /\ <<>> \in Left[kind]
  BY DEF Reads, Left, Kinds
<1>2. Left[kind] \subseteq Todos
  BY DEF Todos
<1>3. kind \in AudioKinds => Reads[kind] # <<>> /\ Head(Reads[kind]) \in {"list", "chunks"}
  BY DEF AudioKinds, Reads
<1>4. kind \in TextKinds => Reads[kind] # <<>>
  BY DEF TextKinds, Reads
<1> QED BY <1>1, <1>2, <1>3, <1>4

LEMMA KindsRead == DOMAIN Reads = Kinds
BY DEF Reads, Kinds

\* One channel is picked, of those that there are.
LEMMA PickedOne ==
  ASSUME NEW channels \in SUBSET Channel, NEW asked \in {{}} \cup {{c} : c \in Channel},
         NEW picked \in PickPreferredChannel(channels, asked)
  PROVE  \E c \in channels : picked = {c}
BY DEF PickPreferredChannel

-----------------------------------------------------------------------------
(* The steps.                                                              *)

LEMMA Empties == Nothing \in [Channel -> Nat] /\ \A c \in Channel : Nothing[c] = 0
BY DEF Nothing

LEMMA InitAll == Init => AllInv
<1> SUFFICES ASSUME Init PROVE AllInv
  OBVIOUS
<1>1. <<>> \in Todos
  BY ReadsAreLeft DEF Todos, Kinds
<1>2. NoExport \in ExportTypes /\ export = NoExport /\ NoExport.result = "none"
  BY <1>1, Empties DEF NoExport, ExportTypes, Init
<1>3. ExportsTypeOK
  BY <1>2, Empties DEF Init, Row!TInit, ExportsTypeOK
<1>4. TodoInv /\ RowsInv /\ GatherInv /\ TextInv /\ ExportsAreWhole
  BY <1>2 DEF Init, Row!TInit, TodoInv, RowsInv, GatherInv, TextInv, SentHasText, ExportsAreWhole,
              Sent, Underway
<1> QED BY <1>3, <1>4 DEF AllInv

\* A step of the rest of the system leaves the export alone: chunks are added
\* until the recording goes, which is for good.
LEMMA RestSteps ==
  ASSUME AllInv, export' = export, ExportsTypeOK', Exists' => Exists,
         Exists' => \A c \in Channel : chunks'[c] >= chunks[c],
         ~Exists' => chunks' = Nothing, status' = "completed" => text' # {}
  PROVE  AllInv'
<1>0. /\ \A c \in Channel : chunks[c] \in Nat /\ chunks'[c] \in Nat /\ export.had[c] \in Nat
      /\ Underway' = Underway /\ Listing' = Listing /\ (Gathering' <=> Gathering)
  BY DEF AllInv, ExportsTypeOK, ExportTypes, Underway, Listing, Gathering
<1>1. TodoInv' /\ TextInv'
  BY DEF AllInv, TodoInv, TextInv, SentHasText, Sent, Underway
<1>2. RowsInv'
  BY <1>0 DEF AllInv, RowsInv
<1>3. Gathered => Gathered'
  BY <1>0 DEF Gathered
<1>4. GatherInv'
  BY <1>0, <1>3 DEF AllInv, GatherInv
<1>5. ExportsAreWhole'
  BY DEF AllInv, ExportsAreWhole, Sent
<1> QED BY <1>1, <1>2, <1>4, <1>5 DEF AllInv

LEMMA StepRest ==
  ASSUME AllInv,
         (\E c \in Channel : Commit(c)) \/ Requested \/ RunEnds \/ Summarized \/ Deleted
  PROVE  AllInv'
<1>0. ExportsTypeOK /\ RowsInv /\ chunks \in [Channel -> Nat] /\ \A c \in Channel : chunks[c] \in Nat
  BY DEF AllInv, ExportsTypeOK
<1>1. ASSUME NEW c \in Channel, Commit(c) PROVE AllInv'
  <2>1. chunks' = [chunks EXCEPT ![c] = chunks[c] + 1] /\ Exists /\ chunks[c] + 1 \in Nat
    BY <1>0, <1>1 DEF Commit
  <2>2. chunks' \in [Channel -> Nat] /\ \A d \in Channel : chunks'[d] >= chunks[d]
    BY <1>0, <2>1
  <2>3. UNCHANGED <<status, text, summary, runs, export>>
    BY <1>1 DEF Commit
  <2>4. ExportsTypeOK'
    BY <1>0, <2>2, <2>3 DEF ExportsTypeOK
  <2> QED BY <1>0, <2>1, <2>2, <2>3, <2>4, RestSteps DEF Exists, RowsInv
<1>2. CASE Requested
  <2>1. /\ UNCHANGED <<text, summary, chunks, export>> /\ runs' = runs + 1
        /\ status # "deleted" /\ status' = "queued"
    BY <1>2 DEF Requested, Row!Requested
  <2>2. ExportsTypeOK'
    BY <1>0, <2>1 DEF ExportsTypeOK
  <2> QED BY <1>0, <2>1, <2>2, RestSteps DEF Exists
<1>3. CASE RunEnds
  <2>1. /\ UNCHANGED <<summary, runs, chunks, export>> /\ status = "queued"
        /\ \/ status' = "completed" /\ \E t \in Stored : text' = {t}
           \/ status' = "failed" /\ text' = text
    BY <1>3 DEF RunEnds, Row!Completed, Row!Failed, Stored
  <2>2. ExportsTypeOK'
    BY <1>0, <2>1 DEF ExportsTypeOK
  <2>3. Exists /\ Exists' /\ (status' = "completed" => text' # {})
    BY <2>1 DEF Exists
  <2> QED BY <1>0, <2>1, <2>2, <2>3, RestSteps
<1>4. CASE Summarized
  <2>1. UNCHANGED <<status, text, runs, chunks, export>> /\ summary' = text
    BY <1>4 DEF Summarized
  <2>2. ExportsTypeOK'
    BY <1>0, <2>1 DEF ExportsTypeOK
  <2> QED BY <1>0, <2>1, <2>2, RestSteps DEF Exists, RowsInv
<1>5. CASE Deleted
  <2>1. /\ UNCHANGED <<runs, export>> /\ status' = "deleted" /\ text' = {} /\ summary' = {}
        /\ chunks' = Nothing
    BY <1>5 DEF Deleted, Row!Deleted
  <2>2. ExportsTypeOK'
    BY <1>0, <2>1, Empties DEF ExportsTypeOK
  <2> QED BY <2>1, <2>2, RestSteps DEF Exists
<1> QED BY <1>1, <1>2, <1>3, <1>4, <1>5

\* A step of the export leaves the rows alone.
LEMMA RowsKept ==
  ASSUME AllInv, UNCHANGED rowVars, export' \in ExportTypes,
         Underway' => export'.had = export.had /\ Underway
  PROVE  ExportsTypeOK' /\ RowsInv'
BY DEF AllInv, ExportsTypeOK, RowsInv, rowVars, Exists

LEMMA StepFails == ASSUME AllInv, UNCHANGED rowVars, export' = Failed PROVE AllInv'
<1>1. export \in ExportTypes /\ <<>> \in Todos
  BY ReadsAreLeft DEF Todos, Kinds, AllInv, ExportsTypeOK
<1>2. export' \in ExportTypes /\ export'.result = "failed"
  BY <1>1 DEF Failed, ExportTypes
<1>3. ExportsTypeOK' /\ RowsInv'
  BY <1>2, RowsKept DEF Underway
<1>4. TodoInv' /\ GatherInv' /\ TextInv' /\ ExportsAreWhole'
  BY <1>2 DEF TodoInv, GatherInv, TextInv, SentHasText, ExportsAreWhole, Sent, Underway
<1> QED BY <1>3, <1>4 DEF AllInv

\* A read is done and the next is to come.
LEMMA NextRead ==
  ASSUME AllInv, UNCHANGED rowVars, export' \in ExportTypes, Underway, export.todo # <<>>,
         export'.kind = export.kind, export'.had = export.had, export'.result = export.result,
         export'.todo = Tail(export.todo),
         export.kind \in AudioKinds => Gathered',
         export.kind \in TextKinds /\ Head(export.todo) = "completed" => export'.text # {}
  PROVE  AllInv'
<1>1. ExportsTypeOK' /\ RowsInv' /\ Underway'
  BY RowsKept DEF Underway
<1>2. export.kind \in Kinds /\ export.todo \in Left[export.kind]
  BY DEF AllInv, TodoInv
<1>3. /\ Tail(export.todo) \in Left[export.kind]
      /\ Tail(export.todo) # <<>> => Head(Tail(export.todo)) \notin {"list", "chunks"}
      /\ export.kind \in TextKinds => Head(export.todo) = "completed"
  BY <1>2, RestOf
<1>4. TodoInv' /\ ~Listing'
  BY <1>2, <1>3 DEF TodoInv, Listing
<1>5. GatherInv' /\ TextInv' /\ ExportsAreWhole'
  BY <1>1, <1>3, <1>4 DEF GatherInv, TextInv, SentHasText, ExportsAreWhole, Sent, Underway
<1> QED BY <1>1, <1>4, <1>5 DEF AllInv

\* The reads that add no audio, after it was gathered.
LEMMA StepReads ==
  ASSUME AllInv, Transcode \/ FetchBlobs \/ ReadCompleted \/ ReadText \/ ReadSummary
  PROVE  AllInv'
<1>0. UNCHANGED rowVars
  BY DEF Transcode, FetchBlobs, ReadCompleted, ReadText, ReadSummary
<1>1. CASE export' = Failed
  BY <1>0, <1>1, StepFails
<1>2. CASE export' # Failed
  <2>0. /\ export \in ExportTypes /\ text \in SUBSET Stored /\ summary \in SUBSET Stored
    BY DEF AllInv, ExportsTypeOK
  <2>1. /\ Underway /\ export.todo # <<>>
        /\ Head(export.todo) \in {"ffmpeg", "blobs", "completed", "text", "summary"}
        /\ \/ export' = [export EXCEPT !.todo = Tail(export.todo)] /\ Head(export.todo) # "completed"
           \/ (\E n \in Nat : export' = [export EXCEPT !.todo = Tail(export.todo), !.heard = n])
              /\ Head(export.todo) # "completed"
           \/ export' = [export EXCEPT !.todo = Tail(export.todo), !.text = text]
              /\ (Head(export.todo) = "completed" => Completed)
           \/ export' = [export EXCEPT !.todo = Tail(export.todo), !.summary = summary]
              /\ Head(export.todo) # "completed"
    <3>1. ASSUME Transcode
          PROVE  /\ Underway /\ export.todo # <<>> /\ Head(export.todo) = "ffmpeg"
                 /\ \E n \in Nat : export' = [export EXCEPT !.todo = Tail(export.todo), !.heard = n]
      <4>1. PICK m, n : n \in 1..m /\ export' = [export EXCEPT !.todo = Tail(export.todo), !.heard = n]
        BY <1>2, <3>1 DEF Transcode, Rest, Decoded, Inputs
      <4>2. n \in Nat
        BY <4>1
      <4> QED BY <3>1, <4>1, <4>2 DEF Transcode, Reading
    <3>2. CASE Transcode
      BY <3>1, <3>2
    <3>3. CASE FetchBlobs \/ ReadCompleted \/ ReadText \/ ReadSummary
      BY <1>2, <3>3 DEF FetchBlobs, ReadCompleted, ReadText, ReadSummary, Reading, Rest
    <3> QED BY <3>2, <3>3
  <2>2. export.kind \in Kinds /\ export.todo \in Left[export.kind]
    BY <2>1 DEF AllInv, TodoInv
  <2>3. /\ Tail(export.todo) \in Todos
        /\ Tail(export.todo) # <<>> => Head(Tail(export.todo)) # "audio"
    BY <2>1, <2>2, RestOf, ReadsAreLeft
  <2>4. /\ export' \in ExportTypes /\ export'.kind = export.kind /\ export'.had = export.had
        /\ export'.result = export.result /\ export'.todo = Tail(export.todo)
        /\ export'.channels = export.channels /\ export'.audio = export.audio
    BY <2>0, <2>1, <2>3 DEF ExportTypes
  <2>5. Head(export.todo) = "completed" => export'.text # {}
    BY <2>0, <2>1 DEF Completed, AllInv, RowsInv, ExportTypes
  <2>6. ~Listing /\ ~Gathering
    BY <2>1 DEF Listing, Gathering
  <2>7. export.kind \in AudioKinds => Gathered'
    BY <1>0, <2>1, <2>4, <2>6 DEF AllInv, GatherInv, Gathered, rowVars, Exists
  <2> QED BY <1>0, <2>1, <2>4, <2>5, <2>7, NextRead
<1> QED BY <1>1, <1>2

\* The channels are listed: the one of the export, or every one with a chunk,
\* and a recording that exists has kept all it had.
LEMMA StepLists == ASSUME AllInv, ListChannels PROVE AllInv'
<1>0. /\ UNCHANGED rowVars /\ Underway /\ export.todo # <<>> /\ Head(export.todo) = "list"
      /\ export \in ExportTypes /\ Listed \in SUBSET Channel
  BY DEF ListChannels, Reading, AllInv, ExportsTypeOK, Listed
<1>1. CASE export' = Failed
  BY <1>0, <1>1, StepFails
<1>2. CASE export' # Failed
  <2>1. PICK chosen \in SUBSET Listed :
          /\ export' = [export EXCEPT !.todo = Tail(export.todo), !.channels = chosen]
          /\ export.kind = "zip" => chosen = Listed
          /\ export.kind # "zip" => \E c \in Listed : chosen = {c}
    <3>1. CASE export.kind = "zip"
      BY <3>1 DEF ListChannels, Rest
    <3>2. CASE export.kind # "zip"
      <4>1. PICK asked \in {{}} \cup {{c} : c \in Channel} :
              \E picked \in PickPreferredChannel(Listed, asked) :
                export' = [export EXCEPT !.todo = Tail(export.todo), !.channels = picked]
        BY <1>2, <3>2 DEF ListChannels, Rest
      <4>2. PICK picked \in PickPreferredChannel(Listed, asked) :
              export' = [export EXCEPT !.todo = Tail(export.todo), !.channels = picked]
        BY <4>1
      <4>3. \E c \in Listed : picked = {c}
        <5> DEFINE asks == {{}} \cup {{c} : c \in Channel}
        <5>1. asked \in asks /\ picked \in PickPreferredChannel(Listed, asked) /\ Listed \in SUBSET Channel
          BY <1>0
        <5> HIDE DEF asks
        <5> QED BY <5>1, PickedOne DEF asks
      <4> QED BY <3>2, <4>2, <4>3
    <3> QED BY <3>1, <3>2
  <2>2. export.kind \in Kinds /\ export.todo \in Left[export.kind]
    BY <1>0 DEF AllInv, TodoInv
  <2>3. /\ Tail(export.todo) \in Todos /\ Tail(export.todo) # <<>>
        /\ Head(Tail(export.todo)) = "audio"
    BY <1>0, <2>2, RestOf, ReadsAreLeft
  <2>4. /\ export' \in ExportTypes /\ export'.kind = export.kind /\ export'.had = export.had
        /\ export'.result = export.result /\ export'.todo = Tail(export.todo)
        /\ export'.channels = chosen /\ export'.audio = export.audio
    BY <1>0, <2>1, <2>3 DEF ExportTypes
  <2>5. Gathering' /\ Listing
    BY <1>0, <2>3, <2>4 DEF Gathering, Listing
  <2>6. ASSUME export.kind \in AudioKinds PROVE Gathered'
    <3>1. \A c \in Channel : export.audio[c] = 0
      BY <1>0, <2>5, <2>6, Empties DEF AllInv, GatherInv
    <3>2. \A c \in export'.channels : export'.audio[c] = 0
      BY <1>0, <2>1, <2>4, <3>1
    <3>3. export.kind = "zip" /\ Exists => \A c \in Channel : export.had[c] > 0 => c \in Listed
      BY <1>0 DEF AllInv, RowsInv, ExportsTypeOK, ExportTypes, Listed
    <3> QED BY <1>0, <2>1, <2>4, <2>5, <3>2, <3>3 DEF Gathered, rowVars, Exists
  <2>7. ~(export.kind \in TextKinds /\ Head(export.todo) = "completed")
    BY <1>0
  <2> QED BY <1>0, <2>4, <2>6, <2>7, NextRead
<1> QED BY <1>1, <1>2

\* The page lists the chunks of one channel at once.
LEMMA StepListsChunks == ASSUME AllInv, ListChunks PROVE AllInv'
<1>0. /\ UNCHANGED rowVars /\ Underway /\ export.todo # <<>> /\ Head(export.todo) = "chunks"
      /\ export \in ExportTypes /\ Listed \in SUBSET Channel /\ chunks \in [Channel -> Nat]
  BY DEF ListChunks, Reading, AllInv, ExportsTypeOK, Listed
<1>1. CASE export' = Failed
  BY <1>0, <1>1, StepFails
<1>2. CASE export' # Failed
  <2>1. PICK picked \in PickPreferredChannel(Listed, {}) :
          export' = [export EXCEPT !.todo = Tail(export.todo), !.channels = picked,
                       !.audio = [c \in Channel |-> IF c \in picked THEN chunks[c] ELSE 0]]
    BY <1>2 DEF ListChunks, Rest
  <2>2. PICK d \in Listed : picked = {d}
    BY <1>0, PickedOne
  <2>3. export.kind = "wav" /\ export.todo \in Left["wav"]
    BY <1>0, RestOf DEF AllInv, TodoInv
  <2>4. Tail(export.todo) \in Todos
    BY <1>0, <2>3, RestOf, ReadsAreLeft DEF Kinds
  <2> DEFINE audio == [c \in Channel |-> IF c \in picked THEN chunks[c] ELSE 0]
  <2>5. audio \in [Channel -> Nat] /\ audio[d] = chunks[d] /\ chunks[d] > 0 /\ d \in Channel
    BY <1>0, <2>2 DEF Listed
  <2>6. export' = [export EXCEPT !.todo = Tail(export.todo), !.channels = picked, !.audio = audio]
    BY <2>1
  <2> HIDE DEF audio
  <2>7. /\ export' \in ExportTypes /\ export'.kind = export.kind /\ export'.had = export.had
        /\ export'.result = export.result /\ export'.todo = Tail(export.todo)
        /\ export'.channels = {d} /\ export'.audio = audio
    BY <1>0, <2>2, <2>4, <2>5, <2>6 DEF ExportTypes
  <2>8. Exists /\ chunks[d] >= export.had[d]
    BY <1>0, <2>5, Empties DEF AllInv, RowsInv
  <2>9. Gathered'
    BY <2>3, <2>5, <2>7, <2>8 DEF Gathered
  <2> QED BY <1>0, <2>3, <2>7, <2>9, NextRead DEF TextKinds
<1> QED BY <1>1, <1>2

\* A channel's chunks are listed in one query: what is there when the
\* recording still exists is all that it had, and else nothing is.
LEMMA StepAssembles == ASSUME AllInv, Assemble PROVE AllInv'
<1>0. /\ UNCHANGED rowVars /\ Underway /\ export.todo # <<>> /\ Head(export.todo) = "audio"
      /\ export \in ExportTypes /\ chunks \in [Channel -> Nat]
      /\ export.channels \in SUBSET Channel /\ export.audio \in [Channel -> Nat]
      /\ Gathering /\ ~Listing
  BY DEF Assemble, Reading, AllInv, ExportsTypeOK, ExportTypes, Gathering, Listing
<1>1. CASE export' = Failed
  BY <1>0, <1>1, StepFails
<1>2. ASSUME NEW d \in export.channels, chunks[d] # 0, export' = [export EXCEPT !.audio[d] = chunks[d]]
      PROVE  AllInv'
  <2> DEFINE audio == [export.audio EXCEPT ![d] = chunks[d]]
  <2>1. /\ d \in Channel /\ audio \in [Channel -> Nat] /\ audio[d] = chunks[d]
        /\ \A c \in Channel \ {d} : audio[c] = export.audio[c]
    BY <1>0
  <2>2. export' = [export EXCEPT !.audio = audio]
    BY <1>0, <1>2 DEF ExportTypes
  <2> HIDE DEF audio
  <2>3. /\ export' \in ExportTypes /\ export'.kind = export.kind /\ export'.had = export.had
        /\ export'.result = export.result /\ export'.todo = export.todo
        /\ export'.channels = export.channels /\ export'.audio = audio
        /\ export'.text = export.text
    BY <1>0, <2>1, <2>2 DEF ExportTypes
  <2>4. ExportsTypeOK' /\ RowsInv' /\ Underway' /\ Gathering' /\ ~Listing'
    BY <1>0, <2>3, RowsKept DEF Underway, Gathering, Listing
  <2>5. TodoInv' /\ TextInv' /\ ExportsAreWhole'
    BY <1>0, <2>3 DEF AllInv, TodoInv, TextInv, SentHasText, ExportsAreWhole, Sent, Underway
  <2>6. Exists /\ chunks[d] >= export.had[d]
    BY <1>0, <1>2, <2>1, Empties DEF AllInv, RowsInv
  <2>7. Gathered => Gathered'
    BY <1>0, <2>1, <2>3, <2>4, <2>6 DEF Gathered, rowVars, Exists
  <2>8. GatherInv'
    BY <1>0, <2>3, <2>4, <2>7 DEF AllInv, GatherInv
  <2> QED BY <2>4, <2>5, <2>8 DEF AllInv
<1>3. CASE /\ \A c \in export.channels : export.audio[c] # 0
           /\ export' = [export EXCEPT !.todo = Tail(export.todo)]
  <2>1. export.kind \in Kinds /\ export.todo \in Left[export.kind]
    BY <1>0 DEF AllInv, TodoInv
  <2>2. Tail(export.todo) \in Todos
    BY <1>0, <2>1, RestOf, ReadsAreLeft
  <2>3. /\ export' \in ExportTypes /\ export'.kind = export.kind /\ export'.had = export.had
        /\ export'.result = export.result /\ export'.todo = Tail(export.todo)
        /\ export'.channels = export.channels /\ export'.audio = export.audio
    BY <1>0, <1>3, <2>2 DEF ExportTypes
  <2>4. \A c \in export.channels : export.audio[c] > 0
    BY <1>0, <1>3
  <2>5. export.kind \in AudioKinds => Gathered'
    BY <1>0, <2>3, <2>4 DEF AllInv, GatherInv, Gathered, rowVars, Exists
  <2> QED BY <1>0, <2>3, <2>5, NextRead
<1>4. \/ export' = Failed
      \/ \E d \in export.channels : chunks[d] # 0 /\ export' = [export EXCEPT !.audio[d] = chunks[d]]
      \/ /\ \A c \in export.channels : export.audio[c] # 0
         /\ export' = [export EXCEPT !.todo = Tail(export.todo)]
  BY DEF Assemble, AssembleChannel, Rest
<1> QED BY <1>1, <1>2, <1>3, <1>4

LEMMA StepSends == ASSUME AllInv, Send PROVE AllInv'
<1>1. /\ UNCHANGED rowVars /\ Underway /\ export.todo = <<>> /\ export \in ExportTypes
      /\ export' = [export EXCEPT !.result = "sent"]
  BY DEF Send, AllInv, ExportsTypeOK
<1>2. /\ export' \in ExportTypes /\ export'.result = "sent" /\ export'.kind = export.kind
      /\ export'.had = export.had /\ export'.channels = export.channels
      /\ export'.audio = export.audio /\ export'.text = export.text /\ ~Underway'
  BY <1>1 DEF ExportTypes, Underway
<1>3. ExportsTypeOK' /\ RowsInv' /\ TodoInv' /\ GatherInv'
  BY <1>1, <1>2, RowsKept DEF TodoInv, GatherInv
<1>4. ~Listing /\ ~Gathering
  BY <1>1 DEF Listing, Gathering
<1>5. TextInv'
  BY <1>1, <1>2 DEF AllInv, TextInv, SentHasText, Sent
<1>6. ASSUME export.kind \in AudioKinds PROVE Gathered /\ \A c \in export.channels : export.audio[c] > 0
  BY <1>1, <1>4, <1>6 DEF AllInv, GatherInv, Gathered
<1>7. ExportsAreWhole'
  BY <1>1, <1>2, <1>6 DEF ExportsAreWhole, Sent, AudioKinds, Gathered, rowVars, Exists
<1> QED BY <1>3, <1>5, <1>7 DEF AllInv

LEMMA StepStarts == ASSUME AllInv, NEW kind \in Kinds, Start(kind) PROVE AllInv'
<1>0. UNCHANGED rowVars /\ chunks \in [Channel -> Nat]
  BY DEF Start, AllInv, ExportsTypeOK
<1> DEFINE todo == IF Exists THEN Reads[kind] ELSE <<>>
           result == IF Exists THEN "underway" ELSE "failed"
<1>1. export' = [NoExport EXCEPT !.kind = kind, !.had = chunks, !.todo = todo, !.result = result]
  BY DEF Start
<1>2. /\ todo \in Left[kind] /\ todo \in Todos /\ result \in {"underway", "failed"}
      /\ result = "underway" <=> Exists
      /\ Exists => todo = Reads[kind]
  BY ReadsAreLeft
<1> HIDE DEF todo, result
<1>3. /\ export' \in ExportTypes /\ export'.kind = kind /\ export'.had = chunks
      /\ export'.todo = todo /\ export'.result = result /\ export'.audio = Nothing
  BY <1>0, <1>1, <1>2, Empties DEF NoExport, ExportTypes
<1>4. ExportsTypeOK'
  BY <1>0, <1>3 DEF AllInv, ExportsTypeOK, rowVars
<1>5. RowsInv'
  BY <1>0, <1>3 DEF AllInv, RowsInv, rowVars, Exists
<1>6. TodoInv' /\ TextInv' /\ ExportsAreWhole'
  BY <1>2, <1>3, ReadsAreLeft DEF TodoInv, TextInv, SentHasText, ExportsAreWhole, Sent, Underway
<1>7. GatherInv'
  BY <1>2, <1>3, ReadsAreLeft DEF GatherInv, Underway, Listing
<1> QED BY <1>4, <1>5, <1>6, <1>7 DEF AllInv

LEMMA StepAll == AllInv /\ [Next]_vars => AllInv'
<1> SUFFICES ASSUME AllInv, [Next]_vars PROVE AllInv'
  OBVIOUS
<1>1. CASE \E kind \in DOMAIN Reads : Start(kind)
  BY <1>1, KindsRead, StepStarts
<1>2. CASE ReadFails
  BY <1>2, StepFails DEF ReadFails
<1>3. CASE UNCHANGED vars
  <2>1. UNCHANGED <<rowVars, export>> /\ ExportsTypeOK'
    BY <1>3 DEF vars, AllInv, ExportsTypeOK, rowVars
  <2>2. AllInv'
    BY <2>1 DEF rowVars, AllInv, TodoInv, RowsInv, GatherInv, TextInv, SentHasText, ExportsAreWhole,
                Sent, Underway, Listing, Gathering, Gathered, Exists
  <2> QED BY <2>2
<1> QED BY <1>1, <1>2, <1>3, StepLists, StepListsChunks, StepAssembles, StepReads, StepSends,
            StepRest DEF Next

-----------------------------------------------------------------------------
(* Recursion.                                                              *)

\* Every set of numbers has a least one: what replaces induction below.
LEMMA LeastNatural ==
  ASSUME NEW T \in SUBSET Nat, T # {}
  PROVE  \E n \in T : \A m \in T : n <= m
<1> DEFINE R == OpToRel(<, Nat)
<1>1. IsWellFoundedOn(R, Nat)
  BY NatLessThanWellFounded
<1>2. \A m, n \in Nat : m < n => <<m, n>> \in R
  BY DEF OpToRel
<1> HIDE DEF R
<1>3. PICK x \in T : \A y \in T : ~(<<y, x>> \in R)
  BY <1>1, WFMin
<1>4. ASSUME NEW y \in T PROVE x <= y
  <2>1. x \in Nat /\ y \in Nat /\ ~(y < x)
    BY <1>2, <1>3
  <2> QED BY <2>1
<1> QED BY <1>3, <1>4

\* A function that FlattenSeq's recursion holds of ends with its result.
LEMMA FlattenIs ==
  ASSUME NEW ss, NEW F, Len(ss) \in Nat \ {0},
         F = [i \in 1..Len(ss) |-> IF i = 1 THEN ss[i] ELSE F[i - 1] \o ss[i]]
  PROVE  FlattenSeq(ss) = F[Len(ss)]
<1> DEFINE flatten[i \in 1..Len(ss)] == IF i = 1 THEN ss[i] ELSE flatten[i - 1] \o ss[i]
           Apart == {i \in 1..Len(ss) : flatten[i] # F[i]}
<1>1. FlattenSeq(ss) = flatten[Len(ss)]
  <2>1. Len(ss) # 0
    OBVIOUS
  <2> QED BY <2>1, Zenon DEF FlattenSeq
<1>2. flatten = [i \in 1..Len(ss) |-> IF i = 1 THEN ss[i] ELSE flatten[i - 1] \o ss[i]]
  OBVIOUS
<1> HIDE DEF flatten
<1>3. SUFFICES ASSUME Apart # {} PROVE FALSE
  <2>1. Len(ss) \in 1..Len(ss)
    OBVIOUS
  <2> QED BY <1>1, <2>1
<1>4. PICK n \in Apart : \A m \in Apart : n <= m
  <2>1. Apart \in SUBSET Nat
    OBVIOUS
  <2> HIDE DEF Apart
  <2> QED BY <1>3, <2>1, LeastNatural
<1>5. flatten[n] = IF n = 1 THEN ss[n] ELSE flatten[n - 1] \o ss[n]
  BY <1>2
<1>6. F[n] = IF n = 1 THEN ss[n] ELSE F[n - 1] \o ss[n]
  OBVIOUS
<1>7. n # 1 => n - 1 \in 1..Len(ss) /\ n - 1 \notin Apart
  BY <1>4
<1> QED BY <1>4, <1>5, <1>6, <1>7

-----------------------------------------------------------------------------
(* The blocks of the viewer.                                               *)

Starts(segs) == {i \in DOMAIN segs : i = 1 \/ segs[i].speaker # segs[i - 1].speaker}
BlockOf(segs, i) == Cardinality({j \in Starts(segs) : j <= i})
Places(segs, b) == {i \in DOMAIN segs : BlockOf(segs, i) = b}

\* From one segment to the next the block is the same or the next one.
LEMMA BlocksGrow ==
  ASSUME NEW segs \in Seq(Segment)
  PROVE  LET N == Cardinality(Starts(segs)) IN
         /\ N \in Nat
         /\ segs # <<>> => BlockOf(segs, 1) = 1 /\ BlockOf(segs, Len(segs)) = N
         /\ \A i \in 1..Len(segs) : BlockOf(segs, i) \in Nat
         /\ \A i, j \in 1..Len(segs) : i <= j => BlockOf(segs, i) <= BlockOf(segs, j)
         /\ \A i \in 2..Len(segs) :
              BlockOf(segs, i) = BlockOf(segs, i - 1) +
                                 IF segs[i].speaker # segs[i - 1].speaker THEN 1 ELSE 0
<1> DEFINE N == Cardinality(Starts(segs))
           Upto(i) == {j \in Starts(segs) : j <= i}
<1>1. DOMAIN segs = 1..Len(segs) /\ Len(segs) \in Nat /\ Starts(segs) \in SUBSET (1..Len(segs))
  BY LenProperties DEF Starts
<1>2. IsFiniteSet(Starts(segs))
  <2>1. IsFiniteSet(1..Len(segs))
    <3>1. Len(segs) \in Int /\ 1 \in Int
      BY <1>1
    <3> QED BY <3>1, FS_Interval, Zenon
  <2> QED BY <1>1, <2>1, FS_Subset
<1>3. \A i : BlockOf(segs, i) = Cardinality(Upto(i)) /\ Upto(i) \in SUBSET Starts(segs)
  BY DEF BlockOf
<1>4. \A i : IsFiniteSet(Upto(i)) /\ BlockOf(segs, i) \in Nat
  <2> HIDE DEF Upto
  <2> QED BY <1>2, <1>3, FS_Subset, FS_CardinalityType
<1>5. N \in Nat
  BY <1>2, FS_CardinalityType
<1>6. ASSUME NEW i \in 1..Len(segs), NEW j \in 1..Len(segs), i <= j
      PROVE  BlockOf(segs, i) <= BlockOf(segs, j)
  <2>1. Upto(i) \in SUBSET Upto(j)
    BY <1>1, <1>6
  <2> HIDE DEF Upto
  <2> QED BY <1>3, <1>4, <2>1, FS_Subset
<1>7. ASSUME segs # <<>> PROVE BlockOf(segs, 1) = 1 /\ BlockOf(segs, Len(segs)) = N
  <2>1. Len(segs) > 0
    BY <1>7, EmptySeq, <1>1
  <2>2. Upto(1) = {1}
    BY <1>1, <2>1 DEF Starts
  <2>3. Upto(Len(segs)) = Starts(segs)
    BY <1>1
  <2>4. Cardinality({1}) = 1
    BY FS_Singleton
  <2> HIDE DEF Upto
  <2> QED BY <1>3, <2>2, <2>3, <2>4
<1>8. ASSUME NEW i \in 2..Len(segs)
      PROVE  BlockOf(segs, i) = BlockOf(segs, i - 1) +
                                IF segs[i].speaker # segs[i - 1].speaker THEN 1 ELSE 0
  <2>1. CASE segs[i].speaker # segs[i - 1].speaker
    <3>1. Upto(i) = Upto(i - 1) \cup {i} /\ i \notin Upto(i - 1)
      BY <1>1, <2>1 DEF Starts
    <3> HIDE DEF Upto
    <3>2. Cardinality(Upto(i)) = Cardinality(Upto(i - 1)) + 1
      BY <1>4, <3>1, FS_AddElement
    <3> QED BY <1>3, <2>1, <3>2
  <2>2. CASE segs[i].speaker = segs[i - 1].speaker
    <3>1. Upto(i) = Upto(i - 1)
      <4>1. i \notin Starts(segs)
        BY <1>1, <2>2 DEF Starts
      <4> QED BY <1>1, <4>1
    <3> HIDE DEF Upto
    <3>2. BlockOf(segs, i) = BlockOf(segs, i - 1) /\ BlockOf(segs, i - 1) \in Nat
      BY <1>3, <1>4, <3>1
    <3> QED BY <2>2, <3>2
  <2> QED BY <2>1, <2>2
<1> QED BY <1>4, <1>5, <1>6, <1>7, <1>8

\* The last place of each block, 0 before the first.
Tiling(segs, E) ==
  LET N == Cardinality(Starts(segs)) IN
  /\ N \in Nat /\ E \in [0..N -> 0..Len(segs)]
  /\ E[0] = 0 /\ E[N] = Len(segs)
  /\ \A b \in 1..N : E[b - 1] < E[b] /\ Places(segs, b) = (E[b - 1] + 1)..E[b]

LEMMA BlocksTile ==
  ASSUME NEW segs \in Seq(Segment)
  PROVE  \E E : Tiling(segs, E)
<1> DEFINE N == Cardinality(Starts(segs))
           L == Len(segs)
           B(i) == BlockOf(segs, i)
<1>1. L \in Nat /\ DOMAIN segs = 1..L
  BY LenProperties
<1>2. CASE segs = <<>>
  <2>1. L = 0 /\ Starts(segs) = {}
    BY <1>1, <1>2, EmptySeq DEF Starts
  <2>2. N = 0
    BY <2>1, FS_EmptySet
  <2>3. Tiling(segs, [b \in 0..N |-> 0])
    BY <2>1, <2>2 DEF Tiling
  <2> QED BY <2>3
<1>3. CASE segs # <<>>
  <2>0. L \in Nat \ {0}
    BY <1>1, <1>3, EmptySeq
  <2>1. /\ N \in Nat /\ B(1) = 1 /\ B(L) = N
        /\ \A i \in 1..L : B(i) \in Nat
        /\ \A i, j \in 1..L : i <= j => B(i) <= B(j)
        /\ \A i \in 2..L : B(i) = B(i - 1) \/ B(i) = B(i - 1) + 1
    <3>1. \A i \in 2..L : B(i) = B(i - 1) + IF segs[i].speaker # segs[i - 1].speaker THEN 1 ELSE 0
      BY BlocksGrow, Zenon
    <3>2. \A i \in 1..L : B(i) \in Nat
      BY BlocksGrow, Zenon
    <3>3. /\ N \in Nat /\ B(1) = 1 /\ B(L) = N
          /\ \A i, j \in 1..L : i <= j => B(i) <= B(j)
      BY <1>3, BlocksGrow, Zenon
    <3> HIDE DEF B, N
    <3>4. ASSUME NEW i \in 2..L PROVE B(i) = B(i - 1) \/ B(i) = B(i - 1) + 1
      <4>1. B(i - 1) \in Nat
        BY <1>1, <3>2
      <4> QED BY <3>1, <4>1
    <3> QED BY <3>2, <3>3, <3>4
  <2>2. \A b : Places(segs, b) = {i \in 1..L : B(i) = b}
    BY <1>1 DEF Places
  <2> HIDE DEF B, N, L
  <2>3. \A b \in 1..N : \E i \in 1..L : B(i) = b /\ \A j \in 1..L : j < i <=> B(j) < b
    <3>1. SUFFICES ASSUME NEW b \in 1..N
                   PROVE  \E i \in 1..L : B(i) = b /\ \A j \in 1..L : j < i <=> B(j) < b
      OBVIOUS
    <3> DEFINE T == {i \in 1..L : b <= B(i)}
    <3>2. L \in T /\ T \in SUBSET Nat
      BY <2>0, <2>1
    <3>3. PICK i \in T : \A j \in T : i <= j
      <4> HIDE DEF T
      <4> QED BY <3>2, LeastNatural
    <3>4. i \in 1..L /\ B(i) \in Nat /\ b <= B(i)
      BY <2>1
    <3>5. B(i) = b
      <4>1. CASE i = 1
        BY <2>1, <3>4, <4>1
      <4>2. CASE i # 1
        <5>1. i - 1 \in 1..L /\ i - 1 \notin T /\ i \in 2..L
          BY <3>3, <3>4, <4>2, <2>0
        <5>2. B(i - 1) \in Nat /\ B(i - 1) < b
          BY <2>1, <5>1
        <5> QED BY <2>1, <3>4, <5>1, <5>2
      <4> QED BY <4>1, <4>2
    <3>6. ASSUME NEW j \in 1..L PROVE j < i <=> B(j) < b
      <4>1. j < i => j \notin T
        BY <3>3, <3>4
      <4>2. j < i => B(j) < b
        BY <2>1, <4>1
      <4>3. ~(j < i) => B(i) <= B(j)
        BY <2>1, <3>4
      <4> QED BY <2>1, <3>5, <4>2, <4>3
    <3> QED BY <3>4, <3>5, <3>6
  <2> DEFINE first == [b \in 1..N |-> CHOOSE i \in 1..L : B(i) = b /\ \A j \in 1..L : j < i <=> B(j) < b]
             E == [b \in 0..N |-> IF b = N THEN L ELSE first[b + 1] - 1]
  <2>4. \A b \in 1..N : /\ first[b] \in 1..L /\ B(first[b]) = b
                        /\ \A j \in 1..L : j < first[b] <=> B(j) < b
    BY <2>3
  <2> HIDE DEF first
  <2>5. N > 0 /\ first[1] = 1
    <3>1. N > 0
      BY <2>0, <2>1
    <3>2. 1 \in 1..N /\ 1 \in 1..L
      BY <2>0, <2>1, <3>1
    <3>3. ~(1 < first[1])
      BY <2>1, <2>4, <3>2
    <3> QED BY <2>4, <3>1, <3>2, <3>3
  <2>6. E[0] = 0 /\ E[N] = L
    BY <2>1, <2>5
  <2>7. E \in [0..N -> 0..L]
    <3>1. \A b \in 0..N : b # N => b + 1 \in 1..N
      BY <2>1
    <3> QED BY <2>0, <2>4, <3>1
  <2>8. \A b \in 1..N : E[b - 1] = first[b] - 1
    BY <2>1
  <2>9. ASSUME NEW b \in 1..N PROVE E[b - 1] < E[b] /\ Places(segs, b) = (E[b - 1] + 1)..E[b]
    <3>1. first[b] \in 1..L /\ B(first[b]) = b /\ \A j \in 1..L : j < first[b] <=> B(j) < b
      BY <2>4
    <3>2. CASE b = N
      <4>1. E[b] = L /\ E[b - 1] = first[b] - 1
        BY <2>6, <2>8, <3>2
      <4>2. \A j \in 1..L : B(j) = b <=> first[b] <= j
        <5>1. \A j \in 1..L : B(j) \in Nat /\ B(j) <= b
          BY <2>0, <2>1, <3>2
        <5> QED BY <3>1, <5>1
      <4> HIDE DEF E
      <4>3. (E[b - 1] + 1)..E[b] = {j \in 1..L : first[b] <= j}
        BY <2>0, <3>1, <4>1
      <4>4. Places(segs, b) = {j \in 1..L : first[b] <= j}
        BY <2>2, <4>2
      <4>5. E[b - 1] < E[b]
        BY <2>0, <3>1, <4>1
      <4> QED BY <4>3, <4>4, <4>5
    <3>3. CASE b # N
      <4>1. b + 1 \in 1..N /\ b \in 0..N /\ b \in Int
        BY <2>1, <3>3
      <4>2. E[b] = first[b + 1] - 1 /\ E[b - 1] = first[b] - 1
        BY <2>8, <3>3, <4>1
      <4>3. /\ first[b + 1] \in 1..L /\ B(first[b + 1]) = b + 1
            /\ \A j \in 1..L : j < first[b + 1] <=> B(j) < b + 1
        BY <2>4, <4>1
      <4> HIDE DEF E
      <4>4. \A j \in 1..L : B(j) = b <=> first[b] <= j /\ j <= first[b + 1] - 1
        <5>1. \A j \in 1..L : B(j) \in Nat
          BY <2>1
        <5> QED BY <3>1, <4>1, <4>3, <5>1
      <4>5. (E[b - 1] + 1)..E[b] = {j \in 1..L : first[b] <= j /\ j <= first[b + 1] - 1}
        BY <2>0, <3>1, <4>2, <4>3
      <4>6. first[b] < first[b + 1]
        BY <3>1, <4>1, <4>3
      <4>7. Places(segs, b) = {j \in 1..L : first[b] <= j /\ j <= first[b + 1] - 1}
        BY <2>2, <4>4
      <4>8. E[b - 1] < E[b]
        BY <3>1, <4>2, <4>3, <4>6
      <4> QED BY <4>5, <4>7, <4>8
    <3> QED BY <3>2, <3>3
  <2> HIDE DEF E
  <2>10. Tiling(segs, E)
    BY <2>1, <2>6, <2>7, <2>9 DEF Tiling, N, L
  <2> QED BY <2>10
<1> QED BY <1>2, <1>3

\* A block is the segments from the place after the last one of the block
\* before; one speaker has them, another one has the next.
LEMMA BlocksOf ==
  ASSUME NEW segs \in Seq(Segment), NEW E, Tiling(segs, E)
  PROVE  LET blocks == GroupSegmentsBySpeaker(segs)
             N == Cardinality(Starts(segs))
         IN /\ DOMAIN blocks = 1..N /\ Len(blocks) = N
            /\ \A b \in 1..N : blocks[b].segments = SubSeq(segs, E[b - 1] + 1, E[b])
<1> DEFINE N == Cardinality(Starts(segs))
           blocks == GroupSegmentsBySpeaker(segs)
<1>1. /\ N \in Nat /\ E \in [0..N -> 0..Len(segs)] /\ Len(segs) \in Nat
      /\ \A b \in 1..N : E[b - 1] < E[b] /\ Places(segs, b) = (E[b - 1] + 1)..E[b]
  BY LenProperties DEF Tiling
<1>2. /\ DOMAIN blocks = 1..N
      /\ \A b \in 1..N : blocks[b].segments =
           SubSeq(segs, Min(Places(segs, b)), Max(Places(segs, b)))
  BY DEF GroupSegmentsBySpeaker, Places, BlockOf, Starts
<1> HIDE DEF blocks, N
<1>3. ASSUME NEW b \in 1..N
      PROVE  Min(Places(segs, b)) = E[b - 1] + 1 /\ Max(Places(segs, b)) = E[b]
  <2>1. b - 1 \in 0..N /\ b \in 0..N
    BY <1>1
  <2>2. PICK m \in Int, n \in Int : m = E[b - 1] + 1 /\ n = E[b] /\ m <= n
    <3>1. E[b - 1] \in 0..Len(segs) /\ E[b] \in 0..Len(segs)
      BY <1>1, <2>1
    <3>2. E[b - 1] + 1 \in Int /\ E[b] \in Int /\ E[b - 1] + 1 <= E[b]
      BY <1>1, <3>1
    <3> QED BY <3>2, Zenon
  <2>3. Places(segs, b) = m..n
    BY <1>1, <2>2
  <2>4. Min(m..n) = m
    <3>1. m \in m..n /\ \A y \in m..n : m <= y
      BY <2>2
    <3>2. \A x \in m..n : (\A y \in m..n : x <= y) => x = m
      BY <3>1
    <3> QED BY <3>1, <3>2 DEF Min
  <2>5. Max(m..n) = n
    <3>1. n \in m..n /\ \A y \in m..n : n >= y
      BY <2>2
    <3>2. \A x \in m..n : (\A y \in m..n : x >= y) => x = n
      BY <3>1
    <3> QED BY <3>1, <3>2 DEF Max
  <2> QED BY <2>2, <2>3, <2>4, <2>5
<1>4. Len(blocks) = N
  BY <1>1, <1>2
<1> QED BY <1>2, <1>3, <1>4 DEF blocks, N

\* No segment is lost or moved between the blocks.
LEMMA BlocksKeepAll ==
  ASSUME NEW segs \in Seq(Segment)
  PROVE  LET blocks == GroupSegmentsBySpeaker(segs)
         IN FlattenSeq([b \in DOMAIN blocks |-> blocks[b].segments]) = segs
<1> DEFINE N == Cardinality(Starts(segs))
           blocks == GroupSegmentsBySpeaker(segs)
           ss == [b \in DOMAIN blocks |-> blocks[b].segments]
<1>1. PICK E : Tiling(segs, E)
  BY BlocksTile
<1> DEFINE F == [b \in 1..N |-> SubSeq(segs, 1, E[b])]
<1>2. /\ N \in Nat /\ E \in [0..N -> 0..Len(segs)] /\ Len(segs) \in Nat
      /\ E[0] = 0 /\ E[N] = Len(segs)
      /\ \A b \in 1..N : E[b - 1] < E[b]
  BY <1>1, LenProperties DEF Tiling
<1>3. /\ DOMAIN blocks = 1..N
      /\ \A b \in 1..N : blocks[b].segments = SubSeq(segs, E[b - 1] + 1, E[b])
  BY <1>1, BlocksOf
<1> HIDE DEF blocks, N
<1>4. ss = [b \in 1..N |-> SubSeq(segs, E[b - 1] + 1, E[b])] /\ Len(ss) = N
  BY <1>2, <1>3
<1> HIDE DEF ss
<1>5. CASE N = 0
  <2>1. Len(ss) = 0 /\ ss = <<>>
    BY <1>4, <1>5
  <2>2. segs = <<>>
    BY <1>2, <1>5, EmptySeq
  <2> QED BY <2>1, <2>2 DEF FlattenSeq, ss, blocks
<1>6. CASE N # 0
  <2>1. \A b \in 1..N : F[b] = IF b = 1 THEN ss[b] ELSE F[b - 1] \o ss[b]
    <3>1. SUFFICES ASSUME NEW b \in 1..N
                   PROVE  F[b] = IF b = 1 THEN ss[b] ELSE F[b - 1] \o ss[b]
      OBVIOUS
    <3>2. CASE b = 1
      <4>1. E[b - 1] + 1 = 1
        <5>1. b - 1 = 0 /\ 0 + 1 = 1
          BY <3>2
        <5> QED BY <1>2, <5>1
      <4>2. ss[b] = SubSeq(segs, E[b - 1] + 1, E[b]) /\ F[b] = SubSeq(segs, 1, E[b])
        BY <1>4
      <4> HIDE DEF F
      <4> QED BY <3>2, <4>1, <4>2, Zenon
    <3>3. CASE b # 1
      <4>1. b - 1 \in 1..N /\ b \in 0..N /\ b - 1 \in 0..N
        BY <1>2, <3>3
      <4>2. PICK k \in Nat, n \in Nat : k = E[b - 1] /\ n = E[b] /\ k < n /\ n <= Len(segs)
        <5>1. E[b - 1] \in 0..Len(segs) /\ E[b] \in 0..Len(segs)
          BY <1>2, <4>1
        <5>2. E[b - 1] \in Nat /\ E[b] \in Nat /\ E[b - 1] < E[b] /\ E[b] <= Len(segs)
          BY <1>2, <5>1
        <5> QED BY <5>2, Zenon
      <4>3. F[b] = SubSeq(segs, 1, n) /\ F[b - 1] = SubSeq(segs, 1, k) /\ ss[b] = SubSeq(segs, k + 1, n)
        BY <1>4, <4>1, <4>2
      <4>4. 1 \in 1..Len(segs) + 1 /\ k \in 1 - 1..Len(segs) /\ n \in k..Len(segs)
        BY <1>2, <4>2
      <4>5. SubSeq(segs, 1, k) \o SubSeq(segs, k + 1, n) = SubSeq(segs, 1, n)
        BY <4>4, ConcatAdjacentSubSeq
      <4> QED BY <3>3, <4>3, <4>5
    <3> QED BY <3>2, <3>3
  <2>2. F = [b \in 1..Len(ss) |-> IF b = 1 THEN ss[b] ELSE F[b - 1] \o ss[b]]
    <3>1. F = [b \in 1..N |-> F[b]]
      OBVIOUS
    <3> HIDE DEF F
    <3> QED BY <1>4, <2>1, <3>1, ZenonT(30)
  <2>3. F[N] = SubSeq(segs, 1, Len(segs))
    BY <1>2, <1>6
  <2> HIDE DEF F
  <2>4. FlattenSeq(ss) = F[N]
    <3>1. Len(ss) \in Nat \ {0}
      BY <1>2, <1>4, <1>6
    <3>2. FlattenSeq(ss) = F[Len(ss)]
      BY <2>2, <3>1, FlattenIs, Zenon
    <3> QED BY <1>4, <3>2
  <2> QED BY <2>3, <2>4, SubSeqFull DEF ss, blocks
<1> QED BY <1>5, <1>6

-----------------------------------------------------------------------------
(* The labels of the server.                                               *)

\* Labels of neighbours differ exactly after a silence, if there are two
\* speakers to take turns.
LEMMA LabelsTurn ==
  ASSUME NEW raw \in Seq(Segment), ~HasSpeakers(raw), MaxSpeakers > 1
  PROVE  /\ Diarized(raw) \in Seq(Segment) /\ Len(Diarized(raw)) = Len(raw)
         /\ \A i \in 2..Len(raw) :
              Diarized(raw)[i].speaker = Diarized(raw)[i - 1].speaker <=>
                Diarized(raw)[i].from - Diarized(raw)[i - 1].to < GapMs
<1> DEFINE segs == Diarized(raw)
           Turns(i) == {j \in 2..i : Turn(raw, j)}
<1>1. /\ DOMAIN raw = 1..Len(raw) /\ Len(raw) \in Nat
      /\ \A i \in 1..Len(raw) : raw[i] \in Segment /\ raw[i].speaker = NoSpeaker
  BY LenProperties, ElementOfSeq DEF HasSpeakers
<1>2. \A i \in 1..Len(raw) : IsFiniteSet(Turns(i)) /\ Cardinality(Turns(i)) \in Nat
  <2>1. SUFFICES ASSUME NEW i \in 1..Len(raw)
                 PROVE  IsFiniteSet(Turns(i)) /\ Cardinality(Turns(i)) \in Nat
    OBVIOUS
  <2>2. IsFiniteSet(2..i)
    <3>1. i \in Int /\ 2 \in Int
      OBVIOUS
    <3> QED BY <3>1, FS_Interval, Zenon
  <2>3. Turns(i) \in SUBSET (2..i)
    OBVIOUS
  <2> HIDE DEF Turns
  <2> QED BY <2>2, <2>3, FS_Subset, FS_CardinalityType
<1>3. segs = [i \in 1..Len(raw) |-> [raw[i] EXCEPT !.speaker = 1 + (Cardinality(Turns(i)) % MaxSpeakers)]]
  <2>1. segs = AssignSpeakersByGaps(raw)
    BY DEF Diarized
  <2>2. \A i \in 1..Len(raw) : {j \in 2..i : raw[j].speaker = NoSpeaker /\ Turn(raw, j)} = Turns(i)
    BY <1>1
  <2> QED BY <1>1, <2>1, <2>2 DEF AssignSpeakersByGaps
<1> DEFINE label == [i \in 1..Len(raw) |-> Cardinality(Turns(i)) % MaxSpeakers]
<1>4. MaxSpeakers \in Nat /\ GapMs \in Nat /\ \A i \in 1..Len(raw) : label[i] \in 0..(MaxSpeakers - 1)
  <2>1. MaxSpeakers \in Nat /\ GapMs \in Nat
    BY TextAssumption
  <2>2. \A n \in Nat : n % MaxSpeakers \in 0..(MaxSpeakers - 1)
    BY <2>1
  <2> HIDE DEF Turns
  <2> QED BY <1>2, <2>1, <2>2
<1>5. \A i \in 1..Len(raw) : /\ segs[i] = [raw[i] EXCEPT !.speaker = 1 + label[i]]
                              /\ 1 + label[i] \in Nat
  BY <1>3, <1>4
<1>6. ASSUME NEW i \in 2..Len(raw) PROVE label[i] = label[i - 1] <=> ~Turn(raw, i)
  <2>1. i - 1 \in 1..Len(raw) /\ i \in 1..Len(raw)
    BY <1>1
  <2>2. CASE Turn(raw, i)
    <3>1. Turns(i) = Turns(i - 1) \cup {i} /\ i \notin Turns(i - 1)
      BY <2>1, <2>2
    <3> HIDE DEF Turns
    <3>2. PICK n \in Nat : n = Cardinality(Turns(i - 1)) /\ Cardinality(Turns(i)) = n + 1
      <4>1. IsFiniteSet(Turns(i - 1)) /\ Cardinality(Turns(i - 1)) \in Nat
        BY <1>2, <2>1
      <4>2. Cardinality(Turns(i - 1) \cup {i}) = Cardinality(Turns(i - 1)) + 1
        BY <3>1, <4>1, FS_AddElement
      <4> QED BY <3>1, <4>1, <4>2
    <3>3. label[i] = (n + 1) % MaxSpeakers /\ label[i - 1] = n % MaxSpeakers
      BY <2>1, <3>2
    <3>4. (n + 1) % MaxSpeakers # n % MaxSpeakers
      BY TextAssumption
    <3> QED BY <2>2, <3>3, <3>4
  <2>3. CASE ~Turn(raw, i)
    <3>1. Turns(i) = Turns(i - 1)
      BY <2>1, <2>3
    <3> HIDE DEF Turns
    <3> QED BY <2>1, <2>3, <3>1
  <2> QED BY <2>2, <2>3
<1> HIDE DEF segs, label
<1>7. \A i \in 1..Len(raw) : /\ segs[i] \in Segment /\ segs[i].speaker = 1 + label[i]
                              /\ segs[i].from = raw[i].from /\ segs[i].to = raw[i].to
  <2>1. SUFFICES ASSUME NEW i \in 1..Len(raw)
                 PROVE  /\ segs[i] \in Segment /\ segs[i].speaker = 1 + label[i]
                        /\ segs[i].from = raw[i].from /\ segs[i].to = raw[i].to
    OBVIOUS
  <2>2. PICK s \in Segment, v \in Nat : s = raw[i] /\ v = 1 + label[i]
    BY <1>1, <1>5
  <2>3. segs[i] = [s EXCEPT !.speaker = v]
    BY <1>5, <2>2
  <2>4. /\ [s EXCEPT !.speaker = v] \in Segment /\ [s EXCEPT !.speaker = v].speaker = v
        /\ [s EXCEPT !.speaker = v].from = s.from /\ [s EXCEPT !.speaker = v].to = s.to
    BY DEF Segment
  <2> QED BY <2>2, <2>3, <2>4
<1>8. segs \in Seq(Segment) /\ Len(segs) = Len(raw)
  <2>1. segs \in [1..Len(raw) -> Segment]
    BY <1>3, <1>7
  <2> QED BY <1>1, <2>1
<1>9. ASSUME NEW i \in 2..Len(raw)
      PROVE  segs[i].speaker = segs[i - 1].speaker <=> segs[i].from - segs[i - 1].to < GapMs
  <2>1. i - 1 \in 1..Len(raw) /\ i \in 1..Len(raw)
    BY <1>1
  <2>2. label[i] \in Int /\ label[i - 1] \in Int /\ raw[i].from \in Int /\ raw[i - 1].to \in Int
    <3>1. label[i] \in 0..(MaxSpeakers - 1) /\ label[i - 1] \in 0..(MaxSpeakers - 1)
      BY <1>4, <2>1
    <3>2. raw[i] \in Segment /\ raw[i - 1] \in Segment
      BY <1>1, <2>1
    <3>3. raw[i].from \in Int /\ raw[i - 1].to \in Int
      BY <3>2 DEF Segment
    <3> QED BY <1>4, <3>1, <3>3
  <2>3. segs[i].speaker = segs[i - 1].speaker <=> label[i] = label[i - 1]
    <3>1. PICK a \in Int, b \in Int : a = label[i] /\ b = label[i - 1]
      BY <2>2, Zenon
    <3>2. segs[i].speaker = 1 + a /\ segs[i - 1].speaker = 1 + b
      BY <1>7, <2>1, <3>1
    <3>3. 1 + a = 1 + b <=> a = b
      OBVIOUS
    <3> QED BY <3>1, <3>2, <3>3
  <2>4. Turn(raw, i) <=> raw[i].from - raw[i - 1].to >= GapMs
    BY DEF Turn
  <2> QED BY <1>4, <1>6, <1>7, <2>1, <2>2, <2>3, <2>4, SMTT(30)
<1> QED BY <1>8, <1>9 DEF segs

\* So the blocks of a text that the server labelled are its turns.
LEMMA TurnsAreBlocks ==
  ASSUME NEW raw \in Seq(Segment), ~HasSpeakers(raw), MaxSpeakers > 1
  PROVE  LET segs == Diarized(raw)
             blocks == GroupSegmentsBySpeaker(segs)
             Gap(s, t) == t.from - s.to
         IN /\ \A b \in DOMAIN blocks : \A i \in 2..Len(blocks[b].segments) :
                 Gap(blocks[b].segments[i - 1], blocks[b].segments[i]) < GapMs
            /\ \A b \in 2..Len(blocks) :
                 Gap(Last(blocks[b - 1].segments), blocks[b].segments[1]) >= GapMs
<1> DEFINE segs == Diarized(raw)
           blocks == GroupSegmentsBySpeaker(segs)
           N == Cardinality(Starts(segs))
           Said(b) == blocks[b].segments
<1>1. /\ segs \in Seq(Segment)
      /\ \A i \in 2..Len(segs) :
           segs[i].speaker = segs[i - 1].speaker <=> segs[i].from - segs[i - 1].to < GapMs
  BY LabelsTurn
<1> HIDE DEF segs
<1>2. PICK E : Tiling(segs, E)
  BY <1>1, BlocksTile
<1>3. /\ N \in Nat /\ E \in [0..N -> 0..Len(segs)] /\ Len(segs) \in Nat
      /\ \A b \in 1..N : E[b - 1] < E[b] /\ Places(segs, b) = (E[b - 1] + 1)..E[b]
  BY <1>1, <1>2, LenProperties DEF Tiling
<1>4. DOMAIN blocks = 1..N /\ Len(blocks) = N
  BY <1>1, <1>2, BlocksOf
<1>5. \A b \in 1..N : Said(b) = SubSeq(segs, E[b - 1] + 1, E[b])
  BY <1>1, <1>2, BlocksOf
<1>6. \A i \in 2..Len(segs) : /\ BlockOf(segs, i - 1) \in Nat
                               /\ BlockOf(segs, i) = BlockOf(segs, i - 1) +
                                    IF segs[i].speaker # segs[i - 1].speaker THEN 1 ELSE 0
  <2>1. \A i \in 2..Len(segs) : i - 1 \in 1..Len(segs)
    BY <1>3
  <2> QED BY <1>1, <2>1, BlocksGrow
<1>7. \A i \in 1..Len(segs) : segs[i].from \in Int /\ segs[i].to \in Int
  <2>1. \A i \in 1..Len(segs) : segs[i] \in Segment
    BY <1>1, ElementOfSeq
  <2> QED BY <2>1 DEF Segment
<1>8. GapMs \in Nat
  BY TextAssumption
<1> HIDE DEF blocks, N
\* Where the block ends and what it says.
<1>9. ASSUME NEW b \in 1..N
      PROVE  \E m \in Nat, n \in 1..Len(segs) :
               /\ m = E[b - 1] /\ n = E[b] /\ m < n
               /\ Len(Said(b)) = n - m
               /\ \A i \in 1..n - m : Said(b)[i] = segs[m + i] /\ BlockOf(segs, m + i) = b
  <2>1. E[b - 1] \in 0..Len(segs) /\ E[b] \in 0..Len(segs)
    <3>1. b - 1 \in 0..N /\ b \in 0..N
      BY <1>3
    <3> QED BY <1>3, <3>1
  <2>2. E[b - 1] \in Nat /\ E[b] \in 1..Len(segs) /\ E[b - 1] < E[b]
    BY <1>3, <2>1
  <2>3. PICK m \in Nat, n \in 1..Len(segs) : m = E[b - 1] /\ n = E[b] /\ m < n
    BY <2>2, Zenon
  <2>4. Said(b) = SubSeq(segs, m + 1, n) /\ Places(segs, b) = (m + 1)..n
    BY <1>3, <1>5, <2>3
  <2>5. /\ m + 1 \in Int /\ n \in Int /\ m + 1 <= n /\ n - (m + 1) + 1 = n - m
        /\ \A i \in (m + 1)..n : segs[i] \in Segment
    <3>1. \A i \in 1..Len(segs) : segs[i] \in Segment
      BY <1>1, ElementOfSeq
    <3> QED BY <2>3, <3>1
  <2>6. /\ Len(SubSeq(segs, m + 1, n)) = n - (m + 1) + 1
        /\ \A i \in 1..n - (m + 1) + 1 : SubSeq(segs, m + 1, n)[i] = segs[m + 1 + i - 1]
    BY <2>5, SubSeqProperties
  <2>7. \A i \in 1..n - m : m + 1 + i - 1 = m + i /\ m + i \in (m + 1)..n
    BY <2>3, SMTT(30)
  <2>8. \A j \in (m + 1)..n : BlockOf(segs, j) = b
    BY <2>4 DEF Places
  <2>9. Len(Said(b)) = n - m
    BY <2>4, <2>5, <2>6
  <2>10. ASSUME NEW i \in 1..n - m PROVE Said(b)[i] = segs[m + i] /\ BlockOf(segs, m + i) = b
    BY <2>4, <2>5, <2>6, <2>7, <2>8
  <2> QED BY <2>3, <2>9, <2>10
<1> HIDE DEF Said
<1>10. ASSUME NEW b \in 1..N, NEW i \in 2..Len(Said(b))
       PROVE  Said(b)[i].from - Said(b)[i - 1].to < GapMs
  <2>1. PICK m \in Nat, n \in 1..Len(segs) :
          /\ m < n /\ Len(Said(b)) = n - m
          /\ \A k \in 1..n - m : Said(b)[k] = segs[m + k] /\ BlockOf(segs, m + k) = b
    BY <1>9
  <2>2. /\ i \in 1..n - m /\ i - 1 \in 1..n - m /\ m + i \in 2..Len(segs)
        /\ m + (i - 1) = (m + i) - 1
    BY <1>3, <2>1
  <2>3. PICK k \in 2..Len(segs) : k = m + i
    BY <2>2
  <2>4. /\ Said(b)[i] = segs[k] /\ Said(b)[i - 1] = segs[k - 1]
        /\ BlockOf(segs, k) = b /\ BlockOf(segs, k - 1) = b
    BY <2>1, <2>2, <2>3
  <2>5. segs[k].speaker = segs[k - 1].speaker
    BY <1>6, <2>4
  <2> QED BY <1>1, <2>4, <2>5
<1>11. ASSUME NEW b \in 2..N
       PROVE  Said(b)[1].from - Last(Said(b - 1)).to >= GapMs
  <2>0. b \in 1..N /\ b - 1 \in 1..N
    BY <1>3
  <2>1. PICK m \in Nat, n \in 1..Len(segs) :
          /\ m = E[b - 1] /\ n = E[b] /\ m < n
          /\ \A i \in 1..n - m : Said(b)[i] = segs[m + i] /\ BlockOf(segs, m + i) = b
    BY <1>9, <2>0
  <2>2. PICK k \in Nat :
          /\ k < m /\ m \in 1..Len(segs) /\ Len(Said(b - 1)) = m - k
          /\ \A i \in 1..m - k : Said(b - 1)[i] = segs[k + i] /\ BlockOf(segs, k + i) = b - 1
    BY <1>9, <2>0, <2>1
  <2>3. /\ 1 \in 1..n - m /\ m - k \in 1..m - k /\ k + (m - k) = m
        /\ m + 1 \in 2..Len(segs) /\ (m + 1) - 1 = m
    <3>1. m \in Nat /\ n \in Nat /\ k \in Nat /\ Len(segs) \in Nat
      BY <1>3
    <3>2. k < m /\ m < n /\ n <= Len(segs)
      BY <2>1, <2>2, <3>1
    <3> QED BY <3>1, <3>2
  <2>4. /\ Said(b)[1] = segs[m + 1] /\ BlockOf(segs, m + 1) = b
        /\ Last(Said(b - 1)) = segs[m] /\ BlockOf(segs, m) = b - 1
    BY <2>1, <2>2, <2>3 DEF Last
  <2>5. segs[m + 1].speaker # segs[m].speaker
    <3>1. b - 1 \in Int /\ b # b - 1 + 0
      BY <2>0
    <3> QED BY <1>6, <2>3, <2>4, <3>1
  <2>6. ~(segs[m + 1].from - segs[m].to < GapMs)
    BY <1>1, <2>3, <2>5
  <2>7. segs[m + 1].from \in Int /\ segs[m].to \in Int
    BY <1>7, <2>2, <2>3
  <2> QED BY <1>8, <2>4, <2>6, <2>7, SMTT(30)
<1> QED BY <1>4, <1>10, <1>11 DEF Said, blocks, segs

-----------------------------------------------------------------------------
(* Sequences of sequences.                                                 *)

\* Where the lines of each part of a flattened sequence are.
FlatAt(ss, O) ==
  /\ O \in [0..Len(ss) -> Nat] /\ O[0] = 0
  /\ \A b \in 1..Len(ss) : O[b] = O[b - 1] + Len(ss[b])
  /\ Len(FlattenSeq(ss)) = O[Len(ss)]
  /\ \A b \in 1..Len(ss) : \A k \in 1..Len(ss[b]) : FlattenSeq(ss)[O[b - 1] + k] = ss[b][k]

\* Flattening puts the parts one behind the other.
LEMMA FlattenPlaces ==
  ASSUME NEW X, NEW ss \in Seq(Seq(X)), ss # <<>>
  PROVE  FlattenSeq(ss) \in Seq(X) /\ \E O : FlatAt(ss, O)
<1> DEFINE n == Len(ss)
           Good(m, F, O) ==
             /\ F \in [1..m -> Seq(X)] /\ O \in [0..m -> Nat]
             /\ O[0] = 0 /\ \A b \in 1..m : O[b] = O[b - 1] + Len(ss[b])
             /\ \A b \in 1..m : F[b] = IF b = 1 THEN ss[b] ELSE F[b - 1] \o ss[b]
             /\ Len(F[m]) = O[m]
             /\ \A b \in 1..m : O[b] <= O[m]
             /\ \A b \in 1..m : \A k \in 1..Len(ss[b]) : F[m][O[b - 1] + k] = ss[b][k]
           Bad == {m \in 1..n : ~\E F, O : Good(m, F, O)}
<1>1. n \in Nat \ {0} /\ DOMAIN ss = 1..n /\ \A b \in 1..n : ss[b] \in Seq(X) /\ Len(ss[b]) \in Nat
  <2>1. n \in Nat \ {0} /\ DOMAIN ss = 1..n
    BY EmptySeq, LenProperties
  <2>2. \A b \in 1..n : ss[b] \in Seq(X)
    BY ElementOfSeq
  <2> QED BY <2>1, <2>2, LenProperties
<1> HIDE DEF n
<1>2. 1 \notin Bad
  <2> DEFINE F == [b \in 1..1 |-> ss[1]]
             O == [b \in 0..1 |-> IF b = 0 THEN 0 ELSE Len(ss[1])]
  <2>1. 1 \in 1..n /\ ss[1] \in Seq(X) /\ Len(ss[1]) \in Nat
    BY <1>1
  <2>2. F \in [1..1 -> Seq(X)] /\ O \in [0..1 -> Nat] /\ F[1] = ss[1] /\ O[0] = 0 /\ O[1] = Len(ss[1])
    BY <2>1
  <2> HIDE DEF F, O
  <2>3. Good(1, F, O)
    <3>1. \A b \in 1..1 : b = 1 /\ b - 1 = 0
      OBVIOUS
    <3>2. \A k \in 1..Len(ss[1]) : 0 + k = k
      BY <2>1
    <3>3. O[1] = O[0] + Len(ss[1]) /\ O[1] <= O[1]
      BY <2>1, <2>2
    <3> QED BY <2>1, <2>2, <3>1, <3>2, <3>3
  <2> HIDE DEF Good
  <2> QED BY <2>3
<1>3. ASSUME NEW m \in 1..n, m + 1 \in 1..n, m \notin Bad PROVE m + 1 \notin Bad
  <2>1. PICK F, O : Good(m, F, O)
    BY <1>3
  <2>a. /\ F \in [1..m -> Seq(X)] /\ O \in [0..m -> Nat]
        /\ O[0] = 0 /\ \A b \in 1..m : O[b] = O[b - 1] + Len(ss[b])
        /\ \A b \in 1..m : F[b] = IF b = 1 THEN ss[b] ELSE F[b - 1] \o ss[b]
        /\ Len(F[m]) = O[m]
        /\ \A b \in 1..m : O[b] <= O[m]
        /\ \A b \in 1..m : \A k \in 1..Len(ss[b]) : F[m][O[b - 1] + k] = ss[b][k]
    BY <2>1
  <2> HIDE DEF Good, Bad
  <2>b. m \in Nat /\ m \in 1..m /\ m \in 0..m /\ m >= 1
    OBVIOUS
  <2>c. PICK s \in Seq(X), l \in Nat : s = ss[m + 1] /\ l = Len(s)
    BY <1>1, <1>3, Zenon
  <2>d. PICK f \in Seq(X), o \in Nat : f = F[m] /\ o = O[m] /\ o = Len(f)
    <3>1. F[m] \in Seq(X) /\ O[m] \in Nat
      BY <2>a, <2>b
    <3> QED BY <2>a, <3>1, Zenon
  <2> DEFINE FF == [b \in 1..(m + 1) |-> IF b = m + 1 THEN f \o s ELSE F[b]]
             OO == [b \in 0..(m + 1) |-> IF b = m + 1 THEN o + l ELSE O[b]]
  <2>3. /\ f \o s \in Seq(X) /\ Len(f \o s) = o + l
        /\ \A i \in 1..o + l : (f \o s)[i] = IF i <= o THEN f[i] ELSE s[i - o]
    <3>1. /\ f \o s \in Seq(X) /\ Len(f \o s) = Len(f) + Len(s)
          /\ \A i \in 1..Len(f) + Len(s) :
               (f \o s)[i] = IF i <= Len(f) THEN f[i] ELSE s[i - Len(f)]
      BY ConcatProperties
    <3> QED BY <2>c, <2>d, <3>1, Zenon
  <2>2. m \in Nat /\ s = ss[m + 1] /\ l = Len(s) /\ f = F[m] /\ o = O[m]
    BY <2>b, <2>c, <2>d
  <2>4. /\ FF \in [1..(m + 1) -> Seq(X)] /\ OO \in [0..(m + 1) -> Nat]
        /\ FF[m + 1] = f \o s /\ OO[m + 1] = o + l
        /\ \A b \in 1..m : FF[b] = F[b]
        /\ \A b \in 0..m : OO[b] = O[b]
    <3>1. /\ F \in [1..m -> Seq(X)] /\ O \in [0..m -> Nat]
          /\ f \o s \in Seq(X) /\ o + l \in Nat
      BY <2>a, <2>3
    <3>2. \A b \in 1..(m + 1) : b = m + 1 \/ b \in 1..m
      BY <2>2
    <3>3. \A b \in 0..(m + 1) : b = m + 1 \/ b \in 0..m
      BY <2>2
    <3>4. \A b \in 0..m : b # m + 1 /\ b \in 0..(m + 1)
      BY <2>2
    <3>5. m + 1 \in 1..(m + 1) /\ m + 1 \in 0..(m + 1)
      BY <2>2
    <3>6. \A b \in 1..m : b \in 1..(m + 1) /\ b \in 0..m
      BY <2>2
    <3> QED BY <3>1, <3>2, <3>3, <3>4, <3>5, <3>6
  <2> HIDE DEF FF, OO
  <2>5. OO[0] = 0
    BY <2>a, <2>2, <2>4
  <2>6. \A b \in 1..(m + 1) : OO[b] = OO[b - 1] + Len(ss[b])
    <3>1. SUFFICES ASSUME NEW b \in 1..(m + 1) PROVE OO[b] = OO[b - 1] + Len(ss[b])
      OBVIOUS
    <3>2. CASE b = m + 1
      <4>1. b - 1 = m
        BY <2>2, <3>2
      <4> QED BY <2>b, <2>2, <2>4, <3>2, <4>1
    <3>3. CASE b # m + 1
      <4>1. b \in 1..m /\ b \in 0..m /\ b - 1 \in 0..m
        BY <2>2, <3>3
      <4> QED BY <2>a, <2>4, <4>1
    <3> QED BY <3>2, <3>3
  <2>7. \A b \in 1..(m + 1) : FF[b] = IF b = 1 THEN ss[b] ELSE FF[b - 1] \o ss[b]
    <3>1. SUFFICES ASSUME NEW b \in 1..(m + 1)
                   PROVE  FF[b] = IF b = 1 THEN ss[b] ELSE FF[b - 1] \o ss[b]
      OBVIOUS
    <3>2. CASE b = m + 1
      <4>1. b # 1 /\ b - 1 = m
        BY <2>b, <3>2
      <4> QED BY <2>b, <2>2, <2>4, <3>2, <4>1
    <3>3. CASE b # m + 1
      <4>1. b \in 1..m /\ (b # 1 => b - 1 \in 1..m)
        BY <2>2, <3>3
      <4> QED BY <2>a, <2>4, <4>1
    <3> QED BY <3>2, <3>3
  <2>8. \A b \in 1..(m + 1) : OO[b] <= OO[m + 1]
    <3>1. SUFFICES ASSUME NEW b \in 1..(m + 1) PROVE OO[b] <= OO[m + 1]
      OBVIOUS
    <3>2. CASE b = m + 1
      BY <2>4, <3>2
    <3>3. CASE b # m + 1
      <4>1. b \in 1..m /\ b \in 0..m
        BY <2>2, <3>3
      <4>2. PICK p \in Nat : p = O[b] /\ p <= o
        BY <2>a, <2>2, <4>1
      <4>3. p <= o + l
        BY <4>2
      <4> QED BY <2>4, <4>1, <4>2, <4>3, Zenon
    <3> QED BY <3>2, <3>3
  <2>9. \A b \in 1..(m + 1) : \A k \in 1..Len(ss[b]) : FF[m + 1][OO[b - 1] + k] = ss[b][k]
    <3>1. SUFFICES ASSUME NEW b \in 1..(m + 1), NEW k \in 1..Len(ss[b])
                   PROVE  FF[m + 1][OO[b - 1] + k] = ss[b][k]
      OBVIOUS
    <3>2. CASE b = m + 1
      <4>1. OO[b - 1] = o /\ ss[b] = s /\ FF[m + 1] = f \o s
        <5>1. b - 1 = m
          BY <2>2, <3>2
        <5> QED BY <2>b, <2>2, <2>4, <3>2, <5>1
      <4>2. k \in 1..l
        BY <2>2, <3>2
      <4>3. o + k \in 1..o + l /\ ~(o + k <= o) /\ (o + k) - o = k
        BY <4>2
      <4>4. (f \o s)[o + k] = s[k]
        BY <2>3, <4>3
      <4> QED BY <4>1, <4>4
    <3>3. CASE b # m + 1
      <4>1. b \in 1..m /\ b - 1 \in 0..m /\ b \in 0..m
        BY <2>2, <3>3
      <4>2. PICK q \in Nat, p \in Nat : q = O[b - 1] /\ p = O[b]
        BY <2>a, <4>1
      <4>3. PICK c \in Nat : c = Len(ss[b])
        BY <1>1, <1>3, <3>1
      <4>4. p = q + c /\ p <= o /\ k \in 1..c
        BY <2>a, <2>2, <3>1, <4>1, <4>2, <4>3
      <4>5. q + k \in 1..o + l /\ q + k <= o
        BY <4>4
      <4>6. f[q + k] = ss[b][k]
        BY <2>a, <2>2, <4>1, <4>2
      <4>7. (f \o s)[q + k] = f[q + k]
        BY <2>3, <4>5
      <4>8. OO[b - 1] = q /\ FF[m + 1] = f \o s
        BY <2>4, <4>1, <4>2
      <4> QED BY <4>6, <4>7, <4>8
    <3> QED BY <3>2, <3>3
  <2>10. Good(m + 1, FF, OO)
    BY <2>3, <2>4, <2>5, <2>6, <2>7, <2>8, <2>9 DEF Good
  <2> QED BY <2>10 DEF Bad
<1>4. Bad = {}
  <2>1. SUFFICES ASSUME Bad # {} PROVE FALSE
    OBVIOUS
  <2>2. Bad \in SUBSET Nat /\ Bad \in SUBSET (1..n)
    BY <1>1
  <2> HIDE DEF Bad
  <2>3. PICK m \in Bad : \A k \in Bad : m <= k
    BY <2>1, <2>2, LeastNatural
  <2>4. m \in 1..n /\ m # 1
    BY <1>2, <2>2
  <2>5. m - 1 \in 1..n /\ m - 1 \notin Bad /\ (m - 1) + 1 = m
    BY <1>1, <2>2, <2>3, <2>4
  <2> QED BY <1>3, <2>4, <2>5
<1>5. PICK F, O : Good(n, F, O)
  <2>1. n \in 1..n
    BY <1>1
  <2> HIDE DEF Good
  <2> QED BY <1>4, <2>1
<1>6. FlattenSeq(ss) = F[n]
  <2>1. \A b \in 1..n : F[b] = IF b = 1 THEN ss[b] ELSE F[b - 1] \o ss[b]
    BY <1>5
  <2>2. F = [b \in 1..n |-> IF b = 1 THEN ss[b] ELSE F[b - 1] \o ss[b]]
    BY <1>5, <2>1
  <2> QED BY <1>1, <2>2, FlattenIs, Zenon DEF n
<1>7. F[n] \in Seq(X)
  BY <1>1, <1>5
<1>8. FlatAt(ss, O)
  BY <1>5, <1>6 DEF FlatAt, n
<1> QED BY <1>6, <1>7, <1>8

\* Places that rise, and the part a place is in.
LEMMA PlacesRise ==
  ASSUME NEW N \in Nat, NEW O \in [0..N -> Nat], \A b \in 1..N : O[b - 1] < O[b]
  PROVE  /\ \A a, b \in 0..N : a < b => O[a] < O[b]
         /\ \A i \in Nat : O[0] <= i /\ i < O[N] => \E b \in 1..N : O[b - 1] <= i /\ i < O[b]
<1>1. ASSUME NEW a \in 0..N, NEW b \in 0..N, a < b PROVE O[a] < O[b]
  <2> DEFINE Bad == {c \in 0..N : a < c /\ ~(O[a] < O[c])}
  <2>1. SUFFICES ASSUME Bad # {} PROVE FALSE
    BY <1>1
  <2>2. Bad \in SUBSET Nat
    OBVIOUS
  <2>3. PICK c \in Bad : \A d \in Bad : c <= d
    <3> HIDE DEF Bad
    <3> QED BY <2>1, <2>2, LeastNatural
  <2>4. c \in 1..N /\ c - 1 \in 0..N /\ c - 1 \notin Bad
    BY <1>1, <2>3
  <2>5. PICK x \in Nat, y \in Nat, z \in Nat : x = O[a] /\ y = O[c - 1] /\ z = O[c]
    BY <2>4
  <2>6. y < z /\ ~(x < z)
    BY <2>4, <2>5
  <2>7. a < c - 1 => x < y
    BY <2>4, <2>5
  <2>8. a < c - 1 \/ a = c - 1
    BY <2>4
  <2>9. a = c - 1 => x = y
    BY <2>5
  <2> QED BY <2>6, <2>7, <2>8, <2>9
<1>2. ASSUME NEW i \in Nat, O[0] <= i, i < O[N] PROVE \E b \in 1..N : O[b - 1] <= i /\ i < O[b]
  <2> DEFINE T == {c \in 0..N : i < O[c]}
  <2>1. N \in T /\ T \in SUBSET Nat
    BY <1>2
  <2>2. PICK c \in T : \A d \in T : c <= d
    <3> HIDE DEF T
    <3> QED BY <2>1, LeastNatural
  <2>3. O[0] \in Nat /\ 0 \notin T
    BY <1>2
  <2>4. c \in 0..N /\ i < O[c] /\ c # 0
    BY <2>2, <2>3
  <2>5. c \in 1..N /\ c - 1 \in 0..N /\ c - 1 \notin T
    BY <2>2, <2>4
  <2>6. O[c - 1] \in Nat /\ ~(i < O[c - 1])
    BY <2>5
  <2>7. O[c - 1] <= i
    BY <2>6
  <2> QED BY <2>4, <2>5, <2>7
<1> QED BY <1>1, <1>2

-----------------------------------------------------------------------------
(* Captions.                                                               *)

\* O[p] is the blank line after the p-th of N paragraphs, for the last one the
\* end of the document.
Cut(doc, N, O) ==
  /\ N \in Nat \ {0} /\ O \in [0..N -> Nat] /\ O[0] = 0
  /\ \A b \in 1..N : O[b - 1] < O[b]
  /\ Len(doc) = O[N] - 1
  /\ \A j \in 1..Len(doc) : doc[j] = Blank <=> \E b \in 1..(N - 1) : j = O[b]

BlanksTo(doc, i) == Cardinality({j \in 1..i : doc[j] = Blank})
LinesOf(doc, p) == {i \in DOMAIN doc : doc[i] # Blank /\ BlanksTo(doc, i) = p - 1}

\* In part p, p - 1 blank lines have passed.
LEMMA BlanksCounted ==
  ASSUME NEW X, NEW doc \in Seq(X), NEW N, NEW O, Cut(doc, N, O),
         NEW p \in 1..N, NEW i \in 0..Len(doc), O[p - 1] <= i, i < O[p]
  PROVE  BlanksTo(doc, i) = p - 1
<1> DEFINE f == [b \in 1..(p - 1) |-> O[b]]
           B == {j \in 1..i : doc[j] = Blank}
<1>1. /\ N \in Nat \ {0} /\ O \in [0..N -> Nat] /\ O[0] = 0
      /\ \A b \in 1..N : O[b - 1] < O[b]
      /\ Len(doc) = O[N] - 1 /\ Len(doc) \in Nat
      /\ \A j \in 1..Len(doc) : doc[j] = Blank <=> \E b \in 1..(N - 1) : j = O[b]
  BY LenProperties DEF Cut
<1>2. \A a, b \in 0..N : a < b => O[a] < O[b]
  BY <1>1, PlacesRise
<1>3. \A b \in 0..N : O[b] \in Nat
  BY <1>1
<1>4. p \in 0..N /\ p - 1 \in 0..N /\ O[p - 1] \in Nat /\ O[p] \in Nat /\ O[N] \in Nat /\ 0 \in 0..N /\ N \in 0..N
  BY <1>1, <1>3
<1>5. ASSUME NEW b \in 1..(p - 1) PROVE O[b] \in B
  <2>1. b \in 0..N /\ b \in 1..(N - 1) /\ 0 < b
    BY <1>1
  <2>2. b = p - 1 \/ b < p - 1
    OBVIOUS
  <2>3. O[b] \in Nat /\ O[0] < O[b] /\ O[b] <= O[p - 1]
    BY <1>2, <1>3, <1>4, <2>1, <2>2
  <2>4. O[b] \in 1..i /\ O[b] \in 1..Len(doc)
    <3>1. PICK x \in Nat, y \in Nat : x = O[b] /\ y = O[p - 1]
      BY <1>4, <2>3, Zenon
    <3>2. 0 < x /\ x <= y /\ y <= i
      BY <1>1, <2>3, <3>1
    <3>3. i \in Nat /\ i <= Len(doc) /\ Len(doc) \in Nat
      BY <1>1
    <3>4. x \in 1..i /\ x \in 1..Len(doc)
      BY <3>1, <3>2, <3>3
    <3> QED BY <3>1, <3>4
  <2> QED BY <1>1, <2>1, <2>4
<1>6. ASSUME NEW j \in B PROVE \E b \in 1..(p - 1) : O[b] = j
  <2>1. j \in 1..Len(doc) /\ doc[j] = Blank /\ j <= i
    BY <1>1
  <2>2. PICK b \in 1..(N - 1) : j = O[b]
    BY <1>1, <2>1
  <2>3. b \in 0..N /\ O[b] \in Nat
    <3>1. b \in 0..N
      BY <1>1
    <3> QED BY <1>3, <3>1
  <2>4. ~(p < b) /\ p # b
    BY <1>2, <1>4, <2>1, <2>2, <2>3
  <2>5. b \in 1..(p - 1)
    BY <2>3, <2>4
  <2> QED BY <2>2, <2>5
<1>7. f \in Surjection(1..(p - 1), B)
  <2>1. f \in [1..(p - 1) -> B]
    BY <1>5
  <2> QED BY <1>6, <2>1 DEF Surjection
<1>8. \A a, b \in 1..(p - 1) : f[a] = f[b] => a = b
  <2>1. SUFFICES ASSUME NEW a \in 1..(p - 1), NEW b \in 1..(p - 1), a < b PROVE f[a] # f[b]
    <3>1. \A a, b \in 1..(p - 1) : a = b \/ a < b \/ b < a
      OBVIOUS
    <3> HIDE DEF f
    <3> QED BY <2>1, <3>1
  <2>2. a \in 0..N /\ b \in 0..N /\ O[a] \in Nat /\ O[b] \in Nat
    BY <1>1, <1>3
  <2>3. O[a] < O[b]
    BY <1>2, <2>1, <2>2
  <2> QED BY <2>2, <2>3
<1>9. f \in Injection(1..(p - 1), B)
  <2> HIDE DEF f, B
  <2> QED BY <1>7, <1>8 DEF Surjection, Injection, IsInjective
<1>10. IsFiniteSet(1..(p - 1)) /\ Cardinality(1..(p - 1)) = p - 1
  <2>1. p - 1 \in Int /\ 1 \in Int
    OBVIOUS
  <2>2. /\ IsFiniteSet(1..(p - 1))
        /\ Cardinality(1..(p - 1)) = IF 1 > p - 1 THEN 0 ELSE p - 1 - 1 + 1
    BY <2>1, FS_Interval, Zenon
  <2>3. (IF 1 > p - 1 THEN 0 ELSE p - 1 - 1 + 1) = p - 1
    BY <1>4
  <2> QED BY <2>2, <2>3
<1>11. Cardinality(B) = p - 1
  <2> HIDE DEF f, B
  <2> QED BY <1>7, <1>9, <1>10, FS_Surjection
<1> QED BY <1>11 DEF BlanksTo

\* So the lines of part p are the places in between.
LEMMA LinesCut ==
  ASSUME NEW X, NEW doc \in Seq(X), NEW N, NEW O, Cut(doc, N, O), NEW p \in 1..N
  PROVE  LinesOf(doc, p) = (O[p - 1] + 1)..(O[p] - 1)
<1>1. /\ N \in Nat \ {0} /\ O \in [0..N -> Nat] /\ O[0] = 0
      /\ \A b \in 1..N : O[b - 1] < O[b]
      /\ Len(doc) = O[N] - 1 /\ Len(doc) \in Nat /\ DOMAIN doc = 1..Len(doc)
      /\ \A j \in 1..Len(doc) : doc[j] = Blank <=> \E b \in 1..(N - 1) : j = O[b]
  BY LenProperties DEF Cut
<1>2. /\ \A a, b \in 0..N : a < b => O[a] < O[b]
      /\ \A i \in Nat : O[0] <= i /\ i < O[N] => \E b \in 1..N : O[b - 1] <= i /\ i < O[b]
  BY <1>1, PlacesRise
<1>3. \A b \in 0..N : O[b] \in Nat
  BY <1>1
<1>4. p \in 0..N /\ p - 1 \in 0..N /\ O[p - 1] \in Nat /\ O[p] \in Nat /\ O[N] \in Nat /\ N \in 0..N
  BY <1>1, <1>3
<1>5. ASSUME NEW i \in 1..Len(doc), doc[i] # Blank, BlanksTo(doc, i) = p - 1
      PROVE  i \in (O[p - 1] + 1)..(O[p] - 1)
  <2>1. i \in Nat /\ O[0] <= i /\ i < O[N] /\ i \in 0..Len(doc)
    BY <1>1, <1>4
  <2>2. PICK q \in 1..N : O[q - 1] <= i /\ i < O[q]
    BY <1>2, <2>1
  <2>3. BlanksTo(doc, i) = q - 1
    BY <2>1, <2>2, BlanksCounted
  <2>4. q = p
    BY <1>5, <2>3
  <2>5. i # O[p - 1]
    <3>1. CASE p = 1
      BY <1>1, <3>1
    <3>2. CASE p # 1
      <4>1. p - 1 \in 1..(N - 1)
        BY <1>1, <3>2
      <4> QED BY <1>1, <1>5, <4>1
    <3> QED BY <3>1, <3>2
  <2> QED BY <1>4, <2>1, <2>2, <2>4, <2>5
<1>6. ASSUME NEW i \in (O[p - 1] + 1)..(O[p] - 1)
      PROVE  i \in 1..Len(doc) /\ doc[i] # Blank /\ BlanksTo(doc, i) = p - 1
  <2>1. p = N \/ p < N
    BY <1>1
  <2>2. O[p] <= O[N]
    BY <1>2, <1>4, <2>1
  <2>3. i \in 1..Len(doc) /\ i \in 0..Len(doc) /\ O[p - 1] < i /\ i < O[p] /\ O[p - 1] <= i
    BY <1>1, <1>4, <2>2
  <2>4. ASSUME NEW b \in 1..(N - 1), i = O[b] PROVE FALSE
    <3>1. b \in 0..N /\ (b = p \/ p < b \/ b = p - 1 \/ b < p - 1)
      BY <1>1
    <3>2. O[b] \in Nat /\ (O[p] <= O[b] \/ O[b] <= O[p - 1])
      BY <1>2, <1>3, <1>4, <3>1, SMTT(30)
    <3> QED BY <1>4, <2>3, <2>4, <3>2
  <2>5. doc[i] # Blank
    BY <1>1, <2>3, <2>4
  <2>6. BlanksTo(doc, i) = p - 1
    BY <2>3, BlanksCounted
  <2> QED BY <2>3, <2>5, <2>6
<1> QED BY <1>1, <1>5, <1>6 DEF LinesOf

\* A viewer finds the paragraphs where the document was cut.
LEMMA ParagraphsCut ==
  ASSUME NEW X, NEW doc \in Seq(X), NEW N, NEW O, Cut(doc, N, O)
  PROVE  /\ DOMAIN Paragraphs(doc) = 1..N
         /\ \A p \in 1..N :
              Paragraphs(doc)[p] = [i \in 1..(O[p] - O[p - 1] - 1) |-> doc[O[p - 1] + i]]
<1>1. /\ N \in Nat \ {0} /\ O \in [0..N -> Nat]
      /\ \A b \in 1..N : O[b - 1] < O[b]
      /\ Len(doc) = O[N] - 1 /\ Len(doc) \in Nat
  BY LenProperties DEF Cut
<1>2. BlanksTo(doc, Len(doc)) + 1 = N
  <2>1. N \in 1..N /\ N - 1 \in 0..N /\ O[N - 1] \in Nat /\ O[N] \in Nat
    BY <1>1
  <2>2. O[N - 1] <= Len(doc) /\ Len(doc) < O[N] /\ Len(doc) \in 0..Len(doc)
    BY <1>1, <2>1
  <2>3. BlanksTo(doc, Len(doc)) = N - 1
    BY <2>1, <2>2, BlanksCounted
  <2> QED BY <1>1, <2>3
<1>3. Paragraphs(doc) = [p \in 1..(BlanksTo(doc, Len(doc)) + 1) |->
        [i \in 1..Cardinality(LinesOf(doc, p)) |-> doc[Min(LinesOf(doc, p)) + i - 1]]]
  BY DEF Paragraphs, LinesOf, BlanksTo
<1>4. ASSUME NEW p \in 1..N
      PROVE  /\ Cardinality(LinesOf(doc, p)) = O[p] - O[p - 1] - 1
             /\ \A i \in 1..(O[p] - O[p - 1] - 1) : Min(LinesOf(doc, p)) + i - 1 = O[p - 1] + i
  <2>1. p - 1 \in 0..N /\ p \in 0..N
    BY <1>1
  <2>2. O[p - 1] \in Nat /\ O[p] \in Nat /\ O[p - 1] < O[p]
    BY <1>1, <2>1
  <2>3. PICK m \in Nat, n \in Nat : m = O[p - 1] /\ n = O[p] /\ m < n
    BY <2>2, Zenon
  <2>4. LinesOf(doc, p) = (m + 1)..(n - 1)
    BY <2>3, LinesCut
  <2>5. m + 1 \in Int /\ n - 1 \in Int
    BY <2>3
  <2>6. Cardinality((m + 1)..(n - 1)) = IF m + 1 > n - 1 THEN 0 ELSE n - 1 - (m + 1) + 1
    BY <2>5, FS_Interval, Zenon
  <2>7. Cardinality((m + 1)..(n - 1)) = n - m - 1
    BY <2>3, <2>6, SMTT(30)
  <2>8. ASSUME NEW i \in 1..(n - m - 1) PROVE Min((m + 1)..(n - 1)) + i - 1 = m + i
    <3>1. m + 1 \in (m + 1)..(n - 1) /\ \A y \in (m + 1)..(n - 1) : m + 1 <= y
      BY <2>3, SMTT(30)
    <3>2. \A x \in (m + 1)..(n - 1) : (\A y \in (m + 1)..(n - 1) : x <= y) => x = m + 1
      BY <3>1
    <3>3. Min((m + 1)..(n - 1)) = m + 1
      BY <3>1, <3>2 DEF Min
    <3>4. m + 1 + i - 1 = m + i
      OBVIOUS
    <3> QED BY <3>3, <3>4
  <2> QED BY <2>3, <2>4, <2>7, <2>8
<1> QED BY <1>2, <1>3, <1>4, ZenonT(30)

\* The parts of a document that has a blank line between two of them.
Joined(doc, cs, O) ==
  LET n == Len(cs) IN
  /\ O \in [0..n -> Nat] /\ O[0] = 0
  /\ \A b \in 1..n : O[b] = O[b - 1] + Len(cs[b]) + 1
  /\ Len(doc) = O[n] - 1
  /\ \A b \in 1..n : \A k \in 1..Len(cs[b]) : doc[O[b - 1] + k] = cs[b][k]
  /\ \A b \in 1..(n - 1) : doc[O[b]] = Blank

\* No part has a blank line of its own.
BlankFree(X, cs) ==
  /\ cs \in Seq(Seq(X)) /\ cs # <<>>
  /\ \A b \in 1..Len(cs) : \A k \in 1..Len(cs[b]) : cs[b][k] # Blank

\* Types of the parts.
LEMMA PartsOf ==
  ASSUME NEW X, NEW cs, BlankFree(X, cs)
  PROVE  /\ Len(cs) \in Nat \ {0} /\ DOMAIN cs = 1..Len(cs)
         /\ \A b \in 1..Len(cs) : cs[b] \in Seq(X) /\ Len(cs[b]) \in Nat
<1>1. cs \in Seq(Seq(X)) /\ cs # <<>>
  BY DEF BlankFree
<1>2. Len(cs) \in Nat \ {0} /\ DOMAIN cs = 1..Len(cs)
  BY <1>1, EmptySeq, LenProperties
<1>3. \A b \in 1..Len(cs) : cs[b] \in Seq(X)
  BY <1>1, ElementOfSeq
<1> QED BY <1>2, <1>3, LenProperties

\* Such parts are the paragraphs.
LEMMA PartsAreParagraphs ==
  ASSUME NEW X, NEW doc \in Seq(X), NEW cs, NEW O, Joined(doc, cs, O), BlankFree(X, cs)
  PROVE  /\ DOMAIN Paragraphs(doc) = 1..Len(cs)
         /\ \A p \in 1..Len(cs) : Paragraphs(doc)[p] = cs[p]
<1> DEFINE n == Len(cs)
<1>1. n \in Nat \ {0} /\ \A b \in 1..n : cs[b] \in Seq(X) /\ Len(cs[b]) \in Nat
  BY PartsOf
<1>2. /\ O \in [0..n -> Nat] /\ O[0] = 0
      /\ \A b \in 1..n : O[b] = O[b - 1] + Len(cs[b]) + 1
      /\ Len(doc) = O[n] - 1
      /\ \A b \in 1..n : \A k \in 1..Len(cs[b]) : doc[O[b - 1] + k] = cs[b][k]
      /\ \A b \in 1..(n - 1) : doc[O[b]] = Blank
  BY DEF Joined
<1>3. \A b \in 1..n : \A k \in 1..Len(cs[b]) : cs[b][k] # Blank
  BY DEF BlankFree
<1> HIDE DEF n
<1>4. \A b \in 1..n : b - 1 \in 0..n /\ b \in 0..n /\ O[b - 1] \in Nat /\ O[b] \in Nat /\ O[b - 1] < O[b]
  <2>1. SUFFICES ASSUME NEW b \in 1..n
                 PROVE  b - 1 \in 0..n /\ b \in 0..n /\ O[b - 1] \in Nat /\ O[b] \in Nat /\ O[b - 1] < O[b]
    OBVIOUS
  <2>2. b - 1 \in 0..n /\ b \in 0..n
    BY <1>1
  <2>3. O[b - 1] \in Nat /\ O[b] \in Nat /\ Len(cs[b]) \in Nat /\ O[b] = O[b - 1] + Len(cs[b]) + 1
    BY <1>1, <1>2, <2>2
  <2>4. O[b - 1] < O[b]
    BY <2>3
  <2> QED BY <2>2, <2>3, <2>4
<1>5. /\ \A a, b \in 0..n : a < b => O[a] < O[b]
      /\ \A i \in Nat : O[0] <= i /\ i < O[n] => \E b \in 1..n : O[b - 1] <= i /\ i < O[b]
  BY <1>1, <1>2, <1>4, PlacesRise
<1>6. Cut(doc, n, O)
  <2>1. ASSUME NEW j \in 1..Len(doc) PROVE doc[j] = Blank <=> \E b \in 1..(n - 1) : j = O[b]
    <3>1. j \in Nat /\ O[0] <= j /\ j < O[n]
      <4>1. O[n] \in Nat
        BY <1>1, <1>4
      <4> QED BY <1>2, <4>1
    <3>2. PICK b \in 1..n : O[b - 1] <= j /\ j < O[b]
      BY <1>5, <3>1
    <3>3. CASE j = O[b - 1]
      <4>1. b - 1 \in 1..(n - 1)
        <5>1. b # 1
          BY <1>2, <3>3
        <5> QED BY <1>1, <5>1
      <4> QED BY <1>2, <3>3, <4>1
    <3>4. CASE j # O[b - 1]
      <4>1. PICK o \in Nat, l \in Nat : o = O[b - 1] /\ l = Len(cs[b]) /\ O[b] = o + l + 1
        BY <1>1, <1>2, <1>4, Zenon
      <4>2. PICK k \in 1..l : j = o + k
        <5>1. j - o \in 1..l /\ j = o + (j - o)
          <6>1. o <= j /\ j # o /\ j < o + l + 1 /\ j \in Nat
            BY <3>1, <3>2, <3>4, <4>1
          <6> QED BY <6>1
        <5> QED BY <5>1
      <4>3. doc[j] # Blank
        BY <1>2, <1>3, <4>1, <4>2
      <4>4. ASSUME NEW a \in 1..(n - 1), j = O[a] PROVE FALSE
        <5>1. a \in 0..n /\ (a = b \/ b < a \/ a = b - 1 \/ a < b - 1)
          BY <1>1
        <5>2. O[a] \in Nat /\ (O[b] <= O[a] \/ O[a] <= O[b - 1])
          BY <1>2, <1>4, <1>5, <5>1
        <5> QED BY <1>4, <3>2, <3>4, <4>4, <5>2
      <4> QED BY <4>3, <4>4
    <3> QED BY <3>3, <3>4
  <2> QED BY <1>1, <1>2, <1>4, <2>1 DEF Cut
<1>7. /\ DOMAIN Paragraphs(doc) = 1..n
      /\ \A p \in 1..n :
           Paragraphs(doc)[p] = [i \in 1..(O[p] - O[p - 1] - 1) |-> doc[O[p - 1] + i]]
  BY <1>6, ParagraphsCut
<1>8. ASSUME NEW p \in 1..n PROVE Paragraphs(doc)[p] = cs[p]
  <2>1. PICK l \in Nat, o \in Nat : l = Len(cs[p]) /\ o = O[p - 1] /\ O[p] = o + l + 1
    BY <1>1, <1>2, <1>4, Zenon
  <2>2. O[p] - O[p - 1] - 1 = l
    BY <2>1
  <2>3. Paragraphs(doc)[p] = [i \in 1..l |-> doc[o + i]]
    BY <1>7, <2>1, <2>2
  <2>4. \A i \in 1..l : doc[o + i] = cs[p][i]
    BY <1>2, <2>1
  <2>5. cs[p] = [i \in 1..l |-> cs[p][i]]
    <3>1. cs[p] \in Seq(X)
      BY <1>1
    <3>2. cs[p] \in [1..l -> X]
      BY <2>1, <3>1, LenProperties
    <3> QED BY <3>2
  <2> QED BY <2>3, <2>4, <2>5
<1> QED BY <1>7, <1>8 DEF n

\* JoinWithBlank does that.
LEMMA JoinIsJoined ==
  ASSUME NEW X, Blank \in X, NEW cs, BlankFree(X, cs)
  PROVE  JoinWithBlank(cs) \in Seq(X) /\ \E O : Joined(JoinWithBlank(cs), cs, O)
<1> DEFINE n == Len(cs)
           ss == [i \in DOMAIN cs |-> IF i < Len(cs) THEN Append(cs[i], Blank) ELSE cs[i]]
           J == JoinWithBlank(cs)
<1>1. n \in Nat \ {0} /\ DOMAIN cs = 1..n /\ \A b \in 1..n : cs[b] \in Seq(X) /\ Len(cs[b]) \in Nat
  BY PartsOf
<1>2. J = FlattenSeq(ss)
  BY DEF JoinWithBlank
<1>3. ss = [i \in 1..n |-> IF i < n THEN Append(cs[i], Blank) ELSE cs[i]]
  BY <1>1
<1> HIDE DEF n, ss, J
<1>4. ASSUME NEW b \in 1..n
      PROVE  /\ ss[b] \in Seq(X)
             /\ Len(ss[b]) = Len(cs[b]) + IF b < n THEN 1 ELSE 0
             /\ \A k \in 1..Len(cs[b]) : ss[b][k] = cs[b][k]
             /\ b < n => ss[b][Len(cs[b]) + 1] = Blank
  <2>1. PICK c \in Seq(X), l \in Nat : c = cs[b] /\ l = Len(c)
    BY <1>1, Zenon
  <2>2. CASE b < n
    <3>1. ss[b] = Append(c, Blank)
      BY <1>3, <2>1, <2>2
    <3>2. /\ Append(c, Blank) \in Seq(X) /\ Len(Append(c, Blank)) = l + 1
          /\ \A i \in 1..l : Append(c, Blank)[i] = c[i]
          /\ Append(c, Blank)[l + 1] = Blank
      BY <2>1, AppendProperties
    <3> QED BY <2>1, <2>2, <3>1, <3>2
  <2>3. CASE ~(b < n)
    <3>1. ss[b] = c
      BY <1>3, <2>1, <2>3
    <3> QED BY <2>1, <2>3, <3>1
  <2> QED BY <2>2, <2>3
<1>5. ss \in Seq(Seq(X)) /\ Len(ss) = n /\ ss # <<>>
  <2>1. ss \in [1..n -> Seq(X)]
    BY <1>3, <1>4
  <2>2. ss \in Seq(Seq(X)) /\ Len(ss) = n
    BY <1>1, <2>1
  <2> QED BY <1>1, <2>2, EmptySeq
<1>6. J \in Seq(X)
  BY <1>2, <1>5, FlattenPlaces
<1>7. PICK P : FlatAt(ss, P)
  BY <1>5, FlattenPlaces
<1>8. /\ P \in [0..n -> Nat] /\ P[0] = 0
      /\ \A b \in 1..n : P[b] = P[b - 1] + Len(ss[b])
      /\ Len(J) = P[n]
      /\ \A b \in 1..n : \A k \in 1..Len(ss[b]) : J[P[b - 1] + k] = ss[b][k]
  BY <1>2, <1>5, <1>7 DEF FlatAt
<1> DEFINE O == [b \in 0..n |-> IF b = n THEN P[n] + 1 ELSE P[b]]
<1>9. /\ O \in [0..n -> Nat] /\ O[0] = 0 /\ O[n] = P[n] + 1 /\ Len(J) = O[n] - 1
      /\ \A b \in 0..(n - 1) : O[b] = P[b]
  <2>1. n \in 0..n /\ 0 # n /\ 0 \in 0..n /\ P[n] \in Nat /\ \A b \in 0..(n - 1) : b # n /\ b \in 0..n
    BY <1>1, <1>8
  <2>2. O \in [0..n -> Nat]
    BY <1>8, <2>1
  <2>3. O[n] = P[n] + 1 /\ P[n] + 1 - 1 = P[n]
    BY <2>1
  <2>4. O[0] = 0 /\ \A b \in 0..(n - 1) : O[b] = P[b]
    BY <1>8, <2>1
  <2> HIDE DEF O
  <2> QED BY <1>8, <2>2, <2>3, <2>4
<1> HIDE DEF O
<1>10. ASSUME NEW b \in 1..n
       PROVE  /\ O[b] = O[b - 1] + Len(cs[b]) + 1
              /\ \A k \in 1..Len(cs[b]) : J[O[b - 1] + k] = cs[b][k]
              /\ b < n => J[O[b]] = Blank
  <2>1. b - 1 \in 0..(n - 1) /\ b - 1 \in 0..n
    BY <1>1
  <2>2. PICK l \in Nat, p \in Nat : l = Len(cs[b]) /\ p = P[b - 1] /\ p = O[b - 1]
    <3>1. P[b - 1] \in Nat /\ P[b - 1] = O[b - 1] /\ Len(cs[b]) \in Nat
      BY <1>1, <1>8, <1>9, <2>1
    <3> QED BY <3>1, Zenon
  <2>3. CASE b < n
    <3>1. b \in 0..(n - 1)
      BY <1>1, <2>3
    <3>2. Len(ss[b]) = l + 1
      BY <1>4, <2>2, <2>3
    <3>3. O[b] = p + (l + 1) /\ p + (l + 1) = p + l + 1
      <4>1. O[b] = P[b] /\ P[b] = P[b - 1] + Len(ss[b])
        BY <1>8, <1>9, <3>1
      <4>2. O[b] = p + (l + 1)
        BY <2>2, <3>2, <4>1, Zenon
      <4>3. p + (l + 1) = p + l + 1
        OBVIOUS
      <4> QED BY <4>2, <4>3
    <3>4. \A k \in 1..(l + 1) : J[p + k] = ss[b][k]
      BY <1>8, <2>2, <3>2
    <3>5. \A k \in 1..l : J[p + k] = cs[b][k]
      <4>1. \A k \in 1..l : k \in 1..(l + 1)
        OBVIOUS
      <4>2. \A k \in 1..l : ss[b][k] = cs[b][k]
        BY <1>4, <2>2, Zenon
      <4> QED BY <3>4, <4>1, <4>2
    <3>6. J[p + (l + 1)] = Blank
      <4>1. l + 1 \in 1..(l + 1)
        OBVIOUS
      <4>2. ss[b][l + 1] = Blank
        BY <1>4, <2>2, <2>3, Zenon
      <4> QED BY <3>4, <4>1, <4>2
    <3> QED BY <2>2, <3>3, <3>5, <3>6
  <2>4. CASE b = n
    <3>1. Len(ss[b]) = l
      BY <1>1, <1>4, <2>2, <2>4
    <3>2. P[b] = p + l
      BY <1>8, <2>2, <3>1
    <3>3. O[b] = p + l + 1
      BY <1>9, <2>4, <3>2
    <3>4. \A k \in 1..l : J[p + k] = cs[b][k]
      BY <1>4, <1>8, <2>2, <3>1, ZenonT(30)
    <3> QED BY <1>1, <2>2, <2>4, <3>3, <3>4
  <2> QED BY <1>1, <2>3, <2>4
<1>11. Joined(J, cs, O)
  <2>1. \A b \in 1..(n - 1) : b \in 1..n /\ b < n
    BY <1>1
  <2> QED BY <1>9, <1>10, <2>1 DEF Joined, n
<1> QED BY <1>6, <1>11 DEF J

\* The parts follow each other.
LEMMA JoinedRises ==
  ASSUME NEW X, NEW doc, NEW cs, NEW O, BlankFree(X, cs), Joined(doc, cs, O)
  PROVE  /\ \A b \in 0..Len(cs) : O[b] \in Nat
         /\ \A b \in 1..Len(cs) : O[b] <= O[Len(cs)]
         /\ \A b \in 1..Len(cs) : b < Len(cs) => O[b] + 1 <= O[Len(cs)]
<1>1. PICK n \in Nat \ {0} : n = Len(cs)
  BY PartsOf
<1>2. \A b \in 1..n : Len(cs[b]) \in Nat
  BY <1>1, PartsOf
<1>3. O \in [0..n -> Nat] /\ \A b \in 1..n : O[b] = O[b - 1] + Len(cs[b]) + 1
  BY <1>1 DEF Joined
<1>4. \A b \in 0..n : O[b] \in Nat
  BY <1>3
<1>5. \A b \in 1..n : O[b - 1] < O[b]
  <2>1. SUFFICES ASSUME NEW b \in 1..n PROVE O[b - 1] < O[b]
    OBVIOUS
  <2>2. b - 1 \in 0..n
    OBVIOUS
  <2>3. \E x \in Nat : x = O[b - 1]
    BY <1>4, <2>2
  <2>4. \E y \in Nat : y = Len(cs[b])
    BY <1>2
  <2>5. PICK x \in Nat : x = O[b - 1]
    BY <2>3, Zenon
  <2>6. PICK y \in Nat : y = Len(cs[b])
    BY <2>4, Zenon
  <2>7. O[b] = x + y + 1
    BY <1>3, <2>5, <2>6
  <2>8. x < x + y + 1
    OBVIOUS
  <2> QED BY <2>5, <2>7, <2>8
<1>6. \A x, y \in 0..n : x < y => O[x] < O[y]
  BY <1>3, <1>5, PlacesRise
<1>7. ASSUME NEW b \in 1..n PROVE O[b] <= O[n] /\ (b < n => O[b] + 1 <= O[n])
  <2>1. b \in 0..n /\ n \in 0..n
    OBVIOUS
  <2>2. O[b] \in Nat /\ O[n] \in Nat
    BY <1>4, <2>1
  <2>3. b < n => O[b] < O[n]
    BY <1>6, <2>1
  <2>4. b = n \/ b < n
    OBVIOUS
  <2> QED BY <2>2, <2>3, <2>4
<1> QED BY <1>1, <1>4, <1>7

\* The same with a header and a blank line before it.
LEMMA HeaderIsJoined ==
  ASSUME NEW X, Blank \in X, NEW h \in X, h # Blank, NEW J \in Seq(X), NEW cs, NEW O,
         BlankFree(X, cs), Joined(J, cs, O)
  PROVE  /\ <<h, Blank>> \o J \in Seq(X) /\ BlankFree(X, << <<h>> >> \o cs)
         /\ Len(<< <<h>> >> \o cs) = Len(cs) + 1 /\ (<< <<h>> >> \o cs)[1] = <<h>>
         /\ \A b \in 1..Len(cs) : (<< <<h>> >> \o cs)[1 + b] = cs[b]
         /\ \E P : Joined(<<h, Blank>> \o J, << <<h>> >> \o cs, P)
<1>1. PICK n \in Nat \ {0} : n = Len(cs)
  BY PartsOf
<1>2. \A b \in 1..n : cs[b] \in Seq(X) /\ Len(cs[b]) \in Nat
  BY <1>1, PartsOf
<1>3. /\ O \in [0..n -> Nat] /\ O[0] = 0
      /\ \A b \in 1..n : O[b] = O[b - 1] + Len(cs[b]) + 1
      /\ Len(J) = O[n] - 1
      /\ \A b \in 1..n : \A k \in 1..Len(cs[b]) : J[O[b - 1] + k] = cs[b][k]
      /\ \A b \in 1..(n - 1) : J[O[b]] = Blank
  BY <1>1 DEF Joined
<1>4. cs \in Seq(Seq(X)) /\ \A b \in 1..n : \A k \in 1..Len(cs[b]) : cs[b][k] # Blank
  BY <1>1 DEF BlankFree
<1>17. /\ \A b \in 0..n : O[b] \in Nat
       /\ \A b \in 1..n : O[b] <= O[n] /\ (b < n => O[b] + 1 <= O[n])
  BY <1>1, JoinedRises
<1> DEFINE D == <<h, Blank>> \o J
           ds == << <<h>> >> \o cs
           P == [b \in 0..(n + 1) |-> IF b = 0 THEN 0 ELSE O[b - 1] + 2]
<1>5. PICK l \in Nat : l = Len(J)
  BY LenProperties
<1>6. /\ D \in Seq(X) /\ Len(D) = 2 + l /\ D[1] = h /\ D[2] = Blank
      /\ \A j \in 1..l : D[2 + j] = J[j]
  <2>1. <<h, Blank>> \in Seq(X) /\ Len(<<h, Blank>>) = 2
    OBVIOUS
  <2>2. /\ D \in Seq(X) /\ Len(D) = 2 + l
        /\ \A i \in 1..2 + l : D[i] = IF i <= 2 THEN <<h, Blank>>[i] ELSE J[i - 2]
    BY <1>5, <2>1, ConcatProperties
  <2> HIDE DEF D
  <2>3. D[1] = h /\ D[2] = Blank
    BY <2>2
  <2>4. ASSUME NEW j \in 1..l PROVE D[2 + j] = J[j]
    <3>1. 2 + j \in 1..2 + l /\ ~(2 + j <= 2) /\ 2 + j - 2 = j
      OBVIOUS
    <3> QED BY <2>2, <3>1
  <2> QED BY <2>2, <2>3, <2>4
<1>7. /\ ds \in Seq(Seq(X)) /\ Len(ds) = n + 1 /\ ds[1] = <<h>>
      /\ \A b \in 1..n : ds[1 + b] = cs[b]
  <2>1. << <<h>> >> \in Seq(Seq(X)) /\ Len(<< <<h>> >>) = 1
    OBVIOUS
  <2>2. /\ ds \in Seq(Seq(X)) /\ Len(ds) = 1 + n
        /\ \A i \in 1..1 + n : ds[i] = IF i <= 1 THEN << <<h>> >>[i] ELSE cs[i - 1]
    BY <1>1, <1>4, <2>1, ConcatProperties
  <2> HIDE DEF ds
  <2>3. ds[1] = <<h>>
    BY <2>2
  <2>4. ASSUME NEW b \in 1..n PROVE ds[1 + b] = cs[b]
    <3>1. 1 + b \in 1..1 + n /\ ~(1 + b <= 1) /\ 1 + b - 1 = b
      OBVIOUS
    <3> QED BY <2>2, <3>1
  <2> QED BY <2>2, <2>3, <2>4
<1> HIDE DEF D, ds
<1>8. \A b \in 1..(n + 1) : b = 1 \/ \E a \in 1..n : b = 1 + a
  <2>1. SUFFICES ASSUME NEW b \in 1..(n + 1), b # 1 PROVE \E a \in 1..n : b = 1 + a
    OBVIOUS
  <2>2. b - 1 \in 1..n /\ b = 1 + (b - 1)
    BY <2>1
  <2> QED BY <2>2
<1>9. Len(<<h>>) = 1 /\ <<h>>[1] = h /\ <<h>> \in Seq(X)
  OBVIOUS
<1>10. BlankFree(X, ds)
  <2>1. ds # <<>>
    BY <1>7
  <2>2. ASSUME NEW b \in 1..(n + 1), NEW k \in 1..Len(ds[b]) PROVE ds[b][k] # Blank
    <3>1. CASE b = 1
      <4>1. ds[b] = <<h>>
        BY <1>7, <3>1
      <4>2. k = 1
        BY <1>9, <4>1
      <4> QED BY <1>9, <4>1, <4>2
    <3>2. ASSUME NEW a \in 1..n, b = 1 + a PROVE ds[b][k] # Blank
      <4>1. ds[b] = cs[a]
        BY <1>7, <3>2
      <4> QED BY <1>4, <4>1
    <3> QED BY <1>8, <3>1, <3>2
  <2> QED BY <1>7, <2>1, <2>2 DEF BlankFree
<1>11. /\ P \in [0..(n + 1) -> Nat] /\ P[0] = 0
       /\ \A a \in 0..n : P[1 + a] = O[a] + 2
  <2>1. \A b \in 0..(n + 1) : b # 0 => b - 1 \in 0..n
    OBVIOUS
  <2>2. \A a \in 0..n : 1 + a \in 0..(n + 1) /\ 1 + a # 0 /\ 1 + a - 1 = a
    OBVIOUS
  <2>3. \A a \in 0..n : O[a] + 2 \in Nat
    BY <1>17
  <2>4. P \in [0..(n + 1) -> Nat]
    BY <2>1, <2>3
  <2>5. 0 \in 0..(n + 1)
    OBVIOUS
  <2>6. P[0] = 0
    BY <2>5
  <2>7. \A a \in 0..n : P[1 + a] = O[a] + 2
    BY <2>2
  <2> QED BY <2>4, <2>6, <2>7
<1> HIDE DEF P
<1>12. P[1] = 2
  <2>1. 0 \in 0..n /\ 1 + 0 = 1 /\ 0 + 2 = 2
    OBVIOUS
  <2>2. P[1 + 0] = O[0] + 2
    BY <1>11, <2>1
  <2> QED BY <1>3, <2>1, <2>2
<1>13. ASSUME NEW a \in 1..n
       PROVE  /\ P[1 + a] = P[a] + Len(cs[a]) + 1
              /\ \A k \in 1..Len(cs[a]) : D[P[a] + k] = cs[a][k]
              /\ a < n => D[P[1 + a]] = Blank
  <2>1. a - 1 \in 0..n /\ a \in 0..n /\ 1 + (a - 1) = a
    OBVIOUS
  <2>9. /\ \E o \in Nat : o = O[a - 1]
        /\ \E c \in Nat : c = Len(cs[a])
        /\ \E p \in Nat : p = O[a]
        /\ \E q \in Nat : q = O[n]
    BY <1>2, <1>17, <2>1
  <2>o. PICK o \in Nat : o = O[a - 1]
    BY <2>9, Zenon
  <2>c. PICK c \in Nat : c = Len(cs[a])
    BY <2>9, Zenon
  <2>p. PICK p \in Nat : p = O[a]
    BY <2>9, Zenon
  <2>q. PICK q \in Nat : q = O[n]
    BY <2>9, Zenon
  <2>3. p = o + c + 1
    BY <1>3, <2>o, <2>c, <2>p
  <2>4. P[1 + a] = p + 2
    BY <1>11, <2>1, <2>p
  <2>5. P[a] = o + 2
    <3>1. P[1 + (a - 1)] = O[a - 1] + 2
      BY <1>11, <2>1
    <3> QED BY <2>1, <2>o, <3>1
  <2>6. /\ p <= q /\ (a < n => p + 1 <= q) /\ l = q - 1
    BY <1>3, <1>5, <1>17, <2>p, <2>q
  <2>7. ASSUME NEW k \in 1..c PROVE D[P[a] + k] = cs[a][k]
    <3>1. o + k \in 1..l /\ 2 + (o + k) = o + 2 + k
      BY <2>3, <2>6
    <3>2. D[2 + (o + k)] = J[o + k]
      BY <1>6, <3>1
    <3>3. J[o + k] = cs[a][k]
      BY <1>3, <2>o, <2>c
    <3> QED BY <2>5, <3>1, <3>2, <3>3
  <2>8. ASSUME a < n PROVE D[P[1 + a]] = Blank
    <3>1. a \in 1..(n - 1)
      BY <2>8
    <3>2. J[p] = Blank
      BY <1>3, <2>p, <3>1
    <3>3. p \in 1..l /\ 2 + p = p + 2
      BY <2>3, <2>6, <2>8
    <3>4. D[2 + p] = J[p]
      BY <1>6, <3>3
    <3> QED BY <2>4, <3>2, <3>3, <3>4
  <2>10. P[1 + a] = P[a] + Len(cs[a]) + 1
    <3>1. p + 2 = o + 2 + c + 1
      BY <2>3
    <3> QED BY <2>4, <2>5, <2>c, <3>1
  <2> QED BY <2>c, <2>7, <2>8, <2>10
<1>14. ASSUME NEW b \in 1..(n + 1) PROVE P[b] = P[b - 1] + Len(ds[b]) + 1
  <2>1. CASE b = 1
    <3>1. P[b] = 2 /\ P[b - 1] = 0 /\ ds[b] = <<h>>
      BY <1>7, <1>11, <1>12, <2>1
    <3> QED BY <1>9, <3>1
  <2>2. ASSUME NEW a \in 1..n, b = 1 + a PROVE P[b] = P[b - 1] + Len(ds[b]) + 1
    <3>1. b - 1 = a
      BY <2>2
    <3>2. ds[b] = cs[a]
      BY <1>7, <2>2
    <3>3. P[1 + a] = P[a] + Len(cs[a]) + 1
      BY <1>13
    <3> QED BY <2>2, <3>1, <3>2, <3>3, Zenon
  <2> QED BY <1>8, <2>1, <2>2
<1>15. ASSUME NEW b \in 1..(n + 1), NEW k \in 1..Len(ds[b]) PROVE D[P[b - 1] + k] = ds[b][k]
  <2>1. CASE b = 1
    <3>1. P[b - 1] = 0 /\ ds[b] = <<h>>
      BY <1>7, <1>11, <2>1
    <3>2. k = 1
      BY <1>9, <3>1
    <3> QED BY <1>6, <1>9, <3>1, <3>2
  <2>2. ASSUME NEW a \in 1..n, b = 1 + a PROVE D[P[b - 1] + k] = ds[b][k]
    <3>1. b - 1 = a
      BY <2>2
    <3>2. ds[b] = cs[a]
      BY <1>7, <2>2
    <3> QED BY <1>13, <3>1, <3>2
  <2> QED BY <1>8, <2>1, <2>2
<1>16. ASSUME NEW b \in 1..n PROVE D[P[b]] = Blank
  <2>1. CASE b = 1
    BY <1>6, <1>12, <2>1
  <2>2. CASE b # 1
    <3>1. b - 1 \in 1..n /\ b - 1 < n /\ b = 1 + (b - 1)
      BY <2>2
    <3>2. D[P[1 + (b - 1)]] = Blank
      BY <1>13, <3>1
    <3> QED BY <3>1, <3>2
  <2> QED BY <2>1, <2>2
<1>18. Len(D) = P[n + 1] - 1
  <2>1. n \in 0..n /\ 1 + n = n + 1 /\ O[n] \in Nat
    BY <1>17
  <2>2. P[n + 1] = O[n] + 2
    BY <1>11, <2>1
  <2> QED BY <1>3, <1>5, <1>6, <2>1, <2>2
<1>19. Joined(D, ds, P)
  <2>1. Len(ds) = n + 1 /\ \A b \in 1..(Len(ds) - 1) : b \in 1..n
    BY <1>7
  <2>2. P \in [0..Len(ds) -> Nat] /\ P[0] = 0
    BY <1>11, <2>1
  <2>3. ASSUME NEW b \in 1..Len(ds)
        PROVE  P[b] = P[b - 1] + Len(ds[b]) + 1 /\ \A k \in 1..Len(ds[b]) : D[P[b - 1] + k] = ds[b][k]
    <3>1. b \in 1..(n + 1)
      BY <2>1
    <3> QED BY <1>14, <1>15, <3>1, Zenon
  <2>4. Len(D) = P[Len(ds)] - 1
    BY <1>18, <2>1
  <2>5. \A b \in 1..(Len(ds) - 1) : D[P[b]] = Blank
    BY <1>16, <2>1
  <2> HIDE DEF P
  <2> QED BY <2>2, <2>3, <2>4, <2>5, Zenon DEF Joined
<1> QED BY <1>1, <1>6, <1>7, <1>10, <1>19 DEF D, ds

\* A line is a sequence of words; of some, only their lengths matter.
Line == Seq(Word)
Widths == Seq(Nat \ {0})

\* What a line of the code's own words is.
LEMMA OwnLine ==
  ASSUME NEW widths \in Widths
  PROVE  Own(widths) \in Line
<1>1. PICK n \in Nat : n = Len(widths) /\ DOMAIN widths = 1..n /\ \A w \in 1..n : widths[w] \in Nat \ {0}
  <2>1. Len(widths) \in Nat /\ DOMAIN widths = 1..Len(widths)
        /\ \A w \in 1..Len(widths) : widths[w] \in Nat \ {0}
    BY LenProperties, ElementOfSeq DEF Widths
  <2> QED BY <2>1
<1>2. \A m \in Nat \ {0} : [l \in 1..m |-> "a"] \in Word
  <2>1. SUFFICES ASSUME NEW m \in Nat \ {0} PROVE [l \in 1..m |-> "a"] \in Word
    OBVIOUS
  <2>2. [l \in 1..m |-> "a"] \in Seq(Letter) /\ Len([l \in 1..m |-> "a"]) = m
    BY DEF Letter, Latin1
  <2> QED BY <2>2, EmptySeq DEF Word
<1>3. Own(widths) = [w \in 1..n |-> [l \in 1..widths[w] |-> "a"]]
  BY <1>1 DEF Own
<1>4. \A w \in 1..n : [l \in 1..widths[w] |-> "a"] \in Word
  BY <1>1, <1>2
<1> QED BY <1>3, <1>4 DEF Line

\* The lines that the code words.
LEMMA OwnLines ==
  /\ \A a \in Nat \ {0} : Own(<<a>>) \in Line
  /\ \A a, b \in Nat \ {0} : Own(<<a, b>>) \in Line
  /\ \A a, b, c \in Nat \ {0} : Own(<<a, b, c>>) \in Line
<1>1. /\ \A a \in Nat \ {0} : <<a>> \in Widths
      /\ \A a, b \in Nat \ {0} : <<a, b>> \in Widths
      /\ \A a, b, c \in Nat \ {0} : <<a, b, c>> \in Widths
  BY DEF Widths
<1> HIDE DEF Widths
<1> QED BY <1>1, OwnLine

\* The lines of a caption file.
Stamp == Nat \X Nat \X Nat \X Nat
DocLine ==
  {Blank, [kind |-> "header"]}
    \cup [kind : {"number"}, n : Nat]
    \cup [kind : {"range"}, from : Stamp, to : Stamp]
    \cup [kind : {"text"}, line : Line]

\* A time is not lost in its hours, minutes, seconds and milliseconds.
LEMMA StampsRead ==
  ASSUME NEW ms \in Nat
  PROVE  MsToTimestamp(ms) \in Stamp /\ Millis(MsToTimestamp(ms)) = ms
<1> DEFINE h == ms \div 3600000
           m == (ms % 3600000) \div 60000
           s == (ms % 60000) \div 1000
           r == ms % 1000
<1>1. h \in Nat /\ m \in Nat /\ s \in Nat /\ r \in Nat
  BY SMT
<1>2. MsToTimestamp(ms) = <<h, m, s, r>>
  BY SMT DEF MsToTimestamp
<1>3. ms = 60000 * (ms \div 60000) + (ms % 60000) /\ ms \div 60000 = 60 * h + m
  BY SMT
<1>4. ms % 60000 = 1000 * s + r
  BY SMT
<1>5. \A a, b, c, d \in Nat : ms = 60000 * (60 * a + b) + (1000 * c + d) => Millis(<<a, b, c, d>>) = ms
  BY SMT DEF Millis
<1>6. ms = 60000 * (60 * h + m) + (1000 * s + r)
  BY <1>3, <1>4, SMT
<1> HIDE DEF h, m, s, r
<1> QED BY <1>1, <1>2, <1>5, <1>6, SMT DEF Stamp

\* The lines of a cue.
RangeLine(s) == [kind |-> "range", from |-> MsToTimestamp(s.from), to |-> MsToTimestamp(s.to)]
TextLine(s) == [kind |-> "text", line |-> PrefixedLine(s)]
Timed(s) == s \in Segment /\ s.from >= 0 /\ s.to >= 0

\* The lines of a cue are lines, with its times.
LEMMA LinesAre ==
  ASSUME NEW s, Timed(s)
  PROVE  /\ RangeLine(s) \in DocLine /\ TextLine(s) \in DocLine
         /\ Millis(RangeLine(s).from) = s.from /\ Millis(RangeLine(s).to) = s.to
<1>1. s.from \in Nat /\ s.to \in Nat /\ s.words \in Line
  BY DEF Timed, Segment, Line
<1>2. PrefixedLine(s) \in Line
  <2>1. Own(<<7, 2>>) \in Line /\ <<>> \in Line
    BY OwnLines DEF Line
  <2> QED BY <1>1, <2>1, ConcatProperties DEF PrefixedLine, Line
<1>3. /\ MsToTimestamp(s.from) \in Stamp /\ Millis(MsToTimestamp(s.from)) = s.from
      /\ MsToTimestamp(s.to) \in Stamp /\ Millis(MsToTimestamp(s.to)) = s.to
  BY <1>1, StampsRead
<1> QED BY <1>2, <1>3 DEF RangeLine, TextLine, DocLine

\* Short sequences, joined and cut.
LEMMA TwoJoined ==
  ASSUME NEW a, NEW b, NEW c
  PROVE  <<a>> \o <<b>> = <<a, b>>
<1> DEFINE S == {a, b, c}
           q == <<a>> \o <<b>>
<1>1. /\ <<a>> \in Seq(S) /\ <<b>> \in Seq(S) /\ <<b, c>> \in Seq(S)
      /\ <<a, b>> \in Seq(S) /\ <<a, b, c>> \in Seq(S) /\ <<c>> \in Seq(S)
  OBVIOUS
<1> HIDE DEF S
<1>2. q \in Seq(S) /\ Len(q) = 2 /\ \A i \in 1..2 : q[i] = IF i <= 1 THEN <<a>>[i] ELSE <<b>>[i - 1]
  BY <1>1, ConcatProperties
<1> HIDE DEF q
<1>3. \A i \in 1..2 : q[i] = <<a, b>>[i]
  BY <1>2
<1>4. q = <<a, b>>
  BY <1>1, <1>2, <1>3, SeqEqual
<1> QED BY <1>4 DEF q

LEMMA ThreeJoined ==
  ASSUME NEW a, NEW b, NEW c
  PROVE  <<a>> \o <<b, c>> = <<a, b, c>>
<1> DEFINE S == {a, b, c}
           q == <<a>> \o <<b, c>>
<1>1. /\ <<a>> \in Seq(S) /\ <<b>> \in Seq(S) /\ <<b, c>> \in Seq(S)
      /\ <<a, b>> \in Seq(S) /\ <<a, b, c>> \in Seq(S) /\ <<c>> \in Seq(S)
  OBVIOUS
<1> HIDE DEF S
<1>2. q \in Seq(S) /\ Len(q) = 3 /\ \A i \in 1..3 : q[i] = IF i <= 1 THEN <<a>>[i] ELSE <<b, c>>[i - 1]
  BY <1>1, ConcatProperties
<1> HIDE DEF q
<1>3. \A i \in 1..3 : q[i] = <<a, b, c>>[i]
  BY <1>2
<1>4. q = <<a, b, c>>
  BY <1>1, <1>2, <1>3, SeqEqual
<1> QED BY <1>4 DEF q

LEMMA LastOfTwo ==
  ASSUME NEW a, NEW b, NEW c
  PROVE  SubSeq(<<a, b>>, 2, 2) = <<b>>
<1> DEFINE S == {a, b, c}
           q == SubSeq(<<a, b>>, 2, 2)
<1>1. /\ <<a>> \in Seq(S) /\ <<b>> \in Seq(S) /\ <<b, c>> \in Seq(S)
      /\ <<a, b>> \in Seq(S) /\ <<a, b, c>> \in Seq(S) /\ <<c>> \in Seq(S)
  OBVIOUS
<1> HIDE DEF S
<1>2. q \in Seq(S) /\ Len(q) = 1 /\ \A i \in 1..1 : q[i] = <<a, b>>[2 + i - 1]
  BY <1>1, SubSeqProperties
<1> HIDE DEF q
<1>3. \A i \in 1..1 : q[i] = <<b>>[i]
  BY <1>2
<1>4. q = <<b>>
  BY <1>1, <1>2, <1>3, SeqEqual
<1> QED BY <1>4 DEF q

LEMMA LastOfThree ==
  ASSUME NEW a, NEW b, NEW c
  PROVE  SubSeq(<<a, b, c>>, 3, 3) = <<c>>
<1> DEFINE S == {a, b, c}
           q == SubSeq(<<a, b, c>>, 3, 3)
<1>1. /\ <<a>> \in Seq(S) /\ <<b>> \in Seq(S) /\ <<b, c>> \in Seq(S)
      /\ <<a, b>> \in Seq(S) /\ <<a, b, c>> \in Seq(S) /\ <<c>> \in Seq(S)
  OBVIOUS
<1> HIDE DEF S
<1>2. q \in Seq(S) /\ Len(q) = 1 /\ \A i \in 1..1 : q[i] = <<a, b, c>>[3 + i - 1]
  BY <1>1, SubSeqProperties
<1> HIDE DEF q
<1>3. \A i \in 1..1 : q[i] = <<c>>[i]
  BY <1>2
<1>4. q = <<c>>
  BY <1>1, <1>2, <1>3, SeqEqual
<1> QED BY <1>4 DEF q

\* The lines of a cue, with and without its number.
LEMMA CueIs ==
  ASSUME NEW s, NEW n
  PROVE  /\ PrefixedLine(s) = <<>> =>
              /\ CueLines(s) = <<RangeLine(s)>>
              /\ << [kind |-> "number", n |-> n] >> \o CueLines(s) =
                   << [kind |-> "number", n |-> n], RangeLine(s) >>
         /\ PrefixedLine(s) # <<>> =>
              /\ CueLines(s) = <<RangeLine(s), TextLine(s)>>
              /\ << [kind |-> "number", n |-> n] >> \o CueLines(s) =
                   << [kind |-> "number", n |-> n], RangeLine(s), TextLine(s) >>
<1>1. \A a : <<a>> \o <<>> = <<a>>
  OBVIOUS
<1>2. \A a, b : <<a>> \o <<b>> = <<a, b>>
  BY TwoJoined
<1>3. \A a, b, c : <<a>> \o <<b, c>> = <<a, b, c>>
  BY ThreeJoined
<1>4. CueLines(s) = <<RangeLine(s)>> \o IF PrefixedLine(s) = <<>> THEN <<>> ELSE <<TextLine(s)>>
  BY DEF CueLines, RangeLine, TextLine
<1>5. PrefixedLine(s) = <<>> => CueLines(s) = <<RangeLine(s)>>
  BY <1>1, <1>4
<1>6. PrefixedLine(s) # <<>> => CueLines(s) = <<RangeLine(s), TextLine(s)>>
  BY <1>2, <1>4
<1> QED BY <1>2, <1>3, <1>5, <1>6

\* A cue has no blank line, and is read as the segment it is made of.
LEMMA CuesRead ==
  ASSUME NEW s, Timed(s), NEW n \in Nat,
         NEW p \in {CueLines(s), << [kind |-> "number", n |-> n] >> \o CueLines(s)}
  PROVE  /\ p \in Seq(DocLine) /\ p # <<>> /\ p[1].kind # "header" /\ IsCueOf(p, s)
         /\ \A k \in 1..Len(p) : p[k] # Blank
<1> DEFINE N == [kind |-> "number", n |-> n]
           R == RangeLine(s)
           T == TextLine(s)
<1>1. /\ N \in DocLine /\ R \in DocLine /\ T \in DocLine
      /\ N.kind = "number" /\ R.kind = "range" /\ T.kind = "text" /\ Blank.kind = "blank"
      /\ Millis(R.from) = s.from /\ Millis(R.to) = s.to
  BY LinesAre DEF RangeLine, TextLine, Blank, DocLine
<1>2. T = [kind |-> "text", line |-> PrefixedLine(s)]
  BY DEF TextLine
<1>3. \/ PrefixedLine(s) = <<>> /\ (p = <<R>> \/ p = <<N, R>>)
      \/ PrefixedLine(s) # <<>> /\ (p = <<R, T>> \/ p = <<N, R, T>>)
  BY CueIs
<1>9. Len(<<R>>) = 1 /\ Len(<<N, R>>) = 2 /\ Len(<<R, T>>) = 2 /\ Len(<<N, R, T>>) = 3
  OBVIOUS
<1> HIDE DEF N, R, T
<1>4. CASE p = <<R>>
  <2>1. Len(p) = 1 /\ p[1] = R /\ DOMAIN p = {1}
    BY <1>4
  <2>2. (CHOOSE i \in DOMAIN p : p[i].kind = "range") = 1
    BY <1>1, <2>1
  <2>3. SubSeq(p, 2, 1) = <<>>
    BY <1>4
  <2>5. p \in Seq(DocLine) /\ p # <<>> /\ \A k \in 1..Len(p) : p[k] # Blank
    BY <1>1, <1>4, <2>1
  <2>6. IsCueOf(p, s)
    BY <1>1, <1>2, <1>3, <1>9, <1>4, <2>1, <2>2, <2>3 DEF IsCueOf
  <2> QED BY <1>1, <2>1, <2>5, <2>6
<1>5. CASE p = <<N, R>>
  <2>1. Len(p) = 2 /\ p[1] = N /\ p[2] = R /\ DOMAIN p = {1, 2}
    BY <1>5
  <2>2. (CHOOSE i \in DOMAIN p : p[i].kind = "range") = 2
    BY <1>1, <2>1
  <2>3. SubSeq(p, 3, 2) = <<>>
    BY <1>5
  <2>5. p \in Seq(DocLine) /\ p # <<>> /\ \A k \in 1..Len(p) : p[k] # Blank
    BY <1>1, <1>5, <2>1
  <2>6. IsCueOf(p, s)
    BY <1>1, <1>2, <1>3, <1>9, <1>5, <2>1, <2>2, <2>3 DEF IsCueOf
  <2> QED BY <1>1, <2>1, <2>5, <2>6
<1>6. CASE p = <<R, T>>
  <2>1. Len(p) = 2 /\ p[1] = R /\ p[2] = T /\ DOMAIN p = {1, 2}
    BY <1>6
  <2>2. (CHOOSE i \in DOMAIN p : p[i].kind = "range") = 1
    BY <1>1, <2>1
  <2>3. SubSeq(p, 2, 2) = <<T>>
    BY <1>6, LastOfTwo
  <2>5. p \in Seq(DocLine) /\ p # <<>> /\ \A k \in 1..Len(p) : p[k] # Blank
    BY <1>1, <1>6, <2>1
  <2>4. <<N, R>>[1] = N /\ N # R
    BY <1>1
  <2>7. PrefixedLine(s) # <<>>
    BY <1>3, <1>9, <2>1, <2>4
  <2>8. SubSeq(p, 1 + 1, Len(p)) = << [kind |-> "text", line |-> PrefixedLine(s)] >>
    BY <1>2, <2>1, <2>3
  <2>6. IsCueOf(p, s)
    BY <1>1, <2>1, <2>2, <2>7, <2>8 DEF IsCueOf
  <2> QED BY <1>1, <2>1, <2>5, <2>6
<1>7. CASE p = <<N, R, T>>
  <2>1. Len(p) = 3 /\ p[1] = N /\ p[2] = R /\ p[3] = T /\ DOMAIN p = {1, 2, 3}
    BY <1>7
  <2>2. (CHOOSE i \in DOMAIN p : p[i].kind = "range") = 2
    BY <1>1, <2>1
  <2>4. SubSeq(<<N, R, T>>, 3, 3) = <<T>>
    BY LastOfThree
  <2>3. SubSeq(p, 3, 3) = <<T>>
    BY <1>7, <2>4
  <2>5. p \in Seq(DocLine) /\ p # <<>> /\ \A k \in 1..Len(p) : p[k] # Blank
    BY <1>1, <1>7, <2>1
  <2>7. PrefixedLine(s) # <<>>
    BY <1>3, <1>7, <1>9
  <2>8. SubSeq(p, 2 + 1, Len(p)) = << [kind |-> "text", line |-> PrefixedLine(s)] >>
    BY <1>2, <2>1, <2>3
  <2>6. IsCueOf(p, s)
    BY <1>1, <2>1, <2>2, <2>7, <2>8 DEF IsCueOf
  <2> QED BY <1>1, <2>1, <2>5, <2>6
<1> QED BY <1>3, <1>4, <1>5, <1>6, <1>7

\* Nothing at all is one empty part.
Parts(cs) == IF cs = <<>> THEN << <<>> >> ELSE cs

\* What JoinWithBlank joins has the parts it was given.
LEMMA PartsAreJoined ==
  ASSUME NEW X, Blank \in X, NEW cs \in Seq(Seq(X)),
         \A b \in 1..Len(cs) : \A k \in 1..Len(cs[b]) : cs[b][k] # Blank
  PROVE  /\ BlankFree(X, Parts(cs)) /\ JoinWithBlank(cs) \in Seq(X)
         /\ \E O : Joined(JoinWithBlank(cs), Parts(cs), O)
<1>1. CASE cs # <<>>
  <2>1. BlankFree(X, cs) /\ Parts(cs) = cs
    BY <1>1 DEF BlankFree, Parts
  <2> QED BY <2>1, JoinIsJoined
<1>2. CASE cs = <<>>
  <2> DEFINE O == [b \in 0..1 |-> b]
             ps == << <<>> >>
  <2>1. JoinWithBlank(cs) = <<>>
    <3>1. [b \in DOMAIN cs |-> IF b < Len(cs) THEN Append(cs[b], Blank) ELSE cs[b]] = <<>>
      BY <1>2
    <3>2. FlattenSeq(<<>>) = <<>>
      BY DEF FlattenSeq
    <3> QED BY <3>1, <3>2 DEF JoinWithBlank
  <2>2. Parts(cs) = ps
    BY <1>2 DEF Parts
  <2>3. Len(ps) = 1 /\ ps[1] = <<>> /\ ps \in Seq(Seq(X)) /\ ps # <<>>
    OBVIOUS
  <2>4. <<>> \in Seq(X) /\ Len(<<>>) = 0
    OBVIOUS
  <2>5. O \in [0..1 -> Nat] /\ O[0] = 0 /\ O[1] = 1
    OBVIOUS
  <2> HIDE DEF O, ps
  <2>6. BlankFree(X, ps)
    BY <2>3, <2>4 DEF BlankFree
  <2>7. Joined(<<>>, ps, O)
    <3>1. \A b \in 1..Len(ps) : b = 1 /\ b - 1 = 0
      BY <2>3
    <3>2. 1..(Len(ps) - 1) = {}
      BY <2>3
    <3>3. O \in [0..Len(ps) -> Nat] /\ Len(<<>>) = O[Len(ps)] - 1
      BY <2>3, <2>4, <2>5
    <3>4. \A b \in 1..Len(ps) : O[b] = O[b - 1] + Len(ps[b]) + 1
      BY <2>3, <2>4, <2>5, <3>1
    <3>5. \A b \in 1..Len(ps) : 1..Len(ps[b]) = {}
      BY <2>3, <2>4, <3>1
    <3> QED BY <2>5, <3>2, <3>3, <3>4, <3>5 DEF Joined
  <2> QED BY <2>1, <2>2, <2>4, <2>6, <2>7
<1> QED BY <1>1, <1>2

\* The captions of a text: its cues are what a viewer reads as such.
Captions(doc, segs) ==
  LET shown == Paragraphs(doc)
      cues == {p \in DOMAIN shown : shown[p] # <<>> /\ shown[p][1].kind # "header"}
  IN \E first \in 0..1 :
       /\ cues = (first + 1)..(first + Len(segs))
       /\ \A i \in DOMAIN segs : IsCueOf(shown[first + i], segs[i])

\* A document whose parts from first + 1 on are cues, and no others, is read.
LEMMA CuesAreParts ==
  ASSUME NEW X, NEW doc \in Seq(X), NEW parts, NEW O, BlankFree(X, parts), Joined(doc, parts, O),
         NEW segs \in Seq(Segment), NEW first \in 0..1, Len(parts) >= first + Len(segs),
         \A i \in 1..Len(segs) : /\ parts[first + i] # <<>> /\ parts[first + i][1].kind # "header"
                                 /\ IsCueOf(parts[first + i], segs[i]),
         \A p \in 1..Len(parts) : p \in (first + 1)..(first + Len(segs))
                                  \/ parts[p] = <<>> \/ parts[p][1].kind = "header"
  PROVE  Captions(doc, segs)
<1>1. PICK n \in Nat : n = Len(segs) /\ DOMAIN segs = 1..n
  BY LenProperties
<1>2. PICK m \in Nat : m = Len(parts)
  BY PartsOf
<1> DEFINE shown == Paragraphs(doc)
           cues == {p \in DOMAIN shown : shown[p] # <<>> /\ shown[p][1].kind # "header"}
<1>3. DOMAIN shown = 1..m /\ \A p \in 1..m : shown[p] = parts[p]
  BY <1>2, PartsAreParagraphs
<1> HIDE DEF shown
<1>4. \A i \in 1..n : first + i \in 1..m
  BY <1>1, <1>2
<1>5. \A p \in (first + 1)..(first + n) : p \in 1..m /\ \E i \in 1..n : p = first + i
  <2>1. SUFFICES ASSUME NEW p \in (first + 1)..(first + n)
                 PROVE  p \in 1..m /\ \E i \in 1..n : p = first + i
    OBVIOUS
  <2>2. p - first \in 1..n /\ p = first + (p - first)
    OBVIOUS
  <2>3. p \in 1..m
    BY <1>1, <1>2
  <2> QED BY <2>2, <2>3
<1>6. ASSUME NEW p \in cues PROVE p \in (first + 1)..(first + n)
  BY <1>1, <1>2, <1>3
<1>7. ASSUME NEW p \in (first + 1)..(first + n) PROVE p \in cues
  <2>1. PICK i \in 1..n : p = first + i
    BY <1>5
  <2>2. parts[p] # <<>> /\ parts[p][1].kind # "header"
    BY <1>1, <2>1
  <2> QED BY <1>3, <1>5, <2>2
<1>8. cues = (first + 1)..(first + Len(segs))
  BY <1>1, <1>6, <1>7
<1>9. \A i \in DOMAIN segs : IsCueOf(shown[first + i], segs[i])
  BY <1>1, <1>3, <1>4
<1> QED BY <1>8, <1>9 DEF Captions, shown

\* The cues of a text, without their numbers (numbered = FALSE) or with them.
CuesOf(segs, numbered) ==
  [i \in DOMAIN segs |->
     IF numbered THEN << [kind |-> "number", n |-> i] >> \o CueLines(segs[i]) ELSE CueLines(segs[i])]

\* A text whose times are not before 0.
TimedText(segs) == segs \in Seq(Segment) /\ \A i \in 1..Len(segs) : Timed(segs[i])

\* The cues of a text.
LEMMA CuesOfText ==
  ASSUME NEW segs, TimedText(segs), NEW numbered \in BOOLEAN
  PROVE  LET cs == CuesOf(segs, numbered) IN
         /\ cs \in Seq(Seq(DocLine)) /\ Len(cs) = Len(segs)
         /\ \A i \in 1..Len(segs) :
              /\ cs[i] # <<>> /\ cs[i][1].kind # "header" /\ IsCueOf(cs[i], segs[i])
              /\ \A k \in 1..Len(cs[i]) : cs[i][k] # Blank
<1> DEFINE cs == CuesOf(segs, numbered)
<1>1. PICK n \in Nat : n = Len(segs) /\ DOMAIN segs = 1..n
  BY LenProperties DEF TimedText
<1>2. ASSUME NEW i \in 1..n
      PROVE  /\ cs[i] \in Seq(DocLine) /\ cs[i] # <<>> /\ cs[i][1].kind # "header"
             /\ IsCueOf(cs[i], segs[i]) /\ \A k \in 1..Len(cs[i]) : cs[i][k] # Blank
  <2>1. cs[i] \in {CueLines(segs[i]), << [kind |-> "number", n |-> i] >> \o CueLines(segs[i])}
    BY <1>1 DEF CuesOf
  <2>2. Timed(segs[i]) /\ i \in Nat
    BY <1>1 DEF TimedText
  <2> HIDE DEF cs
  <2> QED BY <2>1, <2>2, CuesRead
<1>3. cs = [i \in 1..n |-> cs[i]]
  BY <1>1 DEF CuesOf
<1> HIDE DEF cs
<1>4. cs \in [1..n -> Seq(DocLine)]
  BY <1>2, <1>3
<1>5. cs \in Seq(Seq(DocLine)) /\ Len(cs) = n
  BY <1>4
<1> QED BY <1>1, <1>2, <1>5 DEF cs

\* Joined, they are the parts of a document.
LEMMA JoinedCues ==
  ASSUME NEW segs, TimedText(segs), NEW numbered \in BOOLEAN
  PROVE  LET cs == CuesOf(segs, numbered) IN
         /\ BlankFree(DocLine, Parts(cs)) /\ JoinWithBlank(cs) \in Seq(DocLine)
         /\ \E O : Joined(JoinWithBlank(cs), Parts(cs), O)
         /\ Len(Parts(cs)) >= Len(segs)
         /\ \A i \in 1..Len(segs) :
              /\ Parts(cs)[i] # <<>> /\ Parts(cs)[i][1].kind # "header"
              /\ IsCueOf(Parts(cs)[i], segs[i])
         /\ \A p \in 1..Len(Parts(cs)) : p \in 1..Len(segs) \/ Parts(cs)[p] = <<>>
<1> DEFINE cs == CuesOf(segs, numbered)
<1>1. /\ cs \in Seq(Seq(DocLine)) /\ Len(cs) = Len(segs)
      /\ \A i \in 1..Len(segs) :
           /\ cs[i] # <<>> /\ cs[i][1].kind # "header" /\ IsCueOf(cs[i], segs[i])
           /\ \A k \in 1..Len(cs[i]) : cs[i][k] # Blank
  BY CuesOfText
<1> HIDE DEF cs
<1>2. Blank \in DocLine
  BY DEF DocLine
<1>3. /\ BlankFree(DocLine, Parts(cs)) /\ JoinWithBlank(cs) \in Seq(DocLine)
      /\ \E O : Joined(JoinWithBlank(cs), Parts(cs), O)
  BY <1>1, <1>2, PartsAreJoined
<1>4. CASE cs = <<>>
  <2>1. Len(segs) = 0
    BY <1>1, <1>4
  <2>2. Parts(cs) = << <<>> >>
    BY <1>4 DEF Parts
  <2>3. Len(Parts(cs)) >= Len(segs) /\ \A p \in 1..Len(Parts(cs)) : Parts(cs)[p] = <<>>
    BY <2>1, <2>2
  <2> QED BY <1>3, <2>1, <2>3 DEF cs
<1>5. CASE cs # <<>>
  <2>1. Parts(cs) = cs
    BY <1>5 DEF Parts
  <2>2. Len(segs) \in Nat
    BY <1>1, LenProperties
  <2> QED BY <1>1, <1>3, <2>1, <2>2 DEF cs
<1> QED BY <1>4, <1>5

\* (transcript-format.ts toSrt)
LEMMA SrtIsRead == ASSUME NEW segs, TimedText(segs) PROVE Captions(ToSrt(segs), segs)
<1> DEFINE cs == CuesOf(segs, TRUE)
           ps == Parts(cs)
<1>1. ToSrt(segs) = JoinWithBlank(cs)
  BY DEF ToSrt, CuesOf
<1>2. /\ BlankFree(DocLine, ps) /\ JoinWithBlank(cs) \in Seq(DocLine)
      /\ \E O : Joined(JoinWithBlank(cs), ps, O)
      /\ Len(ps) >= Len(segs)
      /\ \A i \in 1..Len(segs) :
           ps[i] # <<>> /\ ps[i][1].kind # "header" /\ IsCueOf(ps[i], segs[i])
      /\ \A p \in 1..Len(ps) : p \in 1..Len(segs) \/ ps[p] = <<>>
  BY JoinedCues
<1> HIDE DEF cs, ps
<1>3. PICK O : Joined(JoinWithBlank(cs), ps, O)
  BY <1>2
<1>4. segs \in Seq(Segment) /\ Len(segs) \in Nat
  BY LenProperties DEF TimedText
<1>5. Len(ps) \in Nat
  BY <1>2, PartsOf
<1>6. /\ 0 \in 0..1 /\ Len(ps) >= 0 + Len(segs) /\ (0 + 1)..(0 + Len(segs)) = 1..Len(segs)
      /\ \A i \in 1..Len(segs) : 0 + i = i
  BY <1>2, <1>4, <1>5
<1>7. \A i \in 1..Len(segs) : /\ ps[0 + i] # <<>> /\ ps[0 + i][1].kind # "header"
                              /\ IsCueOf(ps[0 + i], segs[i])
  BY <1>2, <1>6
<1>8. \A p \in 1..Len(ps) : p \in (0 + 1)..(0 + Len(segs)) \/ ps[p] = <<>> \/ ps[p][1].kind = "header"
  BY <1>2, <1>6
<1> QED BY <1>1, <1>2, <1>3, <1>4, <1>6, <1>7, <1>8, CuesAreParts

\* (transcript-format.ts toVtt)
LEMMA VttIsRead == ASSUME NEW segs, TimedText(segs) PROVE Captions(ToVtt(segs), segs)
<1> DEFINE cs == CuesOf(segs, FALSE)
           ps == Parts(cs)
           h == [kind |-> "header"]
           ds == << <<h>> >> \o ps
<1>1. ToVtt(segs) = <<h, Blank>> \o JoinWithBlank(cs)
  BY DEF ToVtt, CuesOf
<1>2. /\ BlankFree(DocLine, ps) /\ JoinWithBlank(cs) \in Seq(DocLine)
      /\ \E O : Joined(JoinWithBlank(cs), ps, O)
      /\ Len(ps) >= Len(segs)
      /\ \A i \in 1..Len(segs) :
           ps[i] # <<>> /\ ps[i][1].kind # "header" /\ IsCueOf(ps[i], segs[i])
      /\ \A p \in 1..Len(ps) : p \in 1..Len(segs) \/ ps[p] = <<>>
  BY JoinedCues
<1>3. h \in DocLine /\ Blank \in DocLine /\ h # Blank /\ h.kind = "header" /\ <<h>>[1] = h
  BY DEF DocLine, Blank
<1> HIDE DEF cs, ps, h
<1>4. PICK O : Joined(JoinWithBlank(cs), ps, O)
  BY <1>2
<1>5. /\ ToVtt(segs) \in Seq(DocLine) /\ BlankFree(DocLine, ds)
      /\ Len(ds) = Len(ps) + 1 /\ ds[1] = <<h>>
      /\ \A b \in 1..Len(ps) : ds[1 + b] = ps[b]
      /\ \E P : Joined(ToVtt(segs), ds, P)
  BY <1>1, <1>2, <1>3, <1>4, HeaderIsJoined
<1> HIDE DEF ds
<1>6. PICK P : Joined(ToVtt(segs), ds, P)
  BY <1>5
<1>7. segs \in Seq(Segment) /\ Len(segs) \in Nat
  BY LenProperties DEF TimedText
<1>8. Len(ps) \in Nat
  BY <1>2, PartsOf
<1>9. 1 \in 0..1 /\ Len(ds) >= 1 + Len(segs) /\ \A i \in 1..Len(segs) : i \in 1..Len(ps)
  BY <1>2, <1>5, <1>7, <1>8
<1>10. \A i \in 1..Len(segs) : /\ ds[1 + i] # <<>> /\ ds[1 + i][1].kind # "header"
                               /\ IsCueOf(ds[1 + i], segs[i])
  BY <1>2, <1>5, <1>9
<1>11. ASSUME NEW p \in 1..Len(ds)
       PROVE  p \in (1 + 1)..(1 + Len(segs)) \/ ds[p] = <<>> \/ ds[p][1].kind = "header"
  <2>1. CASE p = 1
    BY <1>3, <1>5, <2>1
  <2>2. CASE p # 1
    <3>1. p - 1 \in 1..Len(ps) /\ 1 + (p - 1) = p
      BY <1>5, <1>8, <2>2
    <3>2. ds[p] = ps[p - 1]
      BY <1>5, <3>1
    <3>3. p - 1 \in 1..Len(segs) \/ ps[p - 1] = <<>>
      BY <1>2, <3>1
    <3>4. p - 1 \in 1..Len(segs) => p \in (1 + 1)..(1 + Len(segs))
      BY <1>7
    <3> QED BY <3>2, <3>3, <3>4
  <2> QED BY <2>1, <2>2
<1> QED BY <1>5, <1>6, <1>7, <1>9, <1>10, <1>11, CuesAreParts

\* Labels leave the times of the segments.
LEMMA DiarizedIs ==
  ASSUME NEW raw \in Seq(Segment)
  PROVE  /\ Diarized(raw) \in Seq(Segment) /\ Len(Diarized(raw)) = Len(raw)
         /\ \A i \in 1..Len(raw) : Diarized(raw)[i].from = raw[i].from /\ Diarized(raw)[i].to = raw[i].to
<1> DEFINE segs == Diarized(raw)
           Turns(i) == {j \in 2..i : raw[j].speaker = NoSpeaker /\ Turn(raw, j)}
<1>1. /\ DOMAIN raw = 1..Len(raw) /\ Len(raw) \in Nat
      /\ \A i \in 1..Len(raw) : raw[i] \in Segment
  BY LenProperties, ElementOfSeq
<1>2. CASE HasSpeakers(raw)
  BY <1>1, <1>2 DEF Diarized
<1>3. CASE ~HasSpeakers(raw)
  <2>1. \A i \in 1..Len(raw) :
          segs[i] = raw[i] \/ segs[i] = [raw[i] EXCEPT !.speaker = 1 + (Cardinality(Turns(i)) % MaxSpeakers)]
    BY <1>1, <1>3 DEF Diarized, AssignSpeakersByGaps
  <2>2. \A i \in 1..Len(raw) : 1 + (Cardinality(Turns(i)) % MaxSpeakers) \in Nat
    <3>1. SUFFICES ASSUME NEW i \in 1..Len(raw) PROVE 1 + (Cardinality(Turns(i)) % MaxSpeakers) \in Nat
      OBVIOUS
    <3>2. IsFiniteSet(2..i)
      <4>1. i \in Int /\ 2 \in Int
        OBVIOUS
      <4> QED BY <4>1, FS_Interval, Zenon
    <3>3. Turns(i) \in SUBSET (2..i)
      OBVIOUS
    <3> HIDE DEF Turns
    <3>4. Cardinality(Turns(i)) \in Nat
      BY <3>2, <3>3, FS_Subset, FS_CardinalityType
    <3>5. \A n \in Nat : 1 + (n % MaxSpeakers) \in Nat
      BY TextAssumption
    <3> QED BY <3>4, <3>5
  <2>3. segs = [i \in 1..Len(raw) |-> segs[i]]
    BY <1>1, <1>3 DEF Diarized, AssignSpeakersByGaps
  <2> HIDE DEF segs
  <2>4. ASSUME NEW i \in 1..Len(raw)
        PROVE  segs[i] \in Segment /\ segs[i].from = raw[i].from /\ segs[i].to = raw[i].to
    <3>1. /\ \E s \in Segment : s = raw[i]
          /\ \E v \in Nat : v = 1 + (Cardinality(Turns(i)) % MaxSpeakers)
      BY <1>1, <2>2
    <3>2. PICK s \in Segment : s = raw[i]
      BY <3>1, Zenon
    <3>3. PICK v \in Nat : v = 1 + (Cardinality(Turns(i)) % MaxSpeakers)
      BY <3>1, Zenon
    <3>4. segs[i] = s \/ segs[i] = [s EXCEPT !.speaker = v]
      BY <2>1, <3>2, <3>3, Zenon
    <3>5. /\ [s EXCEPT !.speaker = v] \in Segment
          /\ [s EXCEPT !.speaker = v].from = s.from /\ [s EXCEPT !.speaker = v].to = s.to
      BY DEF Segment
    <3> QED BY <3>2, <3>4, <3>5
  <2>5. segs \in [1..Len(raw) -> Segment]
    BY <2>3, <2>4
  <2>6. segs \in Seq(Segment) /\ Len(segs) = Len(raw)
    BY <1>1, <2>5
  <2> QED BY <2>4, <2>6 DEF segs
<1> QED BY <1>2, <1>3

\* Labels leave a text with times from 0 on.
LEMMA DiarizedKeeps ==
  ASSUME NEW raw \in Seq(Segment), \A i \in DOMAIN raw : raw[i].from >= 0 /\ raw[i].to >= 0
  PROVE  TimedText(Diarized(raw))
<1>1. PICK segs \in Seq(Segment) : segs = Diarized(raw)
  BY DiarizedIs
<1>2. /\ DOMAIN raw = 1..Len(raw) /\ Len(segs) = Len(raw)
      /\ \A i \in 1..Len(segs) : segs[i] \in Segment
      /\ \A i \in 1..Len(raw) : segs[i].from = raw[i].from /\ segs[i].to = raw[i].to
  BY <1>1, DiarizedIs, LenProperties, ElementOfSeq
<1> QED BY <1>1, <1>2 DEF TimedText, Timed

-----------------------------------------------------------------------------
(* Recursive functions.                                                    *)

\* A function that is defined step by step.
Steps(S, N, step) == step \in [1..N -> [S -> S]]
Runs(S, a, N, step, f) ==
  f \in [0..N -> S] /\ f[0] = a /\ \A n \in 1..N : f[n] = step[n][f[n - 1]]

\* A function that steps give from a first value exists.
LEMMA RecursionExists ==
  ASSUME NEW S, NEW a \in S, NEW N \in Nat, NEW step, Steps(S, N, step)
  PROVE  \E f : Runs(S, a, N, step, f)
<1>0. step \in [1..N -> [S -> S]]
  BY DEF Steps
<1> DEFINE Good(m, f) == f \in [0..m -> S] /\ f[0] = a /\ \A n \in 1..m : f[n] = step[n][f[n - 1]]
           Bad == {m \in 0..N : ~\E f : Good(m, f)}
<1>1. SUFFICES ASSUME Bad # {} PROVE FALSE
  <2>1. N \in 0..N
    OBVIOUS
  <2>2. PICK f : Good(N, f)
    BY <1>1, <2>1
  <2> QED BY <2>2 DEF Runs
<1>2. PICK c \in Bad : \A d \in Bad : c <= d
  <2>1. Bad \in SUBSET Nat
    OBVIOUS
  <2> HIDE DEF Bad
  <2> QED BY <1>1, <2>1, LeastNatural
<1>3. c # 0
  <2>1. Good(0, [i \in 0..0 |-> a])
    OBVIOUS
  <2> QED BY <1>2, <2>1, ZenonT(30)
<1>4. c \in 1..N /\ c - 1 \in 0..N /\ c - 1 \notin Bad
  <2>1. c \in 0..N
    BY DEF Bad
  <2>2. c - 1 \in 0..N /\ ~(c <= c - 1) /\ c \in 1..N
    BY <1>3, <2>1
  <2> HIDE DEF Bad
  <2> QED BY <1>2, <2>2
<1>5. PICK g : Good(c - 1, g)
  BY <1>4
<1> DEFINE f == [i \in 0..c |-> IF i < c THEN g[i] ELSE step[c][g[c - 1]]]
<1>6. \A i \in 0..(c - 1) : g[i] \in S
  BY <1>5
<1>7. c - 1 \in 0..(c - 1) /\ c \in 0..c /\ 0 \in 0..c /\ 0 < c
  BY <1>4
<1>8. step[c][g[c - 1]] \in S
  BY <1>0, <1>4, <1>6, <1>7
<1>9. f \in [0..c -> S]
  <2>1. \A i \in 0..c : i < c => i \in 0..(c - 1)
    OBVIOUS
  <2> QED BY <1>6, <1>8, <2>1
<1>10. f[0] = a /\ f[c] = step[c][g[c - 1]] /\ f[c - 1] = g[c - 1]
  BY <1>4, <1>5, <1>7
<1>11. ASSUME NEW n \in 1..c PROVE f[n] = step[n][f[n - 1]]
  <2>1. CASE n = c
    BY <1>10, <2>1
  <2>2. CASE n # c
    <3>1. n \in 1..(c - 1) /\ n < c /\ n - 1 < c /\ n \in 0..c /\ n - 1 \in 0..c
      BY <1>4, <2>2
    <3>2. f[n] = g[n] /\ f[n - 1] = g[n - 1]
      BY <3>1
    <3> QED BY <1>5, <3>1, <3>2
  <2> QED BY <2>1, <2>2
<1>12. Good(c, f)
  BY <1>9, <1>10, <1>11
<1> QED BY <1>2, <1>12

\* Joining, in a form that the provers can use.
Joins(x, y, t) == t = x \o y

\* Joining is associative.
LEMMA JoinAssoc ==
  ASSUME NEW X, NEW x, NEW y, NEW z, NEW t, NEW u, NEW v,
         x \in Seq(X), y \in Seq(X), z \in Seq(X), Joins(x, y, t), Joins(y, z, u), Joins(t, z, v)
  PROVE  Joins(x, u, v)
<1>1. (x \o y) \o z = x \o (y \o z)
  BY ConcatAssociative
<1> QED BY <1>1 DEF Joins

\* The flattened beginnings of a sequence of sequences.
Flattens(ss, F) == F = [i \in 1..Len(ss) |-> IF i = 1 THEN ss[i] ELSE F[i - 1] \o ss[i]]

\* The beginnings exist.
LEMMA FlattenExists ==
  ASSUME NEW X, NEW ss \in Seq(Seq(X))
  PROVE  \E F \in [1..Len(ss) -> Seq(X)] : Flattens(ss, F)
<1>1. PICK n \in Nat : n = Len(ss)
  BY LenProperties
<1>2. \A i \in 1..n : ss[i] \in Seq(X)
  BY <1>1, ElementOfSeq
<1> DEFINE step == [i \in 1..n |-> [v \in Seq(X) |-> IF i = 1 THEN ss[i] ELSE v \o ss[i]]]
<1>3. step \in [1..n -> [Seq(X) -> Seq(X)]]
  <2>1. \A i \in 1..n : \A v \in Seq(X) : v \o ss[i] \in Seq(X)
    BY <1>2, ConcatProperties
  <2> QED BY <1>2, <2>1
<1>4. <<>> \in Seq(X)
  OBVIOUS
<1> HIDE DEF step
<1>5. PICK f \in [0..n -> Seq(X)] : f[0] = <<>> /\ \A i \in 1..n : f[i] = step[i][f[i - 1]]
  <2> DEFINE S == Seq(X)
  <2>1. Steps(S, n, step) /\ <<>> \in S /\ n \in Nat
    BY <1>3, <1>4 DEF Steps
  <2> HIDE DEF S
  <2>2. \E f : Runs(S, <<>>, n, step, f)
    BY <2>1, RecursionExists
  <2> QED BY <2>2 DEF S, Runs
<1> DEFINE F == [i \in 1..n |-> f[i]]
<1>6. F \in [1..n -> Seq(X)]
  OBVIOUS
<1>7. ASSUME NEW i \in 1..n PROVE F[i] = IF i = 1 THEN ss[i] ELSE F[i - 1] \o ss[i]
  <2>1. i - 1 \in 0..n /\ f[i - 1] \in Seq(X) /\ (i # 1 => i - 1 \in 1..n)
    OBVIOUS
  <2>2. f[i] = IF i = 1 THEN ss[i] ELSE f[i - 1] \o ss[i]
    BY <1>5, <2>1 DEF step
  <2> QED BY <2>1, <2>2
<1>8. F = [i \in 1..n |-> F[i]]
  OBVIOUS
<1> HIDE DEF F
<1>9. F = [i \in 1..n |-> IF i = 1 THEN ss[i] ELSE F[i - 1] \o ss[i]]
  BY <1>7, <1>8
<1> QED BY <1>1, <1>6, <1>9 DEF Flattens

\* Nothing to flatten.
LEMMA FlattenEmpty == FlattenSeq(<<>>) = <<>>
BY DEF FlattenSeq

\* What flattening gives.
LEMMA FlattenType ==
  ASSUME NEW X, NEW ss \in Seq(Seq(X))
  PROVE  FlattenSeq(ss) \in Seq(X)
<1>1. CASE ss = <<>>
  <2>1. <<>> \in Seq(X)
    OBVIOUS
  <2> QED BY <1>1, <2>1, FlattenEmpty
<1>2. CASE ss # <<>>
  BY <1>2, FlattenPlaces
<1> QED BY <1>1, <1>2

\* One part to flatten.
LEMMA FlattenOne ==
  ASSUME NEW x
  PROVE  FlattenSeq(<<x>>) = x
<1> DEFINE F == <<x>>
           ss == <<x>>
<1>1. Len(ss) \in Nat \ {0} /\ Len(ss) = 1 /\ ss[1] = x
  OBVIOUS
<1>2. F = [i \in 1..Len(ss) |-> IF i = 1 THEN ss[i] ELSE F[i - 1] \o ss[i]]
  OBVIOUS
<1>3. F[1] = x
  OBVIOUS
<1> HIDE DEF F, ss
<1>4. FlattenSeq(ss) = F[Len(ss)]
  BY <1>1, <1>2, FlattenIs
<1> QED BY <1>1, <1>3, <1>4 DEF ss

\* Flattening two sequences, one after the other.
LEMMA FlattenConcat ==
  ASSUME NEW X, NEW a \in Seq(Seq(X)), NEW b \in Seq(Seq(X))
  PROVE  FlattenSeq(a \o b) = FlattenSeq(a) \o FlattenSeq(b)
<1>1. FlattenSeq(a) \in Seq(X) /\ FlattenSeq(b) \in Seq(X)
  BY FlattenType
<1>2. CASE a = <<>>
  BY <1>1, <1>2, FlattenEmpty, ConcatEmptySeq
<1>3. CASE b = <<>>
  BY <1>1, <1>3, FlattenEmpty, ConcatEmptySeq
<1>4. CASE a # <<>> /\ b # <<>>
  <2>1. PICK n \in Nat \ {0} : n = Len(a)
    BY <1>4, EmptySeq, LenProperties
  <2>2. PICK m \in Nat \ {0} : m = Len(b)
    BY <1>4, EmptySeq, LenProperties
  <2>3. /\ \A i \in 1..n : a[i] \in Seq(X)
        /\ \A i \in 1..m : b[i] \in Seq(X)
    BY <2>1, <2>2, ElementOfSeq
  <2>4. PICK A \in [1..n -> Seq(X)] : Flattens(a, A)
    BY <2>1, FlattenExists
  <2>5. PICK B \in [1..m -> Seq(X)] : Flattens(b, B)
    BY <2>2, FlattenExists
  <2>6. \A i \in 1..n : A[i] = IF i = 1 THEN a[i] ELSE A[i - 1] \o a[i]
    BY <2>1, <2>4 DEF Flattens
  <2>7. \A i \in 1..m : B[i] = IF i = 1 THEN b[i] ELSE B[i - 1] \o b[i]
    BY <2>2, <2>5 DEF Flattens
  <2>8. FlattenSeq(a) = A[n] /\ FlattenSeq(b) = B[m]
    <3>1. FlattenSeq(a) = A[n]
      BY <2>1, <2>4, FlattenIs DEF Flattens
    <3>2. FlattenSeq(b) = B[m]
      BY <2>2, <2>5, FlattenIs DEF Flattens
    <3> QED BY <3>1, <3>2
  <2> DEFINE c == a \o b
             C == [i \in 1..(n + m) |-> IF i <= n THEN A[i] ELSE A[n] \o B[i - n]]
  <2>9. Len(c) = n + m /\ \A i \in 1..(n + m) : c[i] = IF i <= n THEN a[i] ELSE b[i - n]
    BY <2>1, <2>2, ConcatProperties
  <2>10. ASSUME NEW i \in 1..(n + m) PROVE C[i] = IF i = 1 THEN c[i] ELSE C[i - 1] \o c[i]
    <3>1. CASE i <= n
      <4>1. i \in 1..n /\ C[i] = A[i] /\ c[i] = a[i]
        BY <2>9, <3>1
      <4>2. i # 1 => i - 1 \in 1..(n + m) /\ i - 1 <= n
        BY <3>1
      <4>3. i # 1 => C[i - 1] = A[i - 1]
        BY <4>2
      <4> QED BY <2>6, <4>1, <4>3
    <3>2. CASE i = n + 1
      <4>1. i # 1 /\ ~(i <= n) /\ i - n = 1 /\ i - 1 = n /\ n \in 1..(n + m) /\ 1 \in 1..m
        BY <3>2
      <4>4. c[i] = b[1]
        BY <2>9, <4>1
      <4>5. C[i] = A[n] \o B[i - n]
        BY <4>1
      <4>6. C[n] = A[n]
        BY <4>1
      <4>2. C[i] = A[n] \o B[1] /\ c[i] = b[1] /\ C[i - 1] = A[n]
        BY <4>1, <4>4, <4>5, <4>6
      <4>3. B[1] = b[1]
        BY <2>7, <4>1
      <4> QED BY <4>1, <4>2, <4>3
    <3>3. CASE i > n + 1
      <4>1. /\ i # 1 /\ ~(i <= n) /\ ~(i - 1 <= n) /\ i - 1 \in 1..(n + m)
            /\ i - n \in 1..m /\ i - n # 1 /\ i - n - 1 \in 1..m /\ i - 1 - n = i - n - 1
        BY <3>3
      <4>2. C[i] = A[n] \o B[i - n] /\ c[i] = b[i - n] /\ C[i - 1] = A[n] \o B[i - n - 1]
        BY <2>9, <4>1
      <4>3. B[i - n] = B[i - n - 1] \o b[i - n]
        BY <2>7, <4>1
      <4>4. A[n] \in Seq(X) /\ B[i - n - 1] \in Seq(X) /\ b[i - n] \in Seq(X)
        <5>1. n \in 1..n
          OBVIOUS
        <5> QED BY <2>3, <4>1, <5>1
      <4>5. C[i - 1] \o c[i] = A[n] \o B[i - n]
        <5>1. PICK p \in Seq(X) : p = A[n]
          BY <4>4
        <5>2. PICK q \in Seq(X) : q = B[i - n - 1]
          BY <4>4
        <5>3. PICK r \in Seq(X) : r = b[i - n]
          BY <4>4
        <5>4. PICK t, u, v : t = C[i - 1] /\ u = B[i - n] /\ v = t \o r
          OBVIOUS
        <5>5. Joins(p, q, t) /\ Joins(q, r, u) /\ Joins(t, r, v)
          BY <4>2, <4>3, <5>1, <5>2, <5>3, <5>4 DEF Joins
        <5>6. Joins(p, u, v)
          BY <5>5, JoinAssoc
        <5> QED BY <4>2, <5>1, <5>3, <5>4, <5>6 DEF Joins
      <4> QED BY <4>1, <4>2, <4>5
    <3>4. i <= n \/ i = n + 1 \/ i > n + 1
      OBVIOUS
    <3> QED BY <3>1, <3>2, <3>3, <3>4
  <2>11. C = [i \in 1..(n + m) |-> C[i]] /\ C[n + m] = A[n] \o B[m]
    <3>1. n + m \in 1..(n + m) /\ ~(n + m <= n) /\ n + m - n = m
      OBVIOUS
    <3>4. PICK k \in 1..(n + m) : k = n + m
      BY <3>1
    <3>5. ~(k <= n) /\ k - n = m
      BY <3>4
    <3>6. C[k] = A[n] \o B[k - n]
      BY <3>5
    <3>2. C[n + m] = A[n] \o B[m]
      BY <3>4, <3>5, <3>6, Zenon
    <3>3. C = [i \in 1..(n + m) |-> C[i]]
      OBVIOUS
    <3> HIDE DEF C
    <3> QED BY <3>2, <3>3
  <2> HIDE DEF C, c
  <2>12. C = [i \in 1..(n + m) |-> IF i = 1 THEN c[i] ELSE C[i - 1] \o c[i]]
    BY <2>10, <2>11
  <2>13. FlattenSeq(c) = C[n + m]
    <3>1. Len(c) \in Nat \ {0}
      BY <2>9
    <3>2. C = [i \in 1..Len(c) |-> IF i = 1 THEN c[i] ELSE C[i - 1] \o c[i]]
      BY <2>9, <2>12
    <3>3. FlattenSeq(c) = C[Len(c)]
      BY <3>1, <3>2, FlattenIs, Zenon
    <3> QED BY <2>9, <3>3
  <2> QED BY <2>8, <2>11, <2>13 DEF c
<1> QED BY <1>2, <1>3, <1>4

-----------------------------------------------------------------------------
(* The notes.                                                              *)

\* What filtering gives.
LEMMA ThoseType ==
  ASSUME NEW S, NEW s \in Seq(S), NEW I
  PROVE  Those(s, I) \in Seq(S)
<1>1. PICK n \in Nat : n = Len(s) /\ \A i \in 1..n : s[i] \in S
  BY LenProperties, ElementOfSeq
<1> DEFINE T == Seq(S)
           upTo[i \in 0..n] ==
             IF i = 0 THEN <<>> ELSE IF i \in I THEN Append(upTo[i - 1], s[i]) ELSE upTo[i - 1]
           step == [i \in 1..n |-> [v \in T |-> IF i \in I THEN Append(v, s[i]) ELSE v]]
           Bad == {i \in 0..n : upTo[i] \notin T}
<1>2. \A i \in 1..n : \A v \in T : Append(v, s[i]) \in T
  BY <1>1, AppendProperties
<1>3. <<>> \in T
  OBVIOUS
<1> HIDE DEF T
<1>4. Steps(T, n, step)
  BY <1>2 DEF Steps
<1>5. PICK f : Runs(T, <<>>, n, step, f)
  <2> HIDE DEF step
  <2> QED BY <1>3, <1>4, RecursionExists
<1>6. f = [i \in 0..n |->
             IF i = 0 THEN <<>> ELSE IF i \in I THEN Append(f[i - 1], s[i]) ELSE f[i - 1]]
  <2>1. f = [i \in 0..n |-> f[i]] /\ f[0] = <<>>
    BY <1>5 DEF Runs
  <2>2. ASSUME NEW i \in 0..n, i # 0
        PROVE  f[i] = IF i \in I THEN Append(f[i - 1], s[i]) ELSE f[i - 1]
    <3>1. i \in 1..n /\ i - 1 \in 0..n
      BY <2>2
    <3>2. f[i] = step[i][f[i - 1]] /\ f[i - 1] \in T
      BY <1>5, <3>1 DEF Runs
    <3> QED BY <3>1, <3>2
  <2> QED BY <2>1, <2>2
<1>7. upTo = [i \in 0..n |->
                IF i = 0 THEN <<>> ELSE IF i \in I THEN Append(upTo[i - 1], s[i]) ELSE upTo[i - 1]]
  <2> HIDE DEF step
  <2> QED BY <1>6
<1>8. Those(s, I) = upTo[n]
  BY <1>1, Zenon DEF Those
<1> HIDE DEF upTo
<1>9. Bad = {}
  <2>1. SUFFICES ASSUME Bad # {} PROVE FALSE
    OBVIOUS
  <2>2. PICK i \in Bad : \A j \in Bad : i <= j
    <3>1. Bad \in SUBSET Nat
      OBVIOUS
    <3> HIDE DEF Bad
    <3> QED BY <2>1, <3>1, LeastNatural
  <2>3. i # 0
    BY <1>3, <1>7
  <2>4. i \in 1..n /\ i - 1 \in 0..n /\ i - 1 \notin Bad
    <3>1. i \in 0..n
      OBVIOUS
    <3>2. i \in 1..n /\ i - 1 \in 0..n /\ ~(i <= i - 1)
      BY <2>3, <3>1
    <3> QED BY <2>2, <3>2
  <2>5. upTo[i - 1] \in T
    BY <2>4
  <2>6. upTo[i] \in {Append(upTo[i - 1], s[i]), upTo[i - 1]}
    BY <1>7, <2>3
  <2>7. upTo[i] \in T
    BY <1>2, <2>4, <2>5, <2>6
  <2> QED BY <2>7
<1> QED BY <1>8, <1>9 DEF T

\* What dedupeTop gives.
LEMMA TopType ==
  ASSUME NEW items \in Seq(Line), NEW n \in Nat
  PROVE  DedupeTop(items, n) \in Seq(Line)
<1>1. PICK I : I = {i \in DOMAIN items : \A j \in 1..(i - 1) : items[j] # items[i]}
  OBVIOUS
<1>2. PICK firsts \in Seq(Line) : firsts = Those(items, I)
  BY ThoseType
<1>3. PICK k \in Nat : k = Len(firsts)
  BY LenProperties
<1>4. PICK m \in Nat : m = (IF k < n THEN k ELSE n) /\ m <= k
  OBVIOUS
<1>5. DedupeTop(items, n) = SubSeq(firsts, 1, m)
  BY <1>1, <1>2, <1>3, <1>4 DEF DedupeTop
<1>6. \A i \in 1..m : firsts[i] \in Line
  BY <1>3, <1>4, ElementOfSeq
<1> HIDE DEF Line
<1> QED BY <1>5, <1>6, SubSeqProperties

\* The words of a segment are a line.
LEMMA SegmentWords ==
  ASSUME NEW segs \in Seq(Segment)
  PROVE  /\ Len(segs) \in Nat /\ DOMAIN segs = 1..Len(segs)
         /\ \A i \in 1..Len(segs) : segs[i] \in Segment /\ segs[i].words \in Line
<1>1. Len(segs) \in Nat /\ DOMAIN segs = 1..Len(segs)
  BY LenProperties
<1>2. \A i \in 1..Len(segs) : segs[i] \in Segment
  BY ElementOfSeq
<1> QED BY <1>1, <1>2 DEF Segment, Line

\* The items of a list of the summary.
LEMMA MarkedType ==
  ASSUME NEW segs \in Seq(Segment), NEW m
  PROVE  Marked(segs, m) \in Seq(Line)
<1>1. PICK I : I = {i \in DOMAIN segs :
                      m \in segs[i].marks /\ (m = "action" => "question" \notin segs[i].marks)}
  OBVIOUS
<1>2. PICK found \in Seq(Segment) : found = Those(segs, I)
  BY ThoseType
<1>3. Marked(segs, m) = [i \in DOMAIN found |-> found[i].words]
  BY <1>1, <1>2 DEF Marked
<1>4. /\ Len(found) \in Nat /\ DOMAIN found = 1..Len(found)
      /\ \A i \in 1..Len(found) : found[i].words \in Line
  BY SegmentWords
<1> HIDE DEF Line
<1> QED BY <1>3, <1>4

\* The lines of the text.
LEMMA PlainType ==
  ASSUME NEW segs \in Seq(Segment)
  PROVE  ToPlainText(segs) \in Seq(Line)
<1>1. /\ Len(segs) \in Nat /\ DOMAIN segs = 1..Len(segs)
      /\ \A i \in 1..Len(segs) : segs[i].words \in Line
  BY SegmentWords
<1>2. \A i \in 1..Len(segs) : PrefixedLine(segs[i]) \in Line
  <2>1. Own(<<7, 2>>) \in Line /\ <<>> \in Line
    BY OwnLines DEF Line
  <2>2. \A w \in Line : Own(<<7, 2>>) \o w \in Line /\ <<>> \o w \in Line
    BY <2>1, ConcatProperties DEF Line
  <2> QED BY <1>1, <2>2 DEF PrefixedLine, Line
<1> HIDE DEF Line
<1> QED BY <1>1, <1>2 DEF ToPlainText

\* A summary.
SummaryType == [executive : Line, lists : Seq(Seq(Line))]

\* The summary of a text.
LEMMA SummarizeType ==
  ASSUME NEW segs \in Seq(Segment)
  PROVE  SummarizeText(segs) \in SummaryType
<1>1. /\ Len(segs) \in Nat /\ DOMAIN segs = 1..Len(segs)
      /\ \A i \in 1..Len(segs) : segs[i].words \in Line
  BY SegmentWords
<1> DEFINE first == [i \in 1..(IF Len(segs) < 3 THEN Len(segs) ELSE 3) |-> segs[i].words]
<1>2. first \in Seq(Line)
  <2>1. PICK n \in Nat : n = Len(segs)
    BY <1>1
  <2>2. \E k \in Nat : k = (IF n < 3 THEN n ELSE 3) /\ k <= n
    <3>1. CASE n < 3
      BY <3>1
    <3>2. CASE ~(n < 3)
      BY <3>2
    <3> QED BY <3>1, <3>2
  <2>3. PICK k \in Nat : k = (IF n < 3 THEN n ELSE 3) /\ k <= n
    BY <2>2, Zenon
  <2>4. first = [i \in 1..k |-> segs[i].words]
    BY <2>1, <2>3, Zenon
  <2>5. \A i \in 1..k : segs[i].words \in Line
    <3>1. \A i \in 1..k : i \in 1..n
      BY <2>3
    <3> QED BY <1>1, <2>1, <3>1
  <2> HIDE DEF first, Line
  <2> QED BY <2>4, <2>5
<1>3. FlattenSeq(first) \in Line
  <2> HIDE DEF first
  <2> QED BY <1>2, FlattenType DEF Line
<1>4. \A m : \A n \in Nat : DedupeTop(Marked(segs, m), n) \in Seq(Line)
  BY MarkedType, TopType
<1>5. /\ DedupeTop(Marked(segs, "action"), 15) \in Seq(Line)
      /\ DedupeTop(Marked(segs, "decision"), 10) \in Seq(Line)
      /\ DedupeTop(Marked(segs, "question"), 15) \in Seq(Line)
      /\ DedupeTop(Marked(segs, "followUp"), 10) \in Seq(Line)
  <2>1. 15 \in Nat /\ 10 \in Nat
    OBVIOUS
  <2> QED BY <1>4, <2>1
<1> HIDE DEF first, Line
<1>6. << DedupeTop(Marked(segs, "action"), 15), DedupeTop(Marked(segs, "decision"), 10),
         DedupeTop(Marked(segs, "question"), 15), DedupeTop(Marked(segs, "followUp"), 10) >>
        \in Seq(Seq(Line))
  <2>1. \A a, b, c, d \in Seq(Line) : <<a, b, c, d>> \in Seq(Seq(Line))
    OBVIOUS
  <2> QED BY <1>5, <2>1
<1>7. SummarizeText(segs) =
        [executive |-> FlattenSeq(first),
         lists |-> << DedupeTop(Marked(segs, "action"), 15), DedupeTop(Marked(segs, "decision"), 10),
                      DedupeTop(Marked(segs, "question"), 15), DedupeTop(Marked(segs, "followUp"), 10) >>]
  BY DEF SummarizeText, first
<1> QED BY <1>3, <1>6, <1>7 DEF SummaryType

\* A list of the notes.
LEMMA BulletType ==
  ASSUME NEW items \in Seq(Line)
  PROVE  BulletList(items) \in Seq(Line)
<1>1. Len(items) \in Nat /\ DOMAIN items = 1..Len(items) /\ \A i \in 1..Len(items) : items[i] \in Line
  BY LenProperties, ElementOfSeq
<1>2. \A l \in Line : Own(<<1>>) \o l \in Line
  <2>1. Own(<<1>>) \in Line
    BY OwnLines
  <2> QED BY <2>1, ConcatProperties DEF Line
<1>3. << Own(<<2, 9>>), <<>> >> \in Seq(Line) /\ <<>> \in Seq(Line)
  <2>1. Own(<<2, 9>>) \in Line /\ <<>> \in Line
    BY OwnLines DEF Line
  <2> HIDE DEF Line
  <2> QED BY <2>1
<1> HIDE DEF Line
<1>4. [i \in DOMAIN items |-> Own(<<1>>) \o items[i]] \in Seq(Line)
  BY <1>1, <1>2
<1>5. << Own(<<2, 9>>), <<>> >> \o [i \in DOMAIN items |-> Own(<<1>>) \o items[i]] \in Seq(Line)
  BY <1>3, <1>4, ConcatProperties
<1> QED BY <1>3, <1>5 DEF BulletList

\* The sections of the notes.
SectionsOf(s) ==
  <<IF s.executive = <<>> THEN <<>> ELSE << Own(<<2, 9, 7>>), <<>>, s.executive >> >>
  \o [i \in DOMAIN s.lists |-> BulletList(s.lists[i])]

\* What the notes say of a summary.
LEMMA SectionsType ==
  ASSUME NEW s \in SummaryType
  PROVE  SectionsOf(s) \in Seq(Seq(Line))
<1>1. PICK lists \in Seq(Seq(Line)) : lists = s.lists
  BY DEF SummaryType
<1>2. PICK e \in Line : e = s.executive
  BY DEF SummaryType
<1>3. /\ Len(lists) \in Nat /\ DOMAIN lists = 1..Len(lists)
      /\ \A i \in 1..Len(lists) : lists[i] \in Seq(Line)
  BY LenProperties, ElementOfSeq
<1>4. Own(<<2, 9, 7>>) \in Line /\ <<>> \in Line /\ <<>> \in Seq(Line)
  BY OwnLines DEF Line
<1> HIDE DEF Line
<1>5. \A a, b, c \in Line : <<a, b, c>> \in Seq(Line)
  OBVIOUS
<1>6. PICK h \in Seq(Line) : h = IF s.executive = <<>> THEN <<>> ELSE << Own(<<2, 9, 7>>), <<>>, s.executive >>
  BY <1>2, <1>4, <1>5
<1> DEFINE T == Seq(Line)
           bullets == [i \in DOMAIN s.lists |-> BulletList(s.lists[i])]
<1>7. \A i \in 1..Len(lists) : BulletList(lists[i]) \in T
  BY <1>3, BulletType
<1>7a. h \in T
  OBVIOUS
<1>8. bullets \in Seq(T)
  <2> HIDE DEF T
  <2> QED BY <1>1, <1>3, <1>7
<1>9. <<h>> \in Seq(T)
  <2> HIDE DEF T
  <2> QED BY <1>7a
<1> HIDE DEF bullets, T
<1>10. <<h>> \o bullets \in Seq(T)
  BY <1>8, <1>9, ConcatProperties
<1> QED BY <1>6, <1>10 DEF SectionsOf, T, bullets

\* The notes are lines of words.
LEMMA NotesType ==
  ASSUME NEW title \in Line, NEW notes \in Seq(Line),
         NEW summaries \in Seq(SummaryType), NEW segs \in Seq(Segment)
  PROVE  BuildMarkdownNotes(title, notes, summaries, segs) \in Seq(Line)
<1> DEFINE T == Seq(Line)
           top == << Own(<<1>>) \o title, <<>>, Own(<<1, 9, 24>>) >>
           written == IF notes = <<>> THEN <<>> ELSE << Own(<<2, 5>>), <<>> >> \o notes
           transcript == IF segs = <<>> THEN <<>> ELSE << Own(<<2, 10>>), <<>> >> \o ToPlainText(segs)
           said == [i \in DOMAIN summaries |-> SectionsOf(summaries[i])]
           sections == <<top, written>> \o FlattenSeq(said) \o <<transcript>>
           spaced == [i \in DOMAIN sections |->
                        IF sections[i] = <<>> THEN <<>> ELSE sections[i] \o << <<>> >>]
<1>1. BuildMarkdownNotes(title, notes, summaries, segs) = FlattenSeq(spaced)
  BY Zenon DEF BuildMarkdownNotes, SectionsOf
<1>2. /\ Own(<<1>>) \o title \in Line /\ <<>> \in Line /\ Own(<<1, 9, 24>>) \in Line
      /\ Own(<<2, 5>>) \in Line /\ Own(<<2, 10>>) \in Line
  <2>1. /\ Own(<<1>>) \in Line /\ Own(<<1, 9, 24>>) \in Line
        /\ Own(<<2, 5>>) \in Line /\ Own(<<2, 10>>) \in Line
    BY OwnLines
  <2>2. <<>> \in Line /\ Own(<<1>>) \o title \in Line
    BY <2>1, ConcatProperties DEF Line
  <2> QED BY <2>1, <2>2
<1> HIDE DEF Line
<1>3. /\ top \in T /\ <<>> \in T /\ << <<>> >> \in T
      /\ << Own(<<2, 5>>), <<>> >> \in T /\ << Own(<<2, 10>>), <<>> >> \in T
  <2>1. \A a, b, c \in Line : <<a>> \in T /\ <<a, b>> \in T /\ <<a, b, c>> \in T /\ <<>> \in T
    OBVIOUS
  <2> HIDE DEF T
  <2> QED BY <1>2, <2>1
<1>4. transcript \in T /\ written \in T
  <2>1. ToPlainText(segs) \in T /\ notes \in T
    BY PlainType
  <2>2. \A a, b \in T : a \o b \in T
    BY ConcatProperties
  <2> HIDE DEF T, top
  <2> QED BY <1>3, <2>1, <2>2
<1>5. said \in Seq(Seq(T))
  <2>1. /\ Len(summaries) \in Nat /\ DOMAIN summaries = 1..Len(summaries)
        /\ \A i \in 1..Len(summaries) : summaries[i] \in SummaryType
    BY LenProperties, ElementOfSeq
  <2>2. \A i \in 1..Len(summaries) : SectionsOf(summaries[i]) \in Seq(T)
    BY <2>1, SectionsType
  <2> HIDE DEF T
  <2> QED BY <2>1, <2>2
<1> HIDE DEF T, top, written, transcript, said
<1>6. FlattenSeq(said) \in Seq(T)
  BY <1>5, FlattenType
<1>7. sections \in Seq(T)
  <2>1. <<top, written>> \in Seq(T) /\ <<transcript>> \in Seq(T)
    BY <1>3, <1>4
  <2>2. <<top, written>> \o FlattenSeq(said) \in Seq(T)
    BY <1>6, <2>1, ConcatProperties
  <2> QED BY <2>1, <2>2, ConcatProperties
<1> HIDE DEF sections
<1>8. /\ Len(sections) \in Nat /\ DOMAIN sections = 1..Len(sections)
      /\ \A i \in 1..Len(sections) : sections[i] \in T
  BY <1>7, LenProperties, ElementOfSeq
<1>9. \A x \in T : x \o << <<>> >> \in T
  BY <1>3, ConcatProperties DEF T
<1>10. \A i \in 1..Len(sections) :
         (IF sections[i] = <<>> THEN <<>> ELSE sections[i] \o << <<>> >>) \in T
  BY <1>3, <1>8, <1>9
<1>11. spaced \in Seq(T)
  BY <1>8, <1>10
<1> HIDE DEF spaced
<1>12. FlattenSeq(spaced) \in Seq(Line)
  BY <1>11, FlattenType DEF T
<1> QED BY <1>1, <1>12

-----------------------------------------------------------------------------
(* The PDF.                                                                *)

\* Pieces, lines of pieces, and those that are not too wide.
PieceType == [word : Nat, from : Nat, to : Nat]
Strip == Seq(PieceType)
FittingStrip == {strip \in Strip : WidthOf(strip) <= MaxChars}

\* What a piece is.
LEMMA PieceIs ==
  ASSUME NEW w \in Nat, NEW a \in Nat, NEW b \in Nat
  PROVE  /\ Piece(w, a, b) \in PieceType /\ <<Piece(w, a, b)>> \in Strip
         /\ Piece(w, a, b).word = w /\ Piece(w, a, b).from = a /\ Piece(w, a, b).to = b
<1>1. Piece(w, a, b) \in PieceType
  BY DEF Piece, PieceType
<1>2. \A p \in PieceType : <<p>> \in Strip
  BY DEF Strip
<1> QED BY <1>1, <1>2 DEF Piece

\* A line with nothing on it fits.
LEMMA NoStripFits == <<>> \in FittingStrip
<1>1. Letters(<<>>) = {}
  BY DEF Letters
<1>2. WidthOf(<<>>) = 0
  BY <1>1, FS_EmptySet DEF WidthOf
<1> QED BY <1>2, TextAssumption DEF FittingStrip, Strip

\* A piece is as wide as its letters are many.
LEMMA WidthOfOne ==
  ASSUME NEW w \in Nat, NEW a \in Nat, NEW b \in Nat, a <= b
  PROVE  WidthOf(<<Piece(w, a, b)>>) = b - a
<1> DEFINE p == Piece(w, a, b)
           S == 1..1
           T == (a + 1)..b
<1>1. p.from = a /\ p.to = b
  BY DEF Piece
<1> HIDE DEF p
<1>2. Letters(<<p>>) = S \X T
  <2>1. DOMAIN <<p>> = 1..1 /\ <<p>>[1] = p
    OBVIOUS
  <2>2. Letters(<<p>>) = UNION {{i} \X ((p.from + 1)..p.to) : i \in 1..1}
    BY <2>1 DEF Letters
  <2> QED BY <1>1, <2>2
<1>3. IsFiniteSet(S) /\ Cardinality(S) = 1
  <2>1. 1 \in Int /\ ~(1 > 1) /\ 1 - 1 + 1 = 1
    OBVIOUS
  <2> QED BY <2>1, FS_Interval, Zenon
<1>4. IsFiniteSet(T) /\ Cardinality(T) = b - a
  <2>1. a + 1 \in Int /\ b \in Int
    OBVIOUS
  <2>2. IsFiniteSet(T) /\ Cardinality(T) = IF a + 1 > b THEN 0 ELSE b - (a + 1) + 1
    BY <2>1, FS_Interval, Zenon
  <2>3. (IF a + 1 > b THEN 0 ELSE b - (a + 1) + 1) = b - a
    OBVIOUS
  <2> QED BY <2>2, <2>3
<1>5. Cardinality(S \X T) = Cardinality(S) * Cardinality(T)
  <2> HIDE DEF S, T
  <2> QED BY <1>3, <1>4, FS_Product
<1>6. WidthOf(<<p>>) = Cardinality(S \X T)
  <2>1. <<p>> # <<>> /\ Len(<<p>>) = 1
    OBVIOUS
  <2>2. WidthOf(<<p>>) = Cardinality(S \X T) + 0
    BY <1>2, <2>1 DEF WidthOf
  <2>3. Cardinality(S \X T) \in Nat
    <3>1. 1 * (b - a) \in Nat
      OBVIOUS
    <3> QED BY <1>3, <1>4, <1>5, <3>1
  <2> QED BY <2>2, <2>3
<1>7. 1 * (b - a) = b - a
  OBVIOUS
<1> QED BY <1>3, <1>4, <1>5, <1>6, <1>7 DEF p

\* A piece follows another: in the same word, or at the start of the next.
Follows(q, p, words) ==
  \/ p.word = q.word /\ p.from = q.to
  \/ p.word = q.word + 1 /\ p.from = 0 /\ q.to = words[q.word]

\* The pieces give the first k words.
SpellsTo(ps, words, k) ==
  /\ ps \in Strip /\ (ps = <<>> <=> k = 0)
  /\ \A i \in 1..Len(ps) : ps[i].word \in 1..Len(words) /\ ps[i].from <= ps[i].to /\ ps[i].to <= words[ps[i].word]
  /\ ps # <<>> => ps[1].word = 1 /\ ps[1].from = 0
  /\ \A i \in 2..Len(ps) : Follows(ps[i - 1], ps[i], words)
  /\ ps # <<>> => ps[Len(ps)].word = k /\ ps[Len(ps)].to = words[k]

\* The pieces give word k.
SpellsWord(ps, words, k) ==
  /\ ps \in Strip /\ ps # <<>>
  /\ \A i \in 1..Len(ps) : ps[i].word = k /\ ps[i].from <= ps[i].to /\ ps[i].to <= words[k]
  /\ ps[1].from = 0
  /\ \A i \in 2..Len(ps) : ps[i].from = ps[i - 1].to
  /\ ps[Len(ps)].to = words[k]

\* Pieces that give the words up to the last give all of them.
LEMMA SpellsAll ==
  ASSUME NEW words \in Widths, NEW ps, SpellsTo(ps, words, Len(words))
  PROVE  Spells(ps, words)
<1>1. /\ Len(words) \in Nat /\ DOMAIN words = 1..Len(words) /\ (words = <<>> <=> Len(words) = 0)
  BY LenProperties, EmptySeq DEF Widths
<1>2. /\ Len(ps) \in Nat /\ DOMAIN ps = 1..Len(ps) /\ (ps = <<>> <=> Len(ps) = 0)
  BY LenProperties, EmptySeq DEF SpellsTo, Strip
<1>3. ps = <<>> <=> words = <<>>
  BY <1>1 DEF SpellsTo
<1>4. ASSUME NEW i \in DOMAIN ps
      PROVE  LET p == ps[i] IN
             /\ p.word \in DOMAIN words /\ p.from <= p.to /\ p.to <= words[p.word]
             /\ i = 1 => p.word = 1 /\ p.from = 0
             /\ i > 1 => \/ p.word = ps[i - 1].word /\ p.from = ps[i - 1].to
                         \/ /\ p.word = ps[i - 1].word + 1 /\ p.from = 0
                            /\ ps[i - 1].to = words[ps[i - 1].word]
             /\ i = Len(ps) => p.word = Len(words) /\ p.to = words[p.word]
  <2>1. i \in 1..Len(ps) /\ ps # <<>> /\ (i > 1 => i \in 2..Len(ps))
    BY <1>2
  <2> QED BY <1>1, <2>1 DEF SpellsTo, Follows
<1> QED BY <1>3, <1>4 DEF Spells

\* Pieces of the next word give one word more.
LEMMA SpellsOn ==
  ASSUME NEW words \in Widths, NEW k \in 1..Len(words), NEW ps, NEW qs,
         SpellsTo(ps, words, k - 1), SpellsWord(qs, words, k)
  PROVE  SpellsTo(ps \o qs, words, k)
<1>1. PICK n \in Nat : n = Len(ps) /\ (ps = <<>> <=> n = 0)
  BY LenProperties, EmptySeq DEF SpellsTo, Strip
<1>2. PICK m \in Nat \ {0} : m = Len(qs)
  BY LenProperties, EmptySeq DEF SpellsWord, Strip
<1>3. ps \in Seq(PieceType) /\ qs \in Seq(PieceType)
  BY DEF SpellsTo, SpellsWord, Strip
<1> DEFINE rs == ps \o qs
<1>4. /\ rs \in Seq(PieceType) /\ Len(rs) = n + m
      /\ \A i \in 1..(n + m) : rs[i] = IF i <= n THEN ps[i] ELSE qs[i - n]
  <2>1. /\ rs \in Seq(PieceType) /\ Len(rs) = Len(ps) + Len(qs)
        /\ \A i \in 1..(Len(ps) + Len(qs)) : rs[i] = IF i <= Len(ps) THEN ps[i] ELSE qs[i - Len(ps)]
    BY <1>3, ConcatProperties
  <2> HIDE DEF rs
  <2> QED BY <1>1, <1>2, <2>1, Zenon
<1> HIDE DEF rs
<1>5. \A i \in 1..n : rs[i] = ps[i] /\ i \in 1..(n + m)
  BY <1>4
<1>6. \A i \in (n + 1)..(n + m) : rs[i] = qs[i - n] /\ i - n \in 1..m
  BY <1>4
<1>7. /\ \A i \in 1..n : ps[i].word \in 1..Len(words) /\ ps[i].from <= ps[i].to /\ ps[i].to <= words[ps[i].word]
      /\ n # 0 => ps[1].word = 1 /\ ps[1].from = 0
      /\ \A i \in 2..n : Follows(ps[i - 1], ps[i], words)
      /\ n # 0 => ps[n].word = k - 1 /\ ps[n].to = words[k - 1]
      /\ n = 0 <=> k - 1 = 0
  BY <1>1 DEF SpellsTo
<1>8. /\ \A i \in 1..m : qs[i].word = k /\ qs[i].from <= qs[i].to /\ qs[i].to <= words[k]
      /\ qs[1].from = 0
      /\ \A i \in 2..m : qs[i].from = qs[i - 1].to
      /\ qs[m].to = words[k]
  BY <1>2 DEF SpellsWord
<1>9. rs # <<>> /\ k # 0
  BY <1>3, <1>4, EmptySeq
<1>10. ASSUME NEW i \in 1..Len(rs)
       PROVE  rs[i].word \in 1..Len(words) /\ rs[i].from <= rs[i].to /\ rs[i].to <= words[rs[i].word]
  <2>1. i \in 1..n \/ i \in (n + 1)..(n + m)
    BY <1>4
  <2>2. CASE i \in 1..n
    BY <1>5, <1>7, <2>2
  <2>3. CASE i \in (n + 1)..(n + m)
    BY <1>6, <1>8, <2>3
  <2> QED BY <2>1, <2>2, <2>3
<1>11. rs[1].word = 1 /\ rs[1].from = 0
  <2>1. CASE n = 0
    <3>1. 1 \in (n + 1)..(n + m) /\ 1 - n = 1 /\ 1 \in 1..m /\ k = 1
      BY <1>7, <2>1
    <3> QED BY <1>6, <1>8, <3>1
  <2>2. CASE n # 0
    <3>1. 1 \in 1..n
      BY <2>2
    <3> QED BY <1>5, <1>7, <2>2, <3>1
  <2> QED BY <2>1, <2>2
<1>12. ASSUME NEW i \in 2..Len(rs) PROVE Follows(rs[i - 1], rs[i], words)
  <2>1. i \in 2..n \/ (i = n + 1 /\ n # 0) \/ i \in (n + 2)..(n + m)
    BY <1>4
  <2>2. CASE i \in 2..n
    <3>1. i \in 1..n /\ i - 1 \in 1..n
      BY <2>2
    <3> QED BY <1>5, <1>7, <2>2, <3>1
  <2>3. CASE i = n + 1 /\ n # 0
    <3>1. i \in (n + 1)..(n + m) /\ i - n = 1 /\ i - 1 = n /\ n \in 1..n /\ 1 \in 1..m
      BY <2>3
    <3>2. rs[i] = qs[1] /\ rs[i - 1] = ps[n]
      BY <1>5, <1>6, <3>1
    <3>3. rs[i].word = k /\ rs[i].from = 0
      BY <1>8, <3>1, <3>2
    <3>4. rs[i - 1].word = k - 1 /\ rs[i - 1].to = words[k - 1]
      BY <1>7, <2>3, <3>2
    <3>5. k - 1 + 1 = k
      OBVIOUS
    <3> QED BY <3>3, <3>4, <3>5 DEF Follows
  <2>4. CASE i \in (n + 2)..(n + m)
    <3>1. /\ i \in (n + 1)..(n + m) /\ i - 1 \in (n + 1)..(n + m) /\ i - 1 - n = i - n - 1
          /\ i - n \in 2..m /\ i - n \in 1..m /\ i - n - 1 \in 1..m
      BY <2>4
    <3>2. rs[i] = qs[i - n] /\ rs[i - 1] = qs[i - n - 1]
      BY <1>6, <3>1
    <3>3. rs[i].word = k /\ rs[i - 1].word = k /\ rs[i].from = rs[i - 1].to
      BY <1>8, <3>1, <3>2
    <3> QED BY <3>3 DEF Follows
  <2> QED BY <2>1, <2>2, <2>3, <2>4
<1>13. rs[Len(rs)].word = k /\ rs[Len(rs)].to = words[k]
  <2>1. n + m \in (n + 1)..(n + m) /\ n + m - n = m /\ m \in 1..m
    OBVIOUS
  <2>2. rs[n + m] = qs[n + m - n]
    BY <1>6, <2>1
  <2>3. rs[n + m] = qs[m]
    BY <2>1, <2>2
  <2> QED BY <1>4, <1>8, <2>1, <2>3
<1>14. SpellsTo(rs, words, k)
  <2>1. rs \in Strip
    BY <1>4 DEF Strip
  <2> QED BY <2>1, <1>9, <1>10, <1>11, <1>12, <1>13 DEF SpellsTo
<1> QED BY <1>14 DEF rs

\* Flattening sequences of one element.
LEMMA FlattenSingles ==
  ASSUME NEW X, NEW n \in Nat, NEW g \in [1..n -> X]
  PROVE  FlattenSeq([i \in 1..n |-> <<g[i]>>]) = g
<1> DEFINE ss == [i \in 1..n |-> <<g[i]>>]
           F == [i \in 1..n |-> [j \in 1..i |-> g[j]]]
<1>1. ss \in Seq(Seq(X)) /\ Len(ss) = n /\ g \in Seq(X) /\ Len(g) = n
  <2>1. \A i \in 1..n : <<g[i]>> \in Seq(X)
    OBVIOUS
  <2> QED BY <2>1
<1>2. CASE n = 0
  <2>1. ss = <<>> /\ g = <<>>
    <3> HIDE DEF ss
    <3> QED BY <1>1, <1>2, EmptySeq
  <2> QED BY <2>1, FlattenEmpty
<1>3. CASE n # 0
  <2>1. ASSUME NEW i \in 1..n PROVE F[i] = IF i = 1 THEN ss[i] ELSE F[i - 1] \o ss[i]
    <3>1. ss[i] = <<g[i]>> /\ F[i] = [j \in 1..i |-> g[j]]
      OBVIOUS
    <3>2. CASE i = 1
      <4>1. F[i] \in Seq(X) /\ ss[i] \in Seq(X) /\ Len(F[i]) = 1 /\ Len(ss[i]) = 1 /\ F[i][1] = ss[i][1]
        BY <3>1, <3>2
      <4>2. F[i] = ss[i]
        <5> HIDE DEF F, ss
        <5>1. \A j \in 1..Len(F[i]) : j = 1
          BY <4>1
        <5> QED BY <4>1, <5>1, SeqEqual
      <4> QED BY <3>2, <4>2
    <3>3. CASE i # 1
      <4>1. i - 1 \in 1..n /\ i - 1 \in Nat /\ i \in Nat
        BY <3>3
      <4> DEFINE before == F[i - 1]
                 now == F[i]
                 one == <<g[i]>>
      <4>2. before = [j \in 1..(i - 1) |-> g[j]]
        BY <4>1
      <4>3. \A j \in 1..i : j \in 1..n
        OBVIOUS
      <4>4. before \in Seq(X) /\ Len(before) = i - 1 /\ \A j \in 1..(i - 1) : before[j] = g[j]
        <5>1. \A j \in 1..(i - 1) : g[j] \in X
          BY <4>3, <4>1
        <5> HIDE DEF before
        <5> QED BY <4>1, <4>2, <5>1
      <4>5. now \in Seq(X) /\ Len(now) = i /\ \A j \in 1..i : now[j] = g[j]
        <5>1. \A j \in 1..i : g[j] \in X
          BY <4>3
        <5> HIDE DEF now
        <5>2. now = [j \in 1..i |-> g[j]]
          BY <3>1 DEF now
        <5> QED BY <4>1, <5>1, <5>2
      <4>6. one \in Seq(X) /\ Len(one) = 1 /\ one[1] = g[i]
        OBVIOUS
      <4> HIDE DEF before, now, one
      <4>7. before \o one \in Seq(X) /\ Len(before \o one) = i
            /\ \A j \in 1..i : (before \o one)[j] = IF j <= i - 1 THEN before[j] ELSE one[j - (i - 1)]
        <5>1. /\ before \o one \in Seq(X) /\ Len(before \o one) = Len(before) + Len(one)
              /\ \A j \in 1..(Len(before) + Len(one)) :
                   (before \o one)[j] = IF j <= Len(before) THEN before[j] ELSE one[j - Len(before)]
          BY <4>4, <4>6, ConcatProperties
        <5>2. Len(before) + Len(one) = i /\ Len(before) = i - 1
          BY <4>4, <4>6
        <5> QED BY <5>1, <5>2, Zenon
      <4>8. ASSUME NEW j \in 1..i PROVE (before \o one)[j] = g[j]
        <5>1. CASE j <= i - 1
          <6>1. j \in 1..(i - 1)
            BY <5>1
          <6> QED BY <4>4, <4>7, <5>1, <6>1
        <5>2. CASE ~(j <= i - 1)
          <6>1. j = i /\ j - (i - 1) = 1
            BY <5>2
          <6> QED BY <4>6, <4>7, <5>2, <6>1
        <5> QED BY <5>1, <5>2
      <4>9. before \o one = now
        <5>1. \A j \in 1..Len(before \o one) : (before \o one)[j] = now[j]
          BY <4>5, <4>7, <4>8
        <5> QED BY <4>5, <4>7, <5>1, SeqEqual
      <4> QED BY <3>1, <3>3, <4>9 DEF before, now, one
    <3> QED BY <3>2, <3>3
  <2>2. F = [i \in 1..n |-> F[i]]
    OBVIOUS
  <2>3. F[n] = g
    <3>1. n \in 1..n
      BY <1>3
    <3>2. F[n] = [j \in 1..n |-> g[j]]
      BY <3>1
    <3> QED BY <3>2
  <2> HIDE DEF F, ss
  <2>4. F = [i \in 1..Len(ss) |-> IF i = 1 THEN ss[i] ELSE F[i - 1] \o ss[i]]
    BY <1>1, <2>1, <2>2
  <2>5. FlattenSeq(ss) = F[Len(ss)]
    <3>1. Len(ss) \in Nat \ {0}
      BY <1>1, <1>3
    <3> QED BY <2>4, <3>1, FlattenIs, Zenon
  <2> QED BY <1>1, <2>3, <2>5 DEF ss
<1> QED BY <1>2, <1>3

\* How many parts of size s a whole of n is cut into.
LEMMA PartsCount ==
  ASSUME NEW n \in Nat, NEW s \in Nat \ {0}
  PROVE  /\ (n + s - 1) \div s \in Nat
         /\ n = 0 <=> (n + s - 1) \div s = 0
         /\ ((n + s - 1) \div s) * s >= n
         /\ n # 0 => ((n + s - 1) \div s - 1) * s < n
<1> DEFINE m == (n + s - 1) \div s
<1>1. n + s - 1 \in Nat
  OBVIOUS
<1>2. m \in Nat /\ m * s <= n + s - 1 /\ n + s - 1 < (m + 1) * s
  BY <1>1
<1> HIDE DEF m
<1>3. (m + 1) * s = m * s + s /\ (m - 1) * s = m * s - s
  BY <1>2
<1>4. PICK x \in Nat : x = m * s
  BY <1>2
<1>5. x >= n /\ x - s < n
  BY <1>2, <1>3, <1>4
<1>6. m = 0 => x = 0
  BY <1>4
<1>7. m # 0 => x >= s
  BY <1>2, <1>4
<1> QED BY <1>2, <1>3, <1>4, <1>5, <1>6, <1>7 DEF m

\* Where part i of m begins and would end.
LEMMA CutAt ==
  ASSUME NEW n \in Nat, NEW s \in Nat \ {0}, NEW m \in Nat, m = (n + s - 1) \div s, NEW i \in 1..m
  PROVE  /\ (i - 1) * s \in Nat /\ i * s \in Nat /\ i * s = (i - 1) * s + s
         /\ (i - 1) * s < n
         /\ i # m => i * s < n
         /\ i = m => n <= i * s
<1>1. m # 0 /\ n <= m * s /\ (m - 1) * s < n
  <2>1. m * s >= n /\ (n = 0 <=> m = 0) /\ (n # 0 => (m - 1) * s < n)
    BY PartsCount
  <2>2. m # 0 /\ m * s \in Nat
    OBVIOUS
  <2> QED BY <2>1, <2>2
<1>2. \A x, y \in Nat : x * y \in Nat
  OBVIOUS
<1>3. (i - 1) * s \in Nat /\ i * s \in Nat /\ i * s = (i - 1) * s + s
  <2>1. i - 1 \in Nat /\ i \in Nat
    OBVIOUS
  <2>2. i * s = (i - 1) * s + s
    OBVIOUS
  <2> QED BY <1>2, <2>1, <2>2
<1>4. (m - 1) * s \in Nat /\ m * s \in Nat
  <2>1. m - 1 \in Nat
    BY <1>1
  <2> QED BY <1>2, <2>1
<1>5. \A x, y \in Nat : x <= y => x * s <= y * s
  OBVIOUS
<1>6. (i - 1) * s <= (m - 1) * s
  <2>1. i - 1 \in Nat /\ m - 1 \in Nat /\ i - 1 <= m - 1
    OBVIOUS
  <2> QED BY <1>5, <2>1
<1>7. i # m => i * s <= (m - 1) * s
  <2>1. i # m => i \in Nat /\ m - 1 \in Nat /\ i <= m - 1
    OBVIOUS
  <2> QED BY <1>5, <2>1
<1>8. PICK x \in Nat, y \in Nat, u \in Nat, v \in Nat :
        x = (i - 1) * s /\ y = i * s /\ u = (m - 1) * s /\ v = m * s
  BY <1>3, <1>4, Zenon
<1>9. y = x + s /\ x < n /\ (i # m => y < n) /\ (i = m => n <= y)
  BY <1>1, <1>3, <1>6, <1>7, <1>8
<1> QED BY <1>8, <1>9

\* A word that is broken fits, and keeps all its letters.
LEMMA BrokenIs ==
  ASSUME NEW words \in Widths, NEW k \in 1..Len(words), words[k] > MaxChars
  PROVE  /\ Broken(k, words[k]) \in Seq(FittingStrip)
         /\ SpellsWord(FlattenSeq(Broken(k, words[k])), words, k)
<1>1. PICK n \in Nat : n = words[k] /\ n > MaxChars
  BY ElementOfSeq DEF Widths
<1>2. PICK s \in Nat \ {0} : s = MaxChars
  BY TextAssumption
<1>3. PICK m \in Nat : m = (n + s - 1) \div s
  BY PartsCount
<1>4. m # 0 /\ n <= m * s /\ (m - 1) * s < n
  <2>1. /\ n = 0 <=> m = 0
        /\ m * s >= n
        /\ n # 0 => (m - 1) * s < n
    BY <1>3, PartsCount
  <2>2. n # 0
    BY <1>1, <1>2
  <2>3. m * s \in Nat
    OBVIOUS
  <2> QED BY <2>1, <2>2, <2>3
<1> DEFINE End(i) == IF i * s <= n THEN i * s ELSE n
           g == [i \in 1..m |-> Piece(k, (i - 1) * s, End(i))]
           b == Broken(k, words[k])
<1>5. b = [i \in 1..m |-> <<Piece(k, (i - 1) * s, End(i))>>]
  BY <1>1, <1>2, <1>3, Zenon DEF Broken
<1>6. ASSUME NEW i \in 1..m
      PROVE  /\ (i - 1) * s \in Nat /\ End(i) \in Nat
             /\ (i - 1) * s <= End(i) /\ End(i) <= n /\ End(i) - (i - 1) * s <= s
             /\ i # m => End(i) = i * s
             /\ i = m => End(i) = n
  <2>1. /\ (i - 1) * s \in Nat /\ i * s \in Nat /\ i * s = (i - 1) * s + s
        /\ (i - 1) * s < n
        /\ i # m => i * s < n
        /\ i = m => n <= i * s
    BY <1>3, CutAt
  <2>6. PICK x \in Nat, y \in Nat : x = (i - 1) * s /\ y = i * s
    BY <2>1, Zenon
  <2>7. y = x + s /\ x < n /\ (i # m => y < n) /\ (i = m => n <= y)
    BY <2>1, <2>6
  <2>8. PICK e \in Nat : e = End(i) /\ e = IF y <= n THEN y ELSE n
    <3>1. (IF y <= n THEN y ELSE n) \in Nat
      OBVIOUS
    <3>2. End(i) = IF y <= n THEN y ELSE n
      BY <2>6
    <3> HIDE DEF End
    <3> QED BY <3>1, <3>2, Zenon
  <2> HIDE DEF End
  <2>9. x <= e /\ e <= n /\ e - x <= s /\ (i # m => e = y) /\ (i = m => e = n)
    BY <2>7, <2>8
  <2> QED BY <2>6, <2>8, <2>9
<1> HIDE DEF End
<1>7. ASSUME NEW i \in 1..m
      PROVE  /\ Piece(k, (i - 1) * s, End(i)) \in PieceType
             /\ <<Piece(k, (i - 1) * s, End(i))>> \in FittingStrip
             /\ g[i].word = k /\ g[i].from = (i - 1) * s /\ g[i].to = End(i)
  <2>1. PICK x \in Nat, e \in Nat : x = (i - 1) * s /\ e = End(i) /\ x <= e /\ e - x <= s
    BY <1>6
  <2>2. k \in Nat
    <3>1. Len(words) \in Nat
      BY LenProperties DEF Widths
    <3> QED BY <3>1
  <2>3. /\ Piece(k, x, e) \in PieceType /\ <<Piece(k, x, e)>> \in Strip
        /\ Piece(k, x, e).word = k /\ Piece(k, x, e).from = x /\ Piece(k, x, e).to = e
    BY <2>2, PieceIs
  <2>4. WidthOf(<<Piece(k, x, e)>>) = e - x
    BY <2>1, <2>2, WidthOfOne
  <2>5. <<Piece(k, x, e)>> \in FittingStrip
    BY <1>2, <2>1, <2>3, <2>4 DEF FittingStrip
  <2>6. g[i] = Piece(k, x, e)
    BY <2>1
  <2> HIDE DEF g
  <2> QED BY <2>1, <2>3, <2>5, <2>6
<1>8. b \in Seq(FittingStrip)
  <2>1. \A i \in 1..m : <<Piece(k, (i - 1) * s, End(i))>> \in FittingStrip
    BY <1>7
  <2> HIDE DEF b
  <2> QED BY <1>5, <2>1
<1>9. g \in [1..m -> PieceType]
  BY <1>7
<1>10. b = [i \in 1..m |-> <<g[i]>>]
  <2> HIDE DEF b
  <2> QED BY <1>5
<1> HIDE DEF b, g
<1>11. FlattenSeq(b) = g
  BY <1>9, <1>10, FlattenSingles
<1>12. g \in Strip /\ g # <<>> /\ Len(g) = m
  <2>1. g \in Seq(PieceType) /\ Len(g) = m
    BY <1>9
  <2> QED BY <1>4, <2>1, EmptySeq DEF Strip
<1>13. SpellsWord(g, words, k)
  <2>1. ASSUME NEW i \in 1..m PROVE g[i].word = k /\ g[i].from <= g[i].to /\ g[i].to <= words[k]
    BY <1>1, <1>6, <1>7
  <2>2. g[1].from = 0
    <3>1. 1 \in 1..m /\ (1 - 1) * s = 0
      BY <1>4
    <3>2. g[1].from = (1 - 1) * s
      BY <1>7, <3>1
    <3> QED BY <3>1, <3>2
  <2>3. ASSUME NEW i \in 2..m PROVE g[i].from = g[i - 1].to
    <3>1. i \in 1..m /\ i - 1 \in 1..m /\ i - 1 # m
      OBVIOUS
    <3> QED BY <1>6, <1>7, <3>1
  <2>4. g[m].to = words[k]
    <3>1. m \in 1..m
      BY <1>4
    <3> QED BY <1>1, <1>6, <1>7, <3>1
  <2> QED BY <1>12, <2>1, <2>2, <2>3, <2>4 DEF SpellsWord
<1> QED BY <1>8, <1>11, <1>13 DEF b

\* Strips are sequences of pieces.
LEMMA StripsFlat ==
  ASSUME NEW out \in Seq(FittingStrip)
  PROVE  out \in Seq(Seq(PieceType)) /\ FlattenSeq(out) \in Seq(PieceType)
<1>1. FittingStrip \subseteq Seq(PieceType)
  BY DEF FittingStrip, Strip
<1>2. out \in Seq(Seq(PieceType))
  <2>1. Len(out) \in Nat /\ DOMAIN out = 1..Len(out) /\ \A i \in 1..Len(out) : out[i] \in FittingStrip
    BY LenProperties, ElementOfSeq
  <2>2. \A i \in 1..Len(out) : out[i] \in Seq(PieceType)
    BY <1>1, <2>1
  <2>3. out = [i \in 1..Len(out) |-> out[i]]
    BY <2>1
  <2> QED BY <2>1, <2>2, <2>3
<1> QED BY <1>2, FlattenType

\* Putting the line away.
LEMMA PutAway ==
  ASSUME NEW out \in Seq(FittingStrip), NEW cur \in FittingStrip
  PROVE  /\ Append(out, cur) \in Seq(FittingStrip)
         /\ FlattenSeq(Append(out, cur)) = FlattenSeq(out) \o cur
<1>1. Append(out, cur) \in Seq(FittingStrip) /\ Append(out, cur) = out \o <<cur>>
  BY AppendProperties, AppendIsConcat
<1>2. out \in Seq(Seq(PieceType)) /\ <<cur>> \in Seq(Seq(PieceType))
  <2>1. cur \in Seq(PieceType)
    BY DEF FittingStrip, Strip
  <2> QED BY <2>1, StripsFlat
<1>3. FlattenSeq(out \o <<cur>>) = FlattenSeq(out) \o FlattenSeq(<<cur>>)
  BY <1>2, FlattenConcat
<1>4. FlattenSeq(<<cur>>) = cur
  BY FlattenOne
<1> QED BY <1>1, <1>3, <1>4

\* The lines that are done and the one under way, and the pieces on them.
Acc == [out : Seq(FittingStrip), cur : FittingStrip]
Said(acc) == FlattenSeq(acc.out) \o acc.cur

\* What the lines so far say.
LEMMA AccIs ==
  ASSUME NEW out \in Seq(FittingStrip), NEW cur \in FittingStrip
  PROVE  [out |-> out, cur |-> cur] \in Acc /\ Said([out |-> out, cur |-> cur]) = FlattenSeq(out) \o cur
BY DEF Acc, Said

\* One more word.
LEMMA WordIsWrapped ==
  ASSUME NEW words \in Widths, NEW k \in 1..Len(words), NEW acc \in Acc
  PROVE  /\ WrapWord(acc, k, words[k]) \in Acc
         /\ SpellsTo(Said(acc), words, k - 1) => SpellsTo(Said(WrapWord(acc, k, words[k])), words, k)
<1>1. PICK out \in Seq(FittingStrip), cur \in FittingStrip : out = acc.out /\ cur = acc.cur
  BY DEF Acc
<1>2. PICK n \in Nat : n = words[k]
  BY ElementOfSeq DEF Widths
<1>3. k \in Nat /\ Len(words) \in Nat
  <2>1. Len(words) \in Nat
    BY LenProperties DEF Widths
  <2> QED BY <2>1
<1> DEFINE p == Piece(k, 0, n)
           next == Append(cur, p)
           away == IF cur = <<>> THEN out ELSE Append(out, cur)
           ps == FlattenSeq(out) \o cur
           r == WrapWord(acc, k, words[k])
<1>4. /\ p \in PieceType /\ <<p>> \in Strip /\ p.word = k /\ p.from = 0 /\ p.to = n
      /\ WidthOf(<<p>>) = n
  <2>1. 0 \in Nat /\ 0 <= n /\ n - 0 = n
    OBVIOUS
  <2>2. p \in PieceType /\ <<p>> \in Strip /\ p.word = k /\ p.from = 0 /\ p.to = n
    BY <1>3, <2>1, PieceIs
  <2>3. WidthOf(<<p>>) = n - 0
    BY <1>3, <2>1, WidthOfOne
  <2> QED BY <2>1, <2>2, <2>3
<1> HIDE DEF p
<1>5. SpellsWord(<<p>>, words, k)
  <2>1. <<p>> # <<>> /\ Len(<<p>>) = 1 /\ <<p>>[1] = p
    OBVIOUS
  <2>2. \A i \in 1..1 : i = 1
    OBVIOUS
  <2>3. 2..1 = {}
    OBVIOUS
  <2>4. p.from <= p.to /\ p.to <= n
    BY <1>4
  <2> QED BY <1>2, <1>4, <2>1, <2>2, <2>3, <2>4 DEF SpellsWord
<1>6. FlattenSeq(out) \in Seq(PieceType) /\ cur \in Seq(PieceType) /\ <<p>> \in Seq(PieceType)
  BY <1>4, StripsFlat DEF FittingStrip, Strip
<1>7. away \in Seq(FittingStrip) /\ FlattenSeq(away) = ps
  <2>1. CASE cur = <<>>
    BY <1>6, <2>1, ConcatEmptySeq
  <2>2. CASE cur # <<>>
    BY <2>2, PutAway
  <2> QED BY <2>1, <2>2
<1>8. ps \in Seq(PieceType) /\ Said(acc) = ps
  BY <1>1, <1>6, ConcatProperties DEF Said
<1>9. next = cur \o <<p>> /\ next \in Strip
  <2>1. Append(cur, p) = cur \o <<p>> /\ Append(cur, p) \in Seq(PieceType)
    BY <1>4, <1>6, AppendIsConcat, AppendProperties
  <2> QED BY <2>1 DEF Strip
<1>10. r = IF WidthOf(next) <= MaxChars THEN [out |-> out, cur |-> next]
           ELSE IF n > MaxChars THEN [out |-> away \o Broken(k, n), cur |-> <<>>]
           ELSE [out |-> away, cur |-> <<p>>]
  BY <1>1, <1>2, Zenon DEF WrapWord, p
<1> HIDE DEF next, away, r
<1>11. CASE WidthOf(next) <= MaxChars
  <2>1. next \in FittingStrip
    BY <1>9, <1>11 DEF FittingStrip
  <2>2. r = [out |-> out, cur |-> next]
    BY <1>10, <1>11
  <2>3. r \in Acc /\ Said(r) = FlattenSeq(out) \o next
    BY <2>1, <2>2, AccIs
  <2>4. FlattenSeq(out) \o next = ps \o <<p>>
    <3>1. (FlattenSeq(out) \o cur) \o <<p>> = FlattenSeq(out) \o (cur \o <<p>>)
      BY <1>6, ConcatAssociative
    <3> QED BY <1>9, <3>1
  <2>5. SpellsTo(ps, words, k - 1) => SpellsTo(ps \o <<p>>, words, k)
    <3> HIDE DEF ps
    <3> QED BY <1>5, SpellsOn
  <2> QED BY <1>8, <2>3, <2>4, <2>5 DEF r
<1>12. CASE ~(WidthOf(next) <= MaxChars) /\ n > MaxChars
  <2> DEFINE b == Broken(k, n)
  <2>1. b \in Seq(FittingStrip) /\ SpellsWord(FlattenSeq(b), words, k)
    BY <1>2, <1>12, BrokenIs
  <2>2. r = [out |-> away \o b, cur |-> <<>>]
    BY <1>10, <1>12
  <2> HIDE DEF b
  <2>3. away \o b \in Seq(FittingStrip)
    BY <1>7, <2>1, ConcatProperties
  <2>4. r \in Acc /\ Said(r) = FlattenSeq(away \o b) \o <<>>
    BY <2>2, <2>3, NoStripFits, AccIs
  <2>5. FlattenSeq(away \o b) = FlattenSeq(away) \o FlattenSeq(b)
    BY <1>7, <2>1, StripsFlat, FlattenConcat
  <2>6. FlattenSeq(away \o b) \in Seq(PieceType)
    BY <2>3, StripsFlat
  <2>7. Said(r) = ps \o FlattenSeq(b)
    BY <1>7, <2>4, <2>5, <2>6, ConcatEmptySeq
  <2>8. SpellsTo(ps, words, k - 1) => SpellsTo(ps \o FlattenSeq(b), words, k)
    <3> HIDE DEF ps
    <3> QED BY <2>1, SpellsOn
  <2> QED BY <1>8, <2>4, <2>7, <2>8 DEF r
<1>13. CASE ~(WidthOf(next) <= MaxChars) /\ ~(n > MaxChars)
  <2>1. <<p>> \in FittingStrip
    <3>1. n <= MaxChars
      BY <1>13, TextAssumption
    <3> QED BY <1>4, <3>1 DEF FittingStrip
  <2>2. r = [out |-> away, cur |-> <<p>>]
    BY <1>10, <1>13
  <2>3. r \in Acc /\ Said(r) = ps \o <<p>>
    BY <1>7, <2>1, <2>2, AccIs
  <2>5. SpellsTo(ps, words, k - 1) => SpellsTo(ps \o <<p>>, words, k)
    <3> HIDE DEF ps
    <3> QED BY <1>5, SpellsOn
  <2> QED BY <1>8, <2>3, <2>5 DEF r
<1> QED BY <1>11, <1>12, <1>13

\* All the words.
LEMMA LineIsWrapped ==
  ASSUME NEW words \in Widths
  PROVE  /\ WrapLine(words) \in Seq(FittingStrip)
         /\ WrapLine(words) # <<>>
         /\ SpellsTo(FlattenSeq(WrapLine(words)), words, Len(words))
<1>1. PICK n \in Nat : n = Len(words) /\ DOMAIN words = 1..n /\ \A i \in 1..n : words[i] \in Nat
  <2>1. Len(words) \in Nat /\ DOMAIN words = 1..Len(words) /\ \A i \in 1..Len(words) : words[i] \in Nat
    BY LenProperties, ElementOfSeq DEF Widths
  <2> QED BY <2>1
<1> DEFINE whole == [w \in DOMAIN words |-> Piece(w, 0, words[w])]
           start == [out |-> <<>>, cur |-> <<>>]
           after[w \in 0..n] == IF w = 0 THEN start ELSE WrapWord(after[w - 1], w, words[w])
           step == [w \in 1..n |-> [acc \in Acc |-> WrapWord(acc, w, words[w])]]
           Bad == {w \in 0..n : ~(after[w] \in Acc /\ SpellsTo(Said(after[w]), words, w))}
<1>2. start \in Acc /\ SpellsTo(Said(start), words, 0)
  <2>1. <<>> \in Seq(FittingStrip) /\ <<>> \in Strip /\ <<>> \in Seq(PieceType) /\ Len(<<>>) = 0
    BY DEF Strip
  <2>2. start \in Acc /\ Said(start) = FlattenSeq(<<>>) \o <<>>
    BY <2>1, NoStripFits, AccIs
  <2>3. Said(start) = <<>>
    BY <2>1, <2>2, FlattenEmpty, ConcatEmptySeq
  <2>4. 1..0 = {} /\ 2..0 = {}
    OBVIOUS
  <2>5. SpellsTo(<<>>, words, 0)
    BY <2>1, <2>4 DEF SpellsTo
  <2> QED BY <2>2, <2>3, <2>5
<1> HIDE DEF start
<1>3. \A w \in 1..n : \A acc \in Acc : WrapWord(acc, w, words[w]) \in Acc
  BY <1>1, WordIsWrapped
<1>4. Steps(Acc, n, step)
  BY <1>3 DEF Steps
<1>5. PICK f : Runs(Acc, start, n, step, f)
  <2> HIDE DEF step
  <2> QED BY <1>2, <1>4, RecursionExists
<1>6. f = [w \in 0..n |-> IF w = 0 THEN start ELSE WrapWord(f[w - 1], w, words[w])]
  <2>1. f = [w \in 0..n |-> f[w]] /\ f[0] = start
    BY <1>5 DEF Runs
  <2>2. ASSUME NEW w \in 0..n, w # 0 PROVE f[w] = WrapWord(f[w - 1], w, words[w])
    <3>1. w \in 1..n /\ w - 1 \in 0..n
      BY <2>2
    <3>2. f[w] = step[w][f[w - 1]] /\ f[w - 1] \in Acc
      BY <1>5, <3>1 DEF Runs
    <3> QED BY <3>1, <3>2
  <2> QED BY <2>1, <2>2
<1>7. after = [w \in 0..n |-> IF w = 0 THEN start ELSE WrapWord(after[w - 1], w, words[w])]
  <2> HIDE DEF step
  <2> QED BY <1>6
<1>8. WrapLine(words) = IF WidthOf(whole) <= MaxChars THEN <<whole>>
                        ELSE IF after[n].cur = <<>> THEN after[n].out
                        ELSE Append(after[n].out, after[n].cur)
  <2> DEFINE wrapped[w \in 0..Len(words)] ==
               IF w = 0 THEN [out |-> <<>>, cur |-> <<>>] ELSE WrapWord(wrapped[w - 1], w, words[w])
  <2>1. wrapped = after
    BY <1>1, Zenon DEF start
  <2>2. WrapLine(words) = IF WidthOf(whole) <= MaxChars THEN <<whole>>
                          ELSE IF wrapped[Len(words)].cur = <<>> THEN wrapped[Len(words)].out
                          ELSE Append(wrapped[Len(words)].out, wrapped[Len(words)].cur)
    BY Zenon DEF WrapLine
  <2> HIDE DEF wrapped, after, whole
  <2> QED BY <1>1, <2>1, <2>2
<1> HIDE DEF after
<1>9. Bad = {}
  <2>1. SUFFICES ASSUME Bad # {} PROVE FALSE
    OBVIOUS
  <2>2. PICK w \in Bad : \A v \in Bad : w <= v
    <3>1. Bad \in SUBSET Nat
      OBVIOUS
    <3> HIDE DEF Bad
    <3> QED BY <2>1, <3>1, LeastNatural
  <2>3. w # 0
    BY <1>2, <1>7
  <2>4. w \in 1..n /\ w - 1 \in 0..n /\ w - 1 \notin Bad
    <3>1. w \in 0..n
      OBVIOUS
    <3>2. w \in 1..n /\ w - 1 \in 0..n /\ ~(w <= w - 1)
      BY <2>3, <3>1
    <3> QED BY <2>2, <3>2
  <2>5. after[w - 1] \in Acc /\ SpellsTo(Said(after[w - 1]), words, w - 1)
    BY <2>4
  <2>6. after[w] = WrapWord(after[w - 1], w, words[w])
    BY <1>7, <2>3
  <2>7. after[w] \in Acc /\ SpellsTo(Said(after[w]), words, w)
    BY <1>1, <2>4, <2>5, <2>6, WordIsWrapped
  <2> QED BY <2>7
<1>10. after[n] \in Acc /\ SpellsTo(Said(after[n]), words, n)
  <2>1. n \in 0..n
    OBVIOUS
  <2> QED BY <1>9, <2>1
<1> HIDE DEF Bad
<1>11. CASE WidthOf(whole) <= MaxChars
  <2>1. ASSUME NEW w \in 1..n
        PROVE  /\ Piece(w, 0, words[w]) \in PieceType /\ Piece(w, 0, words[w]).word = w
               /\ Piece(w, 0, words[w]).from = 0 /\ Piece(w, 0, words[w]).to = words[w]
    <3>1. w \in Nat /\ 0 \in Nat
      OBVIOUS
    <3>2. PICK x \in Nat : x = words[w]
      BY <1>1
    <3> HIDE DEF whole, step
    <3>3. /\ Piece(w, 0, x) \in PieceType /\ <<Piece(w, 0, x)>> \in Strip
          /\ Piece(w, 0, x).word = w
          /\ Piece(w, 0, x).from = 0 /\ Piece(w, 0, x).to = x
      BY <3>1, PieceIs
    <3> QED BY <3>2, <3>3
  <2>2. whole = [w \in 1..n |-> Piece(w, 0, words[w])]
    BY <1>1
  <2> HIDE DEF whole
  <2>3. whole \in Seq(PieceType) /\ Len(whole) = n /\ \A w \in 1..n : whole[w] = Piece(w, 0, words[w])
    BY <2>1, <2>2
  <2>4. whole = <<>> <=> n = 0
    BY <2>3, EmptySeq
  <2>5. \A w \in 1..n : whole[w].word = w /\ whole[w].from = 0 /\ whole[w].to = words[w]
    BY <2>1, <2>3
  <2>6. SpellsTo(whole, words, n)
    <3>1. ASSUME NEW w \in 1..n
          PROVE  /\ whole[w].word \in 1..Len(words) /\ whole[w].from <= whole[w].to
                 /\ whole[w].to <= words[whole[w].word]
      <4>1. PICK x \in Nat : x = words[w]
        BY <1>1
      <4>2. whole[w].word = w /\ whole[w].from = 0 /\ whole[w].to = x
        BY <2>5, <4>1
      <4>3. words[whole[w].word] = x
        BY <4>1, <4>2
      <4>4. 0 <= x /\ x <= x
        OBVIOUS
      <4> QED BY <1>1, <4>2, <4>3, <4>4, Zenon
    <3>2. whole # <<>> => 1 \in 1..n /\ n \in 1..n
      BY <2>4
    <3>3. ASSUME NEW w \in 2..n PROVE Follows(whole[w - 1], whole[w], words)
      <4>1. w \in 1..n /\ w - 1 \in 1..n /\ w = (w - 1) + 1
        OBVIOUS
      <4> QED BY <2>5, <4>1 DEF Follows
    <3>4. whole \in Strip
      BY <2>3 DEF Strip
    <3> QED BY <2>3, <2>4, <2>5, <3>1, <3>2, <3>3, <3>4 DEF SpellsTo
  <2>7. whole \in FittingStrip
    BY <1>11, <2>3 DEF FittingStrip, Strip
  <2>8. WrapLine(words) = <<whole>>
    BY <1>8, <1>11
  <2>9. <<whole>> \in Seq(FittingStrip) /\ <<whole>> # <<>>
    BY <2>7
  <2> QED BY <1>1, <2>6, <2>8, <2>9, FlattenOne
<1>12. CASE ~(WidthOf(whole) <= MaxChars)
  <2>1. PICK out \in Seq(FittingStrip), cur \in FittingStrip : out = after[n].out /\ cur = after[n].cur
    BY <1>10 DEF Acc
  <2>2. SpellsTo(FlattenSeq(out) \o cur, words, n)
    BY <1>10, <2>1 DEF Said
  <2>3. WrapLine(words) = IF cur = <<>> THEN out ELSE Append(out, cur)
    BY <1>8, <1>12, <2>1
  <2>4. WrapLine(words) \in Seq(FittingStrip) /\ FlattenSeq(WrapLine(words)) = FlattenSeq(out) \o cur
    <3>1. CASE cur = <<>>
      BY <2>3, <3>1, StripsFlat, ConcatEmptySeq
    <3>2. CASE cur # <<>>
      BY <2>3, <3>2, PutAway
    <3> QED BY <3>1, <3>2
  <2>5. n # 0
    <3>1. SUFFICES ASSUME n = 0 PROVE FALSE
      OBVIOUS
    <3>2. DOMAIN words = {}
      BY <1>1, <3>1
    <3>3. whole = <<>>
      BY <3>2
    <3> QED BY <1>12, <3>3, NoStripFits DEF FittingStrip
  <2>6. WrapLine(words) # <<>>
    <3>1. SUFFICES ASSUME WrapLine(words) = <<>> PROVE FALSE
      OBVIOUS
    <3>2. FlattenSeq(out) \o cur = <<>>
      BY <2>4, <3>1, FlattenEmpty
    <3> QED BY <2>2, <2>5, <3>2 DEF SpellsTo
  <2> QED BY <1>1, <2>2, <2>4, <2>6
<1> QED BY <1>11, <1>12

\* The pages have all lines, and none has too many.
LEMMA PagesKeepAll ==
  ASSUME NEW X, NEW lines \in Seq(X)
  PROVE  /\ Pages(lines) \in Seq(Seq(X)) /\ FlattenSeq(Pages(lines)) = lines
         /\ \A p \in 1..Len(Pages(lines)) : Len(Pages(lines)[p]) \in 1..MaxLines
<1>1. PICK n \in Nat : n = Len(lines) /\ \A i \in 1..n : lines[i] \in X
  <2>1. Len(lines) \in Nat /\ \A i \in 1..Len(lines) : lines[i] \in X
    BY LenProperties, ElementOfSeq
  <2> QED BY <2>1
<1>2. PICK s \in Nat \ {0} : s = MaxLines
  BY TextAssumption
<1>3. PICK m \in Nat : m = (n + s - 1) \div s
  BY PartsCount
<1> DEFINE End(p) == IF p * s < n THEN p * s ELSE n
           ss == Pages(lines)
           F == [p \in 1..m |-> SubSeq(lines, 1, End(p))]
<1>4. ss = [p \in 1..m |-> SubSeq(lines, (p - 1) * s + 1, End(p))]
  BY <1>1, <1>2, <1>3, Zenon DEF Pages
<1>5. ASSUME NEW p \in 1..m
      PROVE  \E x, e \in Nat : /\ x = (p - 1) * s /\ e = End(p) /\ x < e /\ e <= n /\ e - x <= s
                               /\ p = m => e = n
                               /\ p # m => e = p * s
  <2>1. /\ (p - 1) * s \in Nat /\ p * s \in Nat /\ p * s = (p - 1) * s + s
        /\ (p - 1) * s < n
        /\ p # m => p * s < n
        /\ p = m => n <= p * s
    BY <1>3, CutAt
  <2>2. PICK x \in Nat, y \in Nat : x = (p - 1) * s /\ y = p * s
    BY <2>1, Zenon
  <2>3. y = x + s /\ x < n /\ (p # m => y < n) /\ (p = m => n <= y)
    BY <2>1, <2>2
  <2>4. \E e \in Nat : e = IF y < n THEN y ELSE n
    OBVIOUS
  <2>5. PICK e \in Nat : e = IF y < n THEN y ELSE n
    BY <2>4, Zenon
  <2>6. x < e /\ e <= n /\ e - x <= s /\ (p = m => e = n) /\ (p # m => e = y)
    BY <2>3, <2>5
  <2>7. e = End(p)
    BY <2>2, <2>5, Zenon
  <2> HIDE DEF End
  <2> QED BY <2>2, <2>6, <2>7, Zenon
<1> HIDE DEF End
<1>6. ASSUME NEW p \in 1..m
      PROVE  ss[p] \in Seq(X) /\ Len(ss[p]) \in 1..s
  <2>1. PICK x \in Nat, e \in Nat : x = (p - 1) * s /\ e = End(p) /\ x < e /\ e <= n /\ e - x <= s
    BY <1>5
  <2>2. ss[p] = SubSeq(lines, x + 1, e)
    <3> HIDE DEF ss
    <3> QED BY <1>4, <2>1
  <2>3. x + 1 \in Int /\ e \in Int /\ \A i \in (x + 1)..e : lines[i] \in X
    BY <1>1, <2>1
  <2>4. /\ SubSeq(lines, x + 1, e) \in Seq(X)
        /\ Len(SubSeq(lines, x + 1, e)) = IF x + 1 <= e THEN e - (x + 1) + 1 ELSE 0
    BY <2>3, SubSeqProperties
  <2>5. (IF x + 1 <= e THEN e - (x + 1) + 1 ELSE 0) \in 1..s
    BY <2>1
  <2> QED BY <2>2, <2>4, <2>5
<1> HIDE DEF ss
<1>7. ss \in Seq(Seq(X)) /\ Len(ss) = m
  BY <1>4, <1>6
<1>8. CASE m = 0
  <2>1. ss = <<>>
    BY <1>7, <1>8, EmptySeq
  <2>2. n = 0
    BY <1>3, <1>8, PartsCount
  <2>3. lines = <<>>
    BY <1>1, <2>2, EmptySeq
  <2> QED BY <1>2, <1>6, <1>7, <2>1, <2>3, FlattenEmpty DEF ss
<1>9. CASE m # 0
  <2>1. ASSUME NEW p \in 1..m PROVE F[p] = IF p = 1 THEN ss[p] ELSE F[p - 1] \o ss[p]
    <3>1. PICK x \in Nat, e \in Nat : x = (p - 1) * s /\ e = End(p) /\ x < e /\ e <= n
      BY <1>5
    <3>2. ss[p] = SubSeq(lines, x + 1, e) /\ F[p] = SubSeq(lines, 1, e)
      BY <1>4, <3>1
    <3>3. CASE p = 1
      <4>1. x = 0 /\ x + 1 = 1
        BY <3>1, <3>3
      <4> QED BY <3>2, <3>3, <4>1
    <3>4. CASE p # 1
      <4>1. p - 1 \in 1..m /\ p - 1 # m
        BY <3>4
      <4>2. End(p - 1) = x
        BY <1>5, <3>1, <4>1
      <4>3. F[p - 1] = SubSeq(lines, 1, x)
        BY <4>1, <4>2
      <4>4. 1 \in 1..Len(lines) + 1 /\ x \in 1 - 1..Len(lines) /\ e \in x..Len(lines)
        BY <1>1, <3>1
      <4>5. SubSeq(lines, 1, x) \o SubSeq(lines, x + 1, e) = SubSeq(lines, 1, e)
        BY <4>4, ConcatAdjacentSubSeq
      <4> QED BY <3>2, <3>4, <4>3, <4>5
    <3> QED BY <3>3, <3>4
  <2>2. F = [p \in 1..m |-> F[p]]
    OBVIOUS
  <2>3. F[m] = lines
    <3>1. m \in 1..m
      BY <1>9
    <3>2. End(m) = n
      BY <1>5, <3>1
    <3>3. F[m] = SubSeq(lines, 1, Len(lines))
      BY <1>1, <3>1, <3>2
    <3> QED BY <3>3, SubSeqFull
  <2> HIDE DEF F
  <2>4. F = [p \in 1..Len(ss) |-> IF p = 1 THEN ss[p] ELSE F[p - 1] \o ss[p]]
    BY <1>7, <2>1, <2>2
  <2>5. FlattenSeq(ss) = F[Len(ss)]
    <3>1. Len(ss) \in Nat \ {0}
      BY <1>7, <1>9
    <3> QED BY <2>4, <3>1, FlattenIs, Zenon
  <2> QED BY <1>2, <1>6, <1>7, <2>3, <2>5 DEF ss
<1> QED BY <1>8, <1>9

\* The end of what is put behind.
LEMMA EndOfConcat ==
  ASSUME NEW X, NEW a \in Seq(X), NEW b \in Seq(X)
  PROVE  /\ Len(a) \in 0..Len(a \o b)
         /\ SubSeq(a \o b, Len(a) + 1, Len(a \o b)) = b
<1>1. PICK n \in Nat, m \in Nat : n = Len(a) /\ m = Len(b)
  BY LenProperties
<1> DEFINE c == a \o b
           e == SubSeq(c, n + 1, n + m)
<1>2. /\ c \in Seq(X) /\ Len(c) = Len(a) + Len(b)
      /\ \A i \in 1..(Len(a) + Len(b)) : c[i] = IF i <= Len(a) THEN a[i] ELSE b[i - Len(a)]
  BY ConcatProperties
<1> HIDE DEF c
<1>3. Len(c) = n + m /\ \A i \in 1..(n + m) : c[i] \in X
  BY <1>1, <1>2, ElementOfSeq
<1>4. /\ e \in Seq(X) /\ Len(e) = IF n + 1 <= n + m THEN n + m - (n + 1) + 1 ELSE 0
      /\ \A i \in 1..(n + m - (n + 1) + 1) : e[i] = c[n + 1 + i - 1]
  <2>1. n + 1 \in Int /\ n + m \in Int /\ \A i \in (n + 1)..(n + m) : c[i] \in X
    BY <1>3
  <2> QED BY <2>1, SubSeqProperties
<1> HIDE DEF e
<1>5. Len(e) = m
  <2>1. (IF n + 1 <= n + m THEN n + m - (n + 1) + 1 ELSE 0) = m
    OBVIOUS
  <2> QED BY <1>4, <2>1
<1>6. ASSUME NEW i \in 1..m PROVE e[i] = b[i]
  <2>1. /\ i \in 1..(n + m - (n + 1) + 1) /\ n + 1 + i - 1 = n + i /\ n + i \in 1..(n + m)
        /\ ~(n + i <= n) /\ (n + i) - n = i
    OBVIOUS
  <2>2. e[i] = c[n + i]
    BY <1>4, <2>1
  <2>3. c[n + i] = b[(n + i) - n]
    BY <1>1, <1>2, <2>1
  <2> QED BY <2>1, <2>2, <2>3
<1>7. e = b
  BY <1>1, <1>4, <1>5, <1>6, SeqEqual
<1>8. n \in 0..(n + m)
  OBVIOUS
<1> QED BY <1>1, <1>3, <1>7, <1>8 DEF c, e

\* What is in a row of a document.
RowType == [of : Line, pieces : FittingStrip]

\* Sanitizing changes no length.
LEMMA SanitizedIs ==
  ASSUME NEW line \in Line
  PROVE  /\ Sanitize(line) \in Line /\ Lengths(Sanitize(line)) = Lengths(line)
         /\ Lengths(line) \in Widths
<1>1. PICK n \in Nat : n = Len(line) /\ DOMAIN line = 1..n /\ \A w \in 1..n : line[w] \in Word
  <2>1. Len(line) \in Nat /\ DOMAIN line = 1..Len(line) /\ \A w \in 1..Len(line) : line[w] \in Word
    BY LenProperties, ElementOfSeq DEF Line
  <2> QED BY <2>1
<1> DEFINE Clean(w) == [l \in DOMAIN line[w] |-> Shown(line[w][l])]
<1>2. ASSUME NEW w \in 1..n
      PROVE  Clean(w) \in Word /\ Len(Clean(w)) = Len(line[w]) /\ Len(line[w]) \in Nat \ {0}
  <2>1. line[w] \in Seq(Letter) /\ line[w] # <<>>
    BY <1>1 DEF Word
  <2>2. PICK m \in Nat : m = Len(line[w]) /\ DOMAIN line[w] = 1..m
    BY <2>1, LenProperties
  <2>3. m # 0
    BY <2>1, <2>2, EmptySeq
  <2>4. \A l : Shown(l) \in Letter
    BY DEF Shown, Letter, Latin1
  <2>5. Clean(w) = [l \in 1..m |-> Shown(line[w][l])]
    BY <2>2
  <2> HIDE DEF Clean
  <2>6. Clean(w) \in Seq(Letter) /\ Len(Clean(w)) = m
    BY <2>4, <2>5
  <2>7. Clean(w) # <<>>
    BY <2>3, <2>6, EmptySeq
  <2> QED BY <2>2, <2>3, <2>6, <2>7 DEF Word
<1>3. Sanitize(line) = [w \in 1..n |-> Clean(w)]
  BY <1>1 DEF Sanitize
<1> HIDE DEF Clean
<1>4. Sanitize(line) \in Line
  BY <1>2, <1>3 DEF Line
<1>5. Lengths(line) = [w \in 1..n |-> Len(line[w])]
  BY <1>1 DEF Lengths
<1>6. Lengths(Sanitize(line)) = [w \in 1..n |-> Len(line[w])]
  BY <1>2, <1>3 DEF Lengths
<1>7. Lengths(line) \in Widths
  BY <1>2, <1>5 DEF Widths
<1> QED BY <1>4, <1>5, <1>6, <1>7

\* The part of a sequence at one place is its element there.
LEMMA SubSeqOne ==
  ASSUME NEW S, NEW s, NEW m \in Int, s[m] \in S
  PROVE  SubSeq(s, m, m) \in Seq(S) /\ Len(SubSeq(s, m, m)) = 1 /\ SubSeq(s, m, m)[1] = s[m]
<1>1. \A i \in m..m : s[i] \in S
  OBVIOUS
<1>2. /\ SubSeq(s, m, m) \in Seq(S)
      /\ Len(SubSeq(s, m, m)) = IF m <= m THEN m - m + 1 ELSE 0
      /\ \A i \in 1..(m - m + 1) : SubSeq(s, m, m)[i] = s[m + i - 1]
  BY <1>1, SubSeqProperties
<1>3. m <= m /\ m - m + 1 = 1 /\ m + 1 - 1 = m
  OBVIOUS
<1> QED BY <1>2, <1>3

\* Nothing is lost when sequences are joined.
LEMMA FlattenHas ==
  ASSUME NEW X, NEW ss \in Seq(Seq(X)), NEW k \in 1..Len(ss), NEW i \in 1..Len(ss[k])
  PROVE  \E j \in 1..Len(FlattenSeq(ss)) : FlattenSeq(ss)[j] = ss[k][i]
<1> DEFINE a == SubSeq(ss, 1, k - 1)
           b == SubSeq(ss, k, k)
           c == SubSeq(ss, k + 1, Len(ss))
           x == ss[k]
<1>1. PICK n \in Nat : n = Len(ss) /\ k \in 1..n
  BY LenProperties
<1>2. ss = (a \o b) \o c /\ b = <<x>>
  <2>1. 1 \in 1..Len(ss) + 1 /\ k - 1 \in 1 - 1..Len(ss) /\ k \in k - 1..Len(ss)
        /\ k \in 1 - 1..Len(ss) /\ Len(ss) \in k..Len(ss) /\ k - 1 + 1 = k
    BY <1>1
  <2>2. SubSeq(ss, 1, k - 1) \o SubSeq(ss, k - 1 + 1, k) = SubSeq(ss, 1, k)
    BY <2>1, ConcatAdjacentSubSeq
  <2>3. SubSeq(ss, 1, k) \o SubSeq(ss, k + 1, Len(ss)) = SubSeq(ss, 1, Len(ss))
    BY <2>1, ConcatAdjacentSubSeq
  <2>4. SubSeq(ss, 1, Len(ss)) = ss
    BY SubSeqFull
  <2>5. SubSeq(ss, k, k) = <<ss[k]>>
    <3>1. k \in Int
      BY <1>1
    <3>2. ss[k] \in Seq(X)
      BY ElementOfSeq
    <3>3. /\ SubSeq(ss, k, k) \in Seq(Seq(X)) /\ Len(SubSeq(ss, k, k)) = 1
          /\ SubSeq(ss, k, k)[1] = ss[k]
      BY <3>1, <3>2, SubSeqOne
    <3> DEFINE u == SubSeq(ss, k, k)
    <3> HIDE DEF u
    <3>4. \A v \in Seq(Seq(X)) : Len(v) = 1 => v = <<v[1]>>
      OBVIOUS
    <3> QED BY <3>3, <3>4
  <2> QED BY <2>1, <2>2, <2>3, <2>4, <2>5
<1>3. x \in Seq(X)
  BY ElementOfSeq
<1>4. a \in Seq(Seq(X)) /\ c \in Seq(Seq(X)) /\ <<x>> \in Seq(Seq(X))
  <2>1. \A u \in Seq(X) : <<u>> \in Seq(Seq(X))
    OBVIOUS
  <2>2. SubSeq(ss, 1, k - 1) \in Seq(Seq(X)) /\ SubSeq(ss, k + 1, Len(ss)) \in Seq(Seq(X))
    BY <1>1, SubSeqProperties
  <2> QED BY <1>3, <2>1, <2>2
<1> HIDE DEF a, b, c
<1>5. FlattenSeq(ss) = (FlattenSeq(a) \o x) \o FlattenSeq(c)
  <2>1. a \o <<x>> \in Seq(Seq(X))
    BY <1>4, ConcatProperties
  <2>2. FlattenSeq((a \o <<x>>) \o c) = FlattenSeq(a \o <<x>>) \o FlattenSeq(c)
    BY <1>4, <2>1, FlattenConcat
  <2>3. FlattenSeq(a \o <<x>>) = FlattenSeq(a) \o FlattenSeq(<<x>>)
    BY <1>4, FlattenConcat
  <2>4. FlattenSeq(<<x>>) = x
    BY FlattenOne
  <2> QED BY <1>2, <2>2, <2>3, <2>4
<1>6. PICK f \in Seq(X), g \in Seq(X) : f = FlattenSeq(a) /\ g = FlattenSeq(c)
  BY <1>4, FlattenType
<1>7. PICK p \in Nat, q \in Nat, m \in Nat : p = Len(f) /\ q = Len(x) /\ m = Len(g)
  BY <1>3, LenProperties
<1>8. i \in 1..q
  BY <1>7 DEF x
<1> HIDE DEF x
<1> DEFINE fx == f \o x
<1>9. /\ fx \in Seq(X) /\ Len(fx) = p + q
      /\ \A j \in 1..(p + q) : fx[j] = IF j <= p THEN f[j] ELSE x[j - p]
  BY <1>3, <1>7, ConcatProperties
<1> HIDE DEF fx
<1>10. /\ Len(fx \o g) = (p + q) + m
       /\ \A j \in 1..((p + q) + m) : (fx \o g)[j] = IF j <= p + q THEN fx[j] ELSE g[j - (p + q)]
  <2>1. /\ Len(fx \o g) = Len(fx) + Len(g)
        /\ \A j \in 1..(Len(fx) + Len(g)) :
             (fx \o g)[j] = IF j <= Len(fx) THEN fx[j] ELSE g[j - Len(fx)]
    BY <1>9, ConcatProperties
  <2>2. Len(fx) = p + q /\ Len(g) = m
    BY <1>7, <1>9
  <2> QED BY <2>1, <2>2
<1>11. /\ p + i \in 1..(p + q) /\ p + i \in 1..((p + q) + m) /\ p + i <= p + q
       /\ ~(p + i <= p) /\ (p + i) - p = i
  BY <1>8
<1>12. (fx \o g)[p + i] = x[i]
  <2>1. fx[p + i] = x[(p + i) - p]
    BY <1>9, <1>11
  <2> QED BY <1>10, <1>11, <2>1
<1>13. FlattenSeq(ss) = fx \o g
  BY <1>5, <1>6 DEF fx
<1> QED BY <1>10, <1>11, <1>12, <1>13 DEF x

\* The rows of a line fit and show it.
LEMMA RowsOfLine ==
  ASSUME NEW line \in Line
  PROVE  Rows(line) \in Seq(RowType) /\ Show(Rows(line), line)
<1> DEFINE clean == Sanitize(line)
           widths == Lengths(line)
           strips == WrapLine(widths)
           rows == Rows(line)
<1>1. clean \in Line /\ Lengths(clean) = widths /\ widths \in Widths
  BY SanitizedIs
<1>2. strips \in Seq(FittingStrip) /\ Spells(FlattenSeq(strips), widths)
  BY <1>1, LineIsWrapped, SpellsAll
<1>3. PICK n \in Nat : n = Len(strips) /\ DOMAIN strips = 1..n /\ \A r \in 1..n : strips[r] \in FittingStrip
  <2>1. Len(strips) \in Nat /\ DOMAIN strips = 1..Len(strips)
        /\ \A r \in 1..Len(strips) : strips[r] \in FittingStrip
    BY <1>2, LenProperties, ElementOfSeq
  <2> QED BY <2>1
<1>4. rows = [r \in 1..n |-> [of |-> clean, pieces |-> strips[r]]]
  <2>1. rows = [r \in DOMAIN WrapLine(Lengths(clean)) |-> [of |-> clean, pieces |-> WrapLine(Lengths(clean))[r]]]
    BY Zenon DEF Rows
  <2> HIDE DEF clean, widths, rows
  <2> QED BY <1>1, <1>3, <2>1
<1> HIDE DEF rows, strips, clean
<1>5. rows \in Seq(RowType)
  BY <1>1, <1>3, <1>4 DEF RowType
<1>6. DOMAIN rows = 1..n /\ \A r \in 1..n : rows[r].of = clean /\ rows[r].pieces = strips[r]
  BY <1>4
<1>7. [r \in DOMAIN rows |-> rows[r].pieces] = strips
  <2>1. strips = [r \in 1..n |-> strips[r]]
    BY <1>2, <1>3
  <2> QED BY <1>6, <2>1
<1>8. ASSUME NEW r \in 1..n, NEW i \in DOMAIN strips[r],
             NEW l \in (strips[r][i].from + 1)..strips[r][i].to
      PROVE  clean[strips[r][i].word][l] = IF line[strips[r][i].word][l] \in Latin1
                                           THEN line[strips[r][i].word][l] ELSE "?"
  <2>1. PICK p \in PieceType : p = strips[r][i] /\ i \in 1..Len(strips[r])
    <3>1. strips[r] \in Seq(PieceType)
      BY <1>3 DEF FittingStrip, Strip
    <3>2. DOMAIN strips[r] = 1..Len(strips[r]) /\ i \in 1..Len(strips[r])
      BY <3>1, LenProperties
    <3>3. strips[r][i] \in PieceType
      BY <3>1, <3>2, ElementOfSeq
    <3> QED BY <3>2, <3>3
  <2>2. p.word \in DOMAIN widths /\ p.to <= widths[p.word]
    <3>1. strips \in Seq(Seq(PieceType))
      BY <1>2, StripsFlat
    <3>2. \E j \in 1..Len(FlattenSeq(strips)) : FlattenSeq(strips)[j] = strips[r][i]
      BY <1>3, <2>1, <3>1, FlattenHas
    <3>3. DOMAIN FlattenSeq(strips) = 1..Len(FlattenSeq(strips))
      BY <1>2, StripsFlat, LenProperties
    <3> HIDE DEF widths
    <3> QED BY <1>2, <2>1, <3>2, <3>3 DEF Spells
  <2>3. p.word \in DOMAIN line /\ widths[p.word] = Len(line[p.word])
    BY <2>2 DEF Lengths
  <2>4. l \in DOMAIN line[p.word]
    <3>1. line[p.word] \in Seq(Letter)
      <4>1. line[p.word] \in Word
        BY <2>3, LenProperties, ElementOfSeq DEF Line
      <4> QED BY <4>1 DEF Word
    <3>2. PICK m \in Nat : m = Len(line[p.word]) /\ DOMAIN line[p.word] = 1..m
      BY <3>1, LenProperties
    <3>3. PICK f \in Nat, t \in Nat : f = p.from /\ t = p.to
      BY <2>1 DEF PieceType
    <3>4. l \in (f + 1)..t /\ t <= m
      BY <2>1, <2>2, <2>3, <3>2, <3>3
    <3> QED BY <3>2, <3>4
  <2>5. clean[p.word][l] = Shown(line[p.word][l])
    BY <2>3, <2>4 DEF clean, Sanitize
  <2> QED BY <2>1, <2>5 DEF Shown
<1>9. ASSUME NEW r \in DOMAIN rows, NEW i \in DOMAIN rows[r].pieces
      PROVE  LET p == rows[r].pieces[i] IN
             \A l \in (p.from + 1)..p.to :
               rows[r].of[p.word][l] = IF line[p.word][l] \in Latin1 THEN line[p.word][l] ELSE "?"
  <2>1. r \in 1..n /\ rows[r].of = clean /\ rows[r].pieces = strips[r]
    BY <1>6
  <2> QED BY <1>8, <2>1
<1> QED BY <1>2, <1>5, <1>7, <1>9 DEF Show, rows

\* The lines of a document, wrapped.
Wrapped(lines) == [i \in DOMAIN lines |-> Rows(lines[i])]

\* Wrapping gives rows that fit.
LEMMA LinesAreWrapped ==
  ASSUME NEW lines \in Seq(Line)
  PROVE  /\ Wrapped(lines) \in Seq(Seq(RowType)) /\ Len(Wrapped(lines)) = Len(lines)
         /\ FlattenSeq(Wrapped(lines)) \in Seq(RowType)
<1>1. PICK n \in Nat : n = Len(lines) /\ DOMAIN lines = 1..n /\ \A i \in 1..n : lines[i] \in Line
  <2>1. Len(lines) \in Nat /\ DOMAIN lines = 1..Len(lines) /\ \A i \in 1..Len(lines) : lines[i] \in Line
    BY LenProperties, ElementOfSeq
  <2> QED BY <2>1
<1> DEFINE T == Seq(RowType)
<1>2. \A i \in 1..n : Rows(lines[i]) \in T
  BY <1>1, RowsOfLine
<1> HIDE DEF T
<1>3. Wrapped(lines) \in Seq(T) /\ Len(Wrapped(lines)) = n
  <2>1. Wrapped(lines) = [i \in 1..n |-> Rows(lines[i])]
    BY <1>1 DEF Wrapped
  <2> QED BY <1>2, <2>1
<1> QED BY <1>1, <1>3, FlattenType DEF T

\* Wrapping two documents, one behind the other.
LEMMA WrappedConcat ==
  ASSUME NEW a \in Seq(Line), NEW b \in Seq(Line)
  PROVE  FlattenSeq(Wrapped(a \o b)) = FlattenSeq(Wrapped(a)) \o FlattenSeq(Wrapped(b))
<1>1. PICK n \in Nat, m \in Nat : n = Len(a) /\ m = Len(b) /\ DOMAIN a = 1..n /\ DOMAIN b = 1..m
  <2>1. Len(a) \in Nat /\ Len(b) \in Nat /\ DOMAIN a = 1..Len(a) /\ DOMAIN b = 1..Len(b)
    BY LenProperties
  <2> QED BY <2>1
<1> DEFINE T == Seq(RowType)
           c == a \o b
           v == Wrapped(a)
           w == Wrapped(b)
           u == Wrapped(c)
<1>2. /\ c \in Seq(Line) /\ Len(c) = Len(a) + Len(b)
      /\ \A i \in 1..(Len(a) + Len(b)) : c[i] = IF i <= Len(a) THEN a[i] ELSE b[i - Len(a)]
  BY ConcatProperties
<1> HIDE DEF c
<1>3. DOMAIN c = 1..(n + m)
  BY <1>1, <1>2, LenProperties
<1>4. /\ u \in Seq(T) /\ Len(u) = n + m /\ v \in Seq(T) /\ Len(v) = n /\ w \in Seq(T) /\ Len(w) = m
  BY <1>1, <1>2, LinesAreWrapped
<1>5. /\ \A i \in 1..(n + m) : u[i] = Rows(c[i])
      /\ \A i \in 1..n : v[i] = Rows(a[i])
      /\ \A i \in 1..m : w[i] = Rows(b[i])
  BY <1>1, <1>3 DEF Wrapped
<1> HIDE DEF u, v, w, T
<1>6. /\ v \o w \in Seq(T) /\ Len(v \o w) = Len(v) + Len(w)
      /\ \A i \in 1..(Len(v) + Len(w)) : (v \o w)[i] = IF i <= Len(v) THEN v[i] ELSE w[i - Len(v)]
  BY <1>4, ConcatProperties
<1>7. ASSUME NEW i \in 1..(n + m) PROVE (v \o w)[i] = u[i]
  <2>1. /\ c[i] = IF i <= n THEN a[i] ELSE b[i - n]
        /\ (v \o w)[i] = IF i <= n THEN v[i] ELSE w[i - n]
    BY <1>1, <1>2, <1>4, <1>6
  <2>2. CASE i <= n
    <3>1. i \in 1..n
      BY <2>2
    <3> QED BY <1>5, <2>1, <2>2, <3>1
  <2>3. CASE ~(i <= n)
    <3>1. i - n \in 1..m
      BY <2>3
    <3> QED BY <1>5, <2>1, <2>3, <3>1
  <2> QED BY <2>2, <2>3
<1>8. v \o w = u
  <2>1. Len(v \o w) = n + m
    BY <1>4, <1>6
  <2> QED BY <1>4, <1>6, <1>7, <2>1, SeqEqual
<1>9. FlattenSeq(v \o w) = FlattenSeq(v) \o FlattenSeq(w)
  BY <1>4, FlattenConcat DEF T
<1> QED BY <1>8, <1>9 DEF u, v, w, c

\* The objects of a file of P pages.
FileOf(objs, pages, P) ==
  objs = [n \in 1..(3 + 2 * P) |->
                IF n = 1 THEN [type |-> "catalog", pages |-> 2]
                ELSE IF n = 2 THEN [type |-> "pages", kids |-> [p \in 1..P |-> 3 + 2 * p], count |-> P]
                ELSE IF n = 3 THEN [type |-> "font"]
                ELSE IF n % 2 = 0 THEN [type |-> "content", lines |-> pages[(n - 2) \div 2]]
                ELSE [type |-> "page", contents |-> n - 1, font |-> 3]]

\* What is read of the file: the pages.
LEMMA ReferencesHold ==
  ASSUME NEW pages, NEW P \in Nat, NEW objs, FileOf(objs, pages, P)
  PROVE  /\ objs[objs[1].pages].kids = [p \in 1..P |-> 3 + 2 * p]
         /\ \A p \in 1..P : 3 + 2 * p \in DOMAIN objs /\ objs[objs[3 + 2 * p].contents].lines = pages[p]
<1>1. 1 \in 1..(3 + 2 * P) /\ 2 \in 1..(3 + 2 * P) /\ 2 # 1
  OBVIOUS
<1>2. objs[1] = [type |-> "catalog", pages |-> 2]
  BY <1>1 DEF FileOf
<1>3. objs[2] = [type |-> "pages", kids |-> [p \in 1..P |-> 3 + 2 * p], count |-> P]
  BY <1>1 DEF FileOf
<1>4. objs[objs[1].pages].kids = [p \in 1..P |-> 3 + 2 * p]
  <2>1. objs[1].pages = 2
    BY <1>2
  <2>2. objs[2].kids = [p \in 1..P |-> 3 + 2 * p]
    BY <1>3
  <2> QED BY <2>1, <2>2, Zenon
<1>5. ASSUME NEW p \in 1..P
      PROVE  3 + 2 * p \in DOMAIN objs /\ objs[objs[3 + 2 * p].contents].lines = pages[p]
  <2> DEFINE k == 3 + 2 * p
             l == 2 + 2 * p
  <2>1. /\ k \in 1..(3 + 2 * P) /\ k # 1 /\ k # 2 /\ k # 3 /\ k % 2 # 0 /\ k - 1 = l
        /\ l \in 1..(3 + 2 * P) /\ l # 1 /\ l # 2 /\ l # 3 /\ l % 2 = 0 /\ (l - 2) \div 2 = p
    OBVIOUS
  <2> HIDE DEF k, l
  <2>2. objs[k] = [type |-> "page", contents |-> k - 1, font |-> 3]
    BY <2>1 DEF FileOf
  <2>3. objs[l] = [type |-> "content", lines |-> pages[(l - 2) \div 2]]
    BY <2>1 DEF FileOf
  <2>4. objs[k].contents = l
    BY <2>1, <2>2
  <2>5. objs[l].lines = pages[p]
    BY <2>1, <2>3
  <2>6. k \in DOMAIN objs
    BY <2>1 DEF FileOf
  <2>7. objs[objs[k].contents].lines = pages[p]
    BY <2>4, <2>5, Zenon
  <2> QED BY <2>6, <2>7 DEF k
<1> QED BY <1>4, <1>5

\* What PdfReadsBack says of a document of some lines.
ReadsBack(objs, lines) ==
  LET kids == objs[objs[1].pages].kids
      shown == [p \in DOMAIN kids |-> objs[objs[kids[p]].contents].lines]
      flat == FlattenSeq(shown)
      source == FlattenSeq([i \in DOMAIN lines |-> Rows(lines[i])])
  IN /\ \A p \in DOMAIN kids : kids[p] \in DOMAIN objs /\ Len(shown[p]) \in 1..MaxLines
     /\ \A i \in DOMAIN flat : WidthOf(flat[i].pieces) <= MaxChars
     /\ \E n \in 0..Len(flat) : SubSeq(flat, n + 1, Len(flat)) = source
     /\ \A i \in DOMAIN lines : Show(Rows(lines[i]), lines[i])

\* A file reads back as the lines it is made of.
LEMMA FileReadsBack ==
  ASSUME NEW title \in Line, NEW lines \in Seq(Line)
  PROVE  ReadsBack(RenderSummaryPdf(title, lines), lines)
<1> DEFINE header == << title, Own(<<Rule(title)>>), <<>> >>
           all == header \o lines
           flat == FlattenSeq(Wrapped(all))
           pages == Pages(flat)
           P == Len(pages)
           objs == RenderSummaryPdf(title, lines)
           kids == objs[objs[1].pages].kids
           shown == [p \in DOMAIN kids |-> objs[objs[kids[p]].contents].lines]
           source == FlattenSeq(Wrapped(lines))
<1>1. header \in Seq(Line)
  <2>1. Rule(title) \in Nat \ {0}
    <3>1. MaxChars \in Nat \ {0} /\ 1..MaxChars \subseteq Nat \ {0}
      BY TextAssumption
    <3> QED BY <3>1 DEF Rule
  <2>2. Own(<<Rule(title)>>) \in Line /\ <<>> \in Line
    BY <2>1, OwnLines DEF Line
  <2>3. \A a, b, c \in Line : <<a, b, c>> \in Seq(Line)
    <3> HIDE DEF Line
    <3> QED OBVIOUS
  <2> QED BY <2>2, <2>3
<1> HIDE DEF header
<1>2. all \in Seq(Line)
  BY <1>1, ConcatProperties
<1>3. /\ flat \in Seq(RowType)
      /\ flat = FlattenSeq(Wrapped(header)) \o source
      /\ FlattenSeq(Wrapped(header)) \in Seq(RowType) /\ source \in Seq(RowType)
  BY <1>1, <1>2, WrappedConcat, LinesAreWrapped
<1>4. FileOf(objs, pages, P)
  BY Zenon DEF RenderSummaryPdf, Wrapped, FileOf, header
<1> HIDE DEF flat, all, source, objs
<1>5. /\ pages \in Seq(Seq(RowType)) /\ FlattenSeq(pages) = flat
      /\ \A p \in 1..P : Len(pages[p]) \in 1..MaxLines
  BY <1>3, PagesKeepAll
<1> HIDE DEF pages
<1>6. P \in Nat /\ pages = [p \in 1..P |-> pages[p]]
  BY <1>5, LenProperties
<1> HIDE DEF P
<1>7. /\ kids = [p \in 1..P |-> 3 + 2 * p]
      /\ \A p \in 1..P : 3 + 2 * p \in DOMAIN objs /\ objs[objs[3 + 2 * p].contents].lines = pages[p]
  BY <1>4, <1>6, ReferencesHold
<1> HIDE DEF kids
<1>8. DOMAIN kids = 1..P /\ \A p \in 1..P : kids[p] = 3 + 2 * p
  BY <1>7
<1>9. shown = pages
  <2>1. shown = [p \in 1..P |-> objs[objs[3 + 2 * p].contents].lines]
    BY <1>8
  <2> HIDE DEF shown
  <2>2. shown = [p \in 1..P |-> pages[p]]
    BY <1>7, <2>1
  <2> QED BY <1>6, <2>2
<1> HIDE DEF shown
<1>10. \A p \in DOMAIN kids : kids[p] \in DOMAIN objs /\ Len(shown[p]) \in 1..MaxLines
  <2>1. SUFFICES ASSUME NEW p \in 1..P PROVE kids[p] \in DOMAIN objs /\ Len(shown[p]) \in 1..MaxLines
    BY <1>8
  <2>2. kids[p] \in DOMAIN objs
    BY <1>7, <1>8
  <2>3. Len(pages[p]) \in 1..MaxLines
    BY <1>5 DEF P
  <2> QED BY <1>9, <2>2, <2>3
<1>11. \A i \in DOMAIN flat : WidthOf(flat[i].pieces) <= MaxChars
  <2>1. DOMAIN flat = 1..Len(flat) /\ \A i \in 1..Len(flat) : flat[i] \in RowType
    BY <1>3, LenProperties, ElementOfSeq
  <2> QED BY <2>1 DEF RowType, FittingStrip
<1>12. \E n \in 0..Len(flat) : SubSeq(flat, n + 1, Len(flat)) = source
  BY <1>3, EndOfConcat
<1>13. \A i \in DOMAIN lines : Show(Rows(lines[i]), lines[i])
  <2>1. DOMAIN lines = 1..Len(lines) /\ \A i \in 1..Len(lines) : lines[i] \in Line
    BY LenProperties, ElementOfSeq
  <2> QED BY <2>1, RowsOfLine
<1>14. FlattenSeq(shown) = flat
  BY <1>5, <1>9
<1> QED BY <1>10, <1>11, <1>12, <1>13, <1>14, Zenon DEF ReadsBack, kids, shown, source, objs, Wrapped

-----------------------------------------------------------------------------
(* The results.                                                            *)

\* The inductive invariant of an export and the rows it reads.
THEOREM ExportsInvHolds == Spec => []AllInv
BY InitAll, StepAll, PTL DEF Spec

\* Types of the rows and of the export under way (export.service.ts).
THEOREM ExportsTypes == Spec => []ExportsTypeOK
<1>1. AllInv => ExportsTypeOK
  BY DEF AllInv
<1> QED BY <1>1, ExportsInvHolds, PTL

\* An audio export that is sent was made from every chunk that was committed
\* when it was asked for -- a converted one, from what ffmpeg was given, of
\* which this says no more (export.service.ts exportAudio, exportZip;
\* export-client.ts).
THEOREM SentIsWhole == Spec => []ExportsAreWhole
<1>1. AllInv => ExportsAreWhole
  BY DEF AllInv
<1> QED BY <1>1, ExportsInvHolds, PTL

\* Captions and plain text are of a completed transcript, also when the next
\* run was requested meanwhile (export.service.ts:82).
THEOREM SentTextExists == Spec => []SentHasText
<1>1. AllInv => SentHasText
  BY DEF AllInv, TextInv
<1> QED BY <1>1, ExportsInvHolds, PTL

\* The blocks of the viewer are the turns between silences: what the server
\* labels and the page groups again agree, for any texts that a driver may
\* return (diarize.ts assignSpeakersByGaps, lib/transcript.ts).  One speaker
\* alone takes no turns; the code's maxSpeakers is 4.
THEOREM ViewerShowsTurns == MaxSpeakers > 1 => (Spec => []BlocksAreTurns)
<1> SUFFICES ASSUME MaxSpeakers > 1 PROVE Spec => []BlocksAreTurns
  OBVIOUS
<1>1. ExportsTypeOK => BlocksAreTurns
  <2> SUFFICES ASSUME ExportsTypeOK, NEW segs \in text
               PROVE  LET blocks == GroupSegmentsBySpeaker(segs)
                          Gap(s, t) == t.from - s.to
                      IN /\ FlattenSeq([b \in DOMAIN blocks |-> blocks[b].segments]) = segs
                         /\ \A raw \in Raw : ~HasSpeakers(raw) /\ Diarized(raw) = segs =>
                              /\ \A b \in DOMAIN blocks : \A i \in 2..Len(blocks[b].segments) :
                                   Gap(blocks[b].segments[i - 1], blocks[b].segments[i]) < GapMs
                              /\ \A b \in 2..Len(blocks) :
                                   Gap(Last(blocks[b - 1].segments), blocks[b].segments[1]) >= GapMs
    BY DEF BlocksAreTurns
  <2>1. Raw \subseteq Seq(Segment)
    BY ExportsAssumption
  <2>2. PICK raw \in Raw : segs = Diarized(raw)
    BY DEF ExportsTypeOK, Stored
  <2>3. segs \in Seq(Segment)
    BY <2>1, <2>2, LabelsTurn DEF Diarized
  <2> QED BY <2>1, <2>3, BlocksKeepAll, TurnsAreBlocks
<1> QED BY <1>1, ExportsTypes, PTL

\* Captions read back as the segments of the text they are made of, one
\* paragraph for each, whatever the driver said (transcript-format.ts toVtt,
\* toSrt, msToTimestamp; export.service.ts exportTranscript).  Times before 0
\* would be shown as 0; drivers count from the start of the recording.
THEOREM CaptionsAreRead ==
  (\A raw \in Raw : \A i \in DOMAIN raw : raw[i].from >= 0 /\ raw[i].to >= 0)
    => (Spec => []CaptionsReadBack)
<1> SUFFICES ASSUME \A raw \in Raw : \A i \in DOMAIN raw : raw[i].from >= 0 /\ raw[i].to >= 0
             PROVE  Spec => []CaptionsReadBack
  OBVIOUS
<1>1. ExportsTypeOK /\ SentHasText => CaptionsReadBack
  <2> SUFFICES ASSUME ExportsTypeOK, SentHasText, Sent({"vtt", "srt"})
               PROVE  export.text # {} /\ Captions(Document, Segments)
    BY DEF CaptionsReadBack, Captions
  <2>1. export.text # {} /\ export.text \in SUBSET Stored
    BY DEF SentHasText, Sent, TextKinds, ExportsTypeOK, ExportTypes
  <2>2. Segments \in Stored
    BY <2>1 DEF Segments
  <2>3. PICK raw \in Raw : Segments = Diarized(raw)
    BY <2>2 DEF Stored
  <2>4. raw \in Seq(Segment)
    BY ExportsAssumption
  <2>5. TimedText(Segments)
    BY <2>3, <2>4, DiarizedKeeps
  <2>6. Document \in {ToVtt(Segments), ToSrt(Segments)}
    BY DEF Document, Sent
  <2> QED BY <2>1, <2>5, <2>6, SrtIsRead, VttIsRead
<1> QED BY <1>1, ExportsTypes, SentTextExists, PTL

\* A reader of the PDF finds every line of the notes, each letter that Latin-1
\* has in its place and a question mark for each that it lacks, no line too
\* wide and no page too long, for any title, notes, text and summary and
\* however long their words are (pdf.ts renderSummaryPdf, sanitize, wrapLine).
THEOREM PdfIsRead == Spec => []PdfReadsBack
<1>1. ExportsTypeOK => PdfReadsBack
  <2> SUFFICES ASSUME ExportsTypeOK, Sent({"pdf"}) PROVE ReadsBack(Document, Notes)
    BY DEF PdfReadsBack, ReadsBack
  <2>1. Raw \subseteq Seq(Segment) /\ export.text \in SUBSET Stored /\ export.summary \in SUBSET Stored
    BY ExportsAssumption DEF ExportsTypeOK, ExportTypes
  <2>2. Stored \subseteq Seq(Segment)
    BY <2>1, DiarizedIs DEF Stored
  <2>3. Segments \in Seq(Segment)
    <3>1. <<>> \in Seq(Segment)
      OBVIOUS
    <3> QED BY <2>1, <2>2, <3>1 DEF Segments
  <2>4. Summaries \in Seq(SummaryType)
    <3>1. CASE export.summary = {}
      <4>1. <<>> \in Seq(SummaryType)
        OBVIOUS
      <4> QED BY <3>1, <4>1 DEF Summaries
    <3>2. CASE export.summary # {}
      <4>1. PICK segs \in Seq(Segment) : segs = CHOOSE s \in export.summary : TRUE
        BY <2>1, <2>2, <3>2
      <4>2. SummarizeText(segs) \in SummaryType
        BY SummarizeType
      <4>3. \A x \in SummaryType : <<x>> \in Seq(SummaryType)
        OBVIOUS
      <4> QED BY <3>2, <4>1, <4>2, <4>3 DEF Summaries
    <3> QED BY <3>1, <3>2
  <2>5. Notes \in Seq(Line)
    <3>1. Title \in Line /\ Written \in Seq(Line)
      BY ExportsAssumption DEF Line
    <3> QED BY <2>3, <2>4, <3>1, NotesType DEF Notes
  <2>6. Document = RenderSummaryPdf(Title, Notes)
    BY DEF Document, Sent
  <2>7. Title \in Line
    BY ExportsAssumption DEF Line
  <2> QED BY <2>5, <2>6, <2>7, FileReadsBack
<1> QED BY <1>1, ExportsTypes, PTL

=============================================================================
