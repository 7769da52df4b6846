------------------------------ MODULE Exports ------------------------------
(***************************************************************************)
(* The exports of one recording: ExportService on the server, and          *)
(* exportWavClient in the page.  An export is a sequence of reads; between *)
(* two of them chunks arrive, the transcription ends or starts again, the  *)
(* summary is written and the recording may be deleted.  What the          *)
(* documents say is in TranscriptText.                                     *)
(***************************************************************************)
EXTENDS TranscriptText

CONSTANTS
  Channel, Preferred,  \* channels; CHANNEL_PREFERENCE
  MaxChunks,    \* bound: chunks committed per channel
  Title, Written,  \* what the user called the recording, and noted on it
  Raw,          \* bound: the segments that a driver may return
  MaxRuns,      \* bound: transcription runs
  Ffmpeg,       \* is FFMPEG_PATH set?
  Faults        \* may a read, a request or ffmpeg fail?

ASSUME ExportsAssumption ==
  /\ Raw \subseteq Seq(Segment)
  /\ Title \in Seq(Word) /\ Written \in Seq(Seq(Word))
  /\ Preferred \in Seq(Channel) /\ MaxChunks \in Nat /\ MaxRuns \in Nat
  /\ Ffmpeg \in BOOLEAN /\ Faults \in BOOLEAN

VARIABLES
  status, text, \* the transcript row: text is {} or the segments
  summary,      \* the summary row: {} or the segments it was made from
  runs,         \* transcription runs so far
  chunks,       \* committed chunks of each channel
  export        \* the export under way, or the last one

rowVars == <<status, text, summary, runs, chunks>>
vars == <<rowVars, export>>

Row == INSTANCE TranscriptLifecycle WITH Text <- {Diarized(segs) : segs \in Raw}

Exists == status # "deleted"
Nothing == [c \in Channel |-> 0]
NoExport == [kind |-> "none", todo |-> <<>>, had |-> Nothing, channels |-> {},
             audio |-> Nothing, heard |-> 0, text |-> {}, summary |-> {}, result |-> "none"]

Init ==
  /\ Row!TInit /\ summary = {} /\ runs = 0
  /\ chunks = Nothing /\ export = NoExport

-----------------------------------------------------------------------------
(* The reads of each kind of export, in the order of the code; flac stands *)
(* for all that need ffmpeg, wav is the one that the page makes.           *)

Reads ==
  [webm |-> <<"list", "audio">>, flac |-> <<"list", "audio", "ffmpeg">>,
   wav |-> <<"chunks", "blobs">>,
   txt |-> <<"completed">>, vtt |-> <<"completed">>, srt |-> <<"completed">>,
   words |-> <<"completed">>,
   md |-> <<"summary", "text">>, pdf |-> <<"summary", "text">>,
   zip |-> <<"list", "audio", "text", "summary">>]

Underway == export.result = "underway"
Reading(r) == Underway /\ export.todo # <<>> /\ Head(export.todo) = r
Rest == Tail(export.todo)
Failed == [export EXCEPT !.todo = <<>>, !.result = "failed"]

\* getOwned; `had` remembers what was committed by then.
Start(kind) ==
  /\ ~Underway
  /\ export' = [NoExport EXCEPT !.kind = kind, !.had = chunks,
                                !.todo = IF Exists THEN Reads[kind] ELSE <<>>,
                                !.result = IF Exists THEN "underway" ELSE "failed"]
  /\ UNCHANGED rowVars

\* The channel that was asked for, the best one, or any.
PickPreferredChannel(channels, asked) ==
  LET known == {i \in DOMAIN Preferred : Preferred[i] \in channels} IN
  IF asked \cap channels # {} THEN {asked \cap channels}
  ELSE IF known # {} THEN {{Preferred[i]} : i \in {j \in known : \A k \in known : j <= k}}
  ELSE {{c} : c \in channels}

Listed == {c \in Channel : chunks[c] > 0}

ListChannels ==
  LET listed == Listed IN
  /\ Reading("list")
  /\ IF export.kind = "zip"
       THEN export' = [export EXCEPT !.todo = Rest, !.channels = listed]
     ELSE IF listed = {} THEN export' = Failed
     ELSE \E asked \in {{}} \cup {{c} : c \in Channel} :
            \E picked \in PickPreferredChannel(listed, asked) :
              export' = [export EXCEPT !.todo = Rest, !.channels = picked]
  /\ UNCHANGED rowVars

\* (mutant) a channel whose chunks are gone is left out
SkipChannel(c) ==
  export' = [export EXCEPT !.audio[c] = chunks[c],
                           !.channels = IF chunks[c] = 0 THEN @ \ {c} ELSE @]
\* One query lists the chunks of a channel; their bytes are still in storage
\* when the rows are deleted meanwhile.
AssembleChannel(c) ==
  IF chunks[c] = 0 THEN export' = Failed ELSE export' = [export EXCEPT !.audio[c] = chunks[c]]

Assemble ==
  LET missing == {c \in export.channels : export.audio[c] = 0} IN
  /\ Reading("audio")
  /\ \/ \E c \in missing : AssembleChannel(c)
     \/ missing = {} /\ export' = [export EXCEPT !.todo = Rest]
  /\ UNCHANGED rowVars

\* exportWavClient lists the chunks, then fetches those of one channel, each a
\* request that fails when the recording is gone.
ListChunks ==
  /\ Reading("chunks")
  /\ \/ Listed = {} /\ export' = Failed
     \/ \E picked \in PickPreferredChannel(Listed, {}) :
          export' = [export EXCEPT !.todo = Rest, !.channels = picked,
                                   !.audio = [c \in Channel |-> IF c \in picked THEN chunks[c] ELSE 0]]
  /\ UNCHANGED rowVars

FetchBlobs ==
  /\ Reading("blobs")
  /\ export' = IF Exists THEN [export EXCEPT !.todo = Rest] ELSE Failed
  /\ UNCHANGED rowVars

\* Each chunk is a WebM file of its own, and what ffmpeg is given is one file,
\* the chunks of the channel end to end.  How many of the chunks in a file it
\* decodes is up to ffmpeg: the first at least.
Inputs(n) == 1
Decoded(inputs, n) == inputs..n

\* transcode: ffmpeg is not configured, exits with an error, or is done.
Transcode ==
  /\ Reading("ffmpeg")
  /\ \/ /\ Ffmpeg
        /\ \E c \in export.channels :
             \E n \in Decoded(Inputs(export.audio[c]), export.audio[c]) :
               export' = [export EXCEPT !.todo = Rest, !.heard = n]
     \/ (~Ffmpeg \/ Faults) /\ export' = Failed
  /\ UNCHANGED rowVars

Completed == status = "completed"

ReadCompleted ==
  /\ Reading("completed")
  /\ export' = IF Completed THEN [export EXCEPT !.todo = Rest, !.text = text] ELSE Failed
  /\ UNCHANGED rowVars

\* Notes take the text and the summary that there are.
ReadText ==
  /\ Reading("text") /\ export' = [export EXCEPT !.todo = Rest, !.text = text]
  /\ UNCHANGED rowVars

ReadSummary ==
  /\ Reading("summary") /\ export' = [export EXCEPT !.todo = Rest, !.summary = summary]
  /\ UNCHANGED rowVars

Send ==
  /\ Underway /\ export.todo = <<>>
  /\ export' = [export EXCEPT !.result = "sent"]
  /\ UNCHANGED rowVars

ReadFails == Faults /\ Underway /\ export' = Failed /\ UNCHANGED rowVars

-----------------------------------------------------------------------------
(* The documents that are sent.                                            *)

Segments == IF export.text = {} THEN <<>> ELSE CHOOSE segs \in export.text : TRUE
Summaries == IF export.summary = {} THEN <<>>
             ELSE << SummarizeText(CHOOSE segs \in export.summary : TRUE) >>
Notes == BuildMarkdownNotes(Title, Written, Summaries, Segments)
Document ==
  CASE export.kind = "txt" -> ToPlainText(Segments)
    [] export.kind = "vtt" -> ToVtt(Segments)
    [] export.kind = "srt" -> ToSrt(Segments)
    [] export.kind \in {"words", "md"} -> Notes
    [] OTHER -> RenderSummaryPdf(Title, Notes)

-----------------------------------------------------------------------------
(* The rest of the system.                                                 *)

Commit(c) ==
  /\ Exists /\ chunks[c] < MaxChunks
  /\ chunks' = [chunks EXCEPT ![c] = @ + 1]
  /\ UNCHANGED <<status, text, summary, runs, export>>

Requested ==
  /\ runs < MaxRuns /\ runs' = runs + 1 /\ Row!Requested
  /\ UNCHANGED <<summary, chunks, export>>

RunEnds ==
  /\ status = "queued" /\ (Row!Completed \/ Row!Failed)
  /\ UNCHANGED <<summary, runs, chunks, export>>

\* Also after the next request has come.
Summarized ==
  /\ Exists /\ text # {} /\ summary' = text
  /\ UNCHANGED <<status, text, runs, chunks, export>>

Deleted ==
  /\ Exists /\ Row!Deleted /\ summary' = {} /\ chunks' = Nothing
  /\ UNCHANGED <<runs, export>>

-----------------------------------------------------------------------------
Next ==
  \/ \E kind \in DOMAIN Reads : Start(kind)
  \/ ListChannels \/ Assemble \/ Transcode \/ ListChunks \/ FetchBlobs
  \/ ReadCompleted \/ ReadText \/ ReadSummary \/ Send \/ ReadFails
  \/ \E c \in Channel : Commit(c)
  \/ Requested \/ RunEnds \/ Summarized \/ Deleted

Spec == Init /\ [][Next]_vars

-----------------------------------------------------------------------------
Sent(kinds) == export.result = "sent" /\ export.kind \in kinds

\* An export that is sent was made from all the audio that was committed when
\* it was asked for, of every channel (zip) or of the one it is for, also when
\* chunks arrive or the recording is deleted while it is put together -- except
\* for a bundle of a recording that was deleted before its channels were
\* listed.  A converted one was made from what ffmpeg was given; what it makes
\* of that is TranscodesAreContinuous (export.service.ts exportZip,
\* exportAudio; export-client.ts).
ExportsAreWhole ==
  Sent({"webm", "flac", "wav", "zip"}) =>
    /\ \A c \in export.channels : export.audio[c] >= export.had[c] /\ export.audio[c] > 0
    /\ export.kind # "zip" => \E c \in Channel : export.channels = {c}
    /\ export.kind = "zip" /\ Exists =>
         \A c \in Channel : export.had[c] > 0 => c \in export.channels

\* "Each chunk is written out and stitched with the concat demuxer so
\* multi-chunk recordings produce one continuous file" (export.service.ts:226):
\* a converted export would have every chunk that was committed when it was
\* asked for.  That is up to ffmpeg here: the code has no concat demuxer, and
\* the model violates it.
TranscodesAreContinuous ==
  Sent({"flac"}) => \A c \in export.channels : export.heard >= export.had[c]

\* What a viewer of captions makes of a file: the paragraphs between its blank
\* lines.
Paragraphs(doc) ==
  LET BlanksTo(i) == Cardinality({j \in 1..i : doc[j] = Blank})
      Lines(p) == {i \in DOMAIN doc : doc[i] # Blank /\ BlanksTo(i) = p - 1}
  IN [p \in 1..(BlanksTo(Len(doc)) + 1) |->
        [i \in 1..Cardinality(Lines(p)) |-> doc[Min(Lines(p)) + i - 1]]]
Millis(t) == ((t[1] * 60 + t[2]) * 60 + t[3]) * 1000 + t[4]
IsCueOf(p, s) ==
  LET range == CHOOSE i \in DOMAIN p : p[i].kind = "range"
      said == SubSeq(p, range + 1, Len(p))
  IN /\ Millis(p[range].from) = s.from /\ Millis(p[range].to) = s.to
     /\ said = IF PrefixedLine(s) = <<>> THEN <<>> ELSE << [kind |-> "text", line |-> PrefixedLine(s)] >>

\* Captions that are sent read back as the segments of a completed text: one
\* paragraph for each, in order, with its times and its words
\* (export.service.ts exportTranscript, transcript-format.ts).
CaptionsReadBack ==
  Sent({"vtt", "srt"}) =>
    LET shown == Paragraphs(Document)
        cues == {p \in DOMAIN shown : shown[p] # <<>> /\ shown[p][1].kind # "header"}
    IN /\ export.text # {}
       /\ \E first \in 0..1 :
            /\ cues = (first + 1)..(first + Len(Segments))
            /\ \A i \in DOMAIN Segments : IsCueOf(shown[first + i], Segments[i])

\* Pieces that, read in order, give the words: every letter once.
Spells(pieces, words) ==
  /\ pieces = <<>> <=> words = <<>>
  /\ \A i \in DOMAIN pieces :
       LET p == pieces[i] IN
       /\ p.word \in DOMAIN words /\ p.from <= p.to /\ p.to <= words[p.word]
       /\ i = 1 => p.word = 1 /\ p.from = 0
       /\ i > 1 => \/ p.word = pieces[i - 1].word /\ p.from = pieces[i - 1].to
                   \/ /\ p.word = pieces[i - 1].word + 1 /\ p.from = 0
                      /\ pieces[i - 1].to = words[pieces[i - 1].word]
       /\ i = Len(pieces) => p.word = Len(words) /\ p.to = words[p.word]

\* Rows that, read in order, show a line: every letter once, and "?" for one
\* that Latin-1 lacks.
Show(rows, line) ==
  /\ Spells(FlattenSeq([r \in DOMAIN rows |-> rows[r].pieces]), Lengths(line))
  /\ \A r \in DOMAIN rows : \A i \in DOMAIN rows[r].pieces :
       LET p == rows[r].pieces[i] IN
       \A l \in (p.from + 1)..p.to :
         rows[r].of[p.word][l] = IF line[p.word][l] \in Latin1 THEN line[p.word][l] ELSE "?"

\* A reader of the PDF that follows its references finds every line of the
\* notes, each letter in its place and once -- as a question mark if Latin-1
\* lacks it -- with no line too wide and no page too long (pdf.ts
\* renderSummaryPdf, sanitize, wrapLine).
PdfReadsBack ==
  Sent({"pdf"}) =>
    LET objs == Document
        kids == objs[objs[1].pages].kids
        shown == [p \in DOMAIN kids |-> objs[objs[kids[p]].contents].lines]
        flat == FlattenSeq(shown)
        source == FlattenSeq([i \in DOMAIN Notes |-> Rows(Notes[i])])
    IN /\ \A p \in DOMAIN kids : kids[p] \in DOMAIN objs /\ Len(shown[p]) \in 1..MaxLines
       /\ \A i \in DOMAIN flat : WidthOf(flat[i].pieces) <= MaxChars
       /\ \E n \in 0..Len(flat) : SubSeq(flat, n + 1, Len(flat)) = source
       /\ \A i \in DOMAIN Notes : Show(Rows(Notes[i]), Notes[i])

\* For a driver that labels no speaker, the blocks of the viewer are the turns
\* between silences: the server's labels and the page's grouping agree, and no
\* segment is lost or moved between them (diarize.ts, lib/transcript.ts).
BlocksAreTurns ==
  \A segs \in text :
    LET blocks == GroupSegmentsBySpeaker(segs)
        Gap(s, t) == t.from - s.to
    IN /\ FlattenSeq([b \in DOMAIN blocks |-> blocks[b].segments]) = segs
       /\ \A raw \in Raw : ~HasSpeakers(raw) /\ Diarized(raw) = segs =>
            /\ \A b \in DOMAIN blocks : \A i \in 2..Len(blocks[b].segments) :
                 Gap(blocks[b].segments[i - 1], blocks[b].segments[i]) < GapMs
            /\ \A b \in 2..Len(blocks) :
                 Gap(Last(blocks[b - 1].segments), blocks[b].segments[1]) >= GapMs

=============================================================================
