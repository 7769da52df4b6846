--------------------------- MODULE TranscriptText ---------------------------
(***************************************************************************)
(* What the code computes from the segments of a transcript: speaker       *)
(* labels (diarize.ts), the offline summary (summarize.ts), captions       *)
(* (transcript-format.ts), notes (markdown.ts), the PDF (pdf.ts) and the   *)
(* blocks of the viewer (apps/web/src/lib/transcript.ts).                  *)
(*                                                                         *)
(* A segment is one sentence.  Its text is a sequence of words (spaces in  *)
(* a row count as one); the lists of the summary that the words put it in  *)
(* are its marks.  A line of a document is a sequence of words too; "" has *)
(* none.  Of a letter all that counts is whether the PDF can show it.      *)
(***************************************************************************)
EXTENDS Integers, Sequences, SequencesExt

CONSTANTS
  GapMs,        \* DEFAULTS.gapMs
  MaxSpeakers,  \* DEFAULTS.maxSpeakers
  MaxChars,     \* MAX_CHARS of a line of the PDF
  MaxLines      \* maxLinesPerPage

ASSUME TextAssumption ==
  /\ GapMs \in Nat /\ MaxSpeakers \in Nat \ {0}
  /\ MaxChars \in Nat \ {0} /\ MaxLines \in Nat \ {0}

NoSpeaker == 0  \* speakers are numbered; "Speaker A" is 1

\* "a" stands for the letters of printable Latin-1 but "?", "x" for the others.
Latin1 == {"a", "?"}
Letter == Latin1 \cup {"x"}
Word == Seq(Letter) \ {<<>>}

\* A line that the code itself words, by the lengths of its words.
Own(widths) == [w \in DOMAIN widths |-> [l \in 1..widths[w] |-> "a"]]

Segment ==
  [from : Int, to : Int, speaker : Nat, words : Seq(Word),
   marks : SUBSET {"action", "decision", "question", "followUp"}]

-----------------------------------------------------------------------------
(* diarize.ts                                                              *)

HasSpeakers(segs) == \E i \in DOMAIN segs : segs[i].speaker # NoSpeaker

\* (mutant) the gap is taken from the start of the segment before
GapFromStart(segs, i) == segs[i].from - segs[i - 1].from >= GapMs

Turn(segs, i) == segs[i].from - segs[i - 1].to >= GapMs

\* Unlabelled segments count the turns so far; labelled ones stay.
AssignSpeakersByGaps(segs) ==
  LET Unlabelled(i) == segs[i].speaker = NoSpeaker
      Turns(i) == {j \in 2..i : Unlabelled(j) /\ Turn(segs, j)}
  IN [i \in DOMAIN segs |->
        IF Unlabelled(i)
          THEN [segs[i] EXCEPT !.speaker = 1 + (Cardinality(Turns(i)) % MaxSpeakers)]
          ELSE segs[i]]

\* TranscriptionProcessor asks for it when the driver has no labels.
Diarized(segs) == IF HasSpeakers(segs) THEN segs ELSE AssignSpeakersByGaps(segs)

-----------------------------------------------------------------------------
(* summarize.ts                                                            *)

\* The elements at the places of I, in order.
Those(s, I) ==
  LET upTo[i \in 0..Len(s)] ==
        IF i = 0 THEN <<>> ELSE IF i \in I THEN Append(upTo[i - 1], s[i]) ELSE upTo[i - 1]
  IN upTo[Len(s)]

\* The first occurrences of the items, at most n of them.
DedupeTop(items, n) ==
  LET firsts == Those(items, {i \in DOMAIN items : \A j \in 1..(i - 1) : items[j] # items[i]})
  IN SubSeq(firsts, 1, IF Len(firsts) < n THEN Len(firsts) ELSE n)

Marked(segs, m) ==
  LET found == Those(segs, {i \in DOMAIN segs :
                 m \in segs[i].marks /\ (m = "action" => "question" \notin segs[i].marks)})
  IN [i \in DOMAIN found |-> found[i].words]

SummarizeText(segs) ==
  [executive |-> FlattenSeq([i \in 1..(IF Len(segs) < 3 THEN Len(segs) ELSE 3) |-> segs[i].words]),
   lists |-> << DedupeTop(Marked(segs, "action"), 15), DedupeTop(Marked(segs, "decision"), 10),
                DedupeTop(Marked(segs, "question"), 15), DedupeTop(Marked(segs, "followUp"), 10) >>]

-----------------------------------------------------------------------------
(* transcript-format.ts                                                    *)

\* Hours are not wrapped at a day.
MsToTimestamp(ms) ==
  LET c == IF ms < 0 THEN 0 ELSE ms
  IN <<c \div 3600000, (c % 3600000) \div 60000, (c % 60000) \div 1000, c % 1000>>

\* "Speaker A:" and the text.
PrefixedLine(s) == (IF s.speaker = NoSpeaker THEN <<>> ELSE Own(<<7, 2>>)) \o s.words

ToPlainText(segs) == [i \in DOMAIN segs |-> PrefixedLine(segs[i])]

Blank == [kind |-> "blank"]

\* (mutant) one blank line too few
JoinTight(blocks) == FlattenSeq(blocks)

JoinWithBlank(blocks) ==
  FlattenSeq([i \in DOMAIN blocks |->
    IF i < Len(blocks) THEN Append(blocks[i], Blank) ELSE blocks[i]])

\* trim() takes the empty text line of a cue away.
CueLines(s) ==
  << [kind |-> "range", from |-> MsToTimestamp(s.from), to |-> MsToTimestamp(s.to)] >>
  \o IF PrefixedLine(s) = <<>> THEN <<>>
     ELSE << [kind |-> "text", line |-> PrefixedLine(s)] >>

ToVtt(segs) ==
  << [kind |-> "header"], Blank >>
  \o JoinWithBlank([i \in DOMAIN segs |-> CueLines(segs[i])])

ToSrt(segs) ==
  JoinWithBlank([i \in DOMAIN segs |-> << [kind |-> "number", n |-> i] >> \o CueLines(segs[i])])

-----------------------------------------------------------------------------
(* markdown.ts                                                             *)

BulletList(items) ==
  IF items = <<>> THEN <<>>
  ELSE << Own(<<2, 9>>), <<>> >> \o [i \in DOMAIN items |-> Own(<<1>>) \o items[i]]

\* The sections that have something to say, a blank line between them.
BuildMarkdownNotes(title, notes, summaries, segs) ==
  LET top == << Own(<<1>>) \o title, <<>>, Own(<<1, 9, 24>>) >>
      written == IF notes = <<>> THEN <<>> ELSE << Own(<<2, 5>>), <<>> >> \o notes
      ofSummary(s) ==
        <<IF s.executive = <<>> THEN <<>> ELSE << Own(<<2, 9, 7>>), <<>>, s.executive >> >>
        \o [i \in DOMAIN s.lists |-> BulletList(s.lists[i])]
      transcript == IF segs = <<>> THEN <<>> ELSE << Own(<<2, 10>>), <<>> >> \o ToPlainText(segs)
      sections == <<top, written>> \o FlattenSeq([i \in DOMAIN summaries |-> ofSummary(summaries[i])])
                    \o <<transcript>>
  IN FlattenSeq([i \in DOMAIN sections |->
                   IF sections[i] = <<>> THEN <<>> ELSE sections[i] \o << <<>> >>])

-----------------------------------------------------------------------------
(* pdf.ts                                                                  *)

\* A piece of a word: the number of the word in its line, and which letters.
Piece(w, from, to) == [word |-> w, from |-> from, to |-> to]

\* The letters of the pieces, and a space between two of them.
Letters(pieces) == UNION {{i} \X ((pieces[i].from + 1)..pieces[i].to) : i \in DOMAIN pieces}
WidthOf(pieces) ==
  Cardinality(Letters(pieces)) + IF pieces = <<>> THEN 0 ELSE Len(pieces) - 1

\* A word that is too long is broken into pieces of MaxChars.
Broken(w, n) ==
  [k \in 1..((n + MaxChars - 1) \div MaxChars) |->
     << Piece(w, (k - 1) * MaxChars, IF k * MaxChars <= n THEN k * MaxChars ELSE n) >>]

WrapWord(acc, w, n) ==
  LET next == Append(acc.cur, Piece(w, 0, n))
      out == IF acc.cur = <<>> THEN acc.out ELSE Append(acc.out, acc.cur)
  IN IF WidthOf(next) <= MaxChars THEN [out |-> acc.out, cur |-> next]
     ELSE IF n > MaxChars THEN [out |-> out \o Broken(w, n), cur |-> <<>>]
     ELSE [out |-> out, cur |-> <<Piece(w, 0, n)>>]

WrapLine(widths) ==
  LET whole == [w \in DOMAIN widths |-> Piece(w, 0, widths[w])]
      after[w \in 0..Len(widths)] ==
        IF w = 0 THEN [out |-> <<>>, cur |-> <<>>] ELSE WrapWord(after[w - 1], w, widths[w])
      end == after[Len(widths)]
  IN IF WidthOf(whole) <= MaxChars THEN <<whole>>
     ELSE IF end.cur = <<>> THEN end.out ELSE Append(end.out, end.cur)

Lengths(line) == [w \in DOMAIN line |-> Len(line[w])]

\* A letter that Latin-1 lacks becomes a question mark.
Shown(l) == IF l \in Latin1 THEN l ELSE "?"
Sanitize(line) == [w \in DOMAIN line |-> [l \in DOMAIN line[w] |-> Shown(line[w][l])]]

\* The rows of a page that a line takes: pieces of what is left of it.
Rows(line) ==
  LET clean == Sanitize(line)
      strips == WrapLine(Lengths(clean))
  IN [r \in DOMAIN strips |-> [of |-> clean, pieces |-> strips[r]]]

\* The length of the rule below the title.
Rule(title) ==
  LET width == WidthOf([w \in DOMAIN title |-> Piece(w, 0, Len(title[w]))])
  IN IF title = <<>> THEN 1 ELSE IF width \in 1..MaxChars THEN width ELSE MaxChars

\* (mutant) the last line of each page is lost
PagesCut(lines) ==
  [p \in 1..((Len(lines) + MaxLines - 1) \div MaxLines) |->
     SubSeq(lines, (p - 1) * MaxLines + 1,
            (IF p * MaxLines < Len(lines) THEN p * MaxLines ELSE Len(lines)) - 1)]

Pages(lines) ==
  [p \in 1..((Len(lines) + MaxLines - 1) \div MaxLines) |->
     SubSeq(lines, (p - 1) * MaxLines + 1,
            IF p * MaxLines < Len(lines) THEN p * MaxLines ELSE Len(lines))]

\* The objects of the file by number: catalog, page tree, font, and for each
\* page its content and itself.
RenderSummaryPdf(title, bodyLines) ==
  LET header == << title, Own(<<Rule(title)>>), <<>> >>
      pages == Pages(FlattenSeq([i \in DOMAIN (header \o bodyLines) |-> Rows((header \o bodyLines)[i])]))
      P == Len(pages)
  IN [n \in 1..(3 + 2 * P) |->
        IF n = 1 THEN [type |-> "catalog", pages |-> 2]
        ELSE IF n = 2 THEN [type |-> "pages", kids |-> [p \in 1..P |-> 3 + 2 * p], count |-> P]
        ELSE IF n = 3 THEN [type |-> "font"]
        ELSE IF n % 2 = 0 THEN [type |-> "content", lines |-> pages[(n - 2) \div 2]]
        ELSE [type |-> "page", contents |-> n - 1, font |-> 3]]

-----------------------------------------------------------------------------
(* apps/web/src/lib/transcript.ts                                          *)

\* A run of segments of one speaker is one block: a segment is in the block
\* that is numbered by the runs begun until then.
GroupSegmentsBySpeaker(segs) ==
  LET starts == {i \in DOMAIN segs : i = 1 \/ segs[i].speaker # segs[i - 1].speaker}
      Places(b) == {i \in DOMAIN segs : Cardinality({j \in starts : j <= i}) = b}
  IN [b \in 1..Cardinality(starts) |->
        [speaker |-> segs[Min(Places(b))].speaker, from |-> segs[Min(Places(b))].from,
         to |-> Max({segs[i].to : i \in Places(b)}),
         segments |-> SubSeq(segs, Min(Places(b)), Max(Places(b)))]]

=============================================================================
