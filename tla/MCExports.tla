----------------------------- MODULE MCExports -----------------------------
(***************************************************************************)
(* TLC instance of Exports.  The texts have the edges of the clock, a gap  *)
(* that is a turn and one that is not, labelled and unlabelled speakers,   *)
(* an empty text, words that fill a line and words that do not fit, and    *)
(* letters that the PDF cannot show.                                       *)
(***************************************************************************)
EXTENDS Exports

CONSTANTS tab, mic

Seg(from, to, speaker, widths, marks) ==
  [from |-> from, to |-> to, speaker |-> speaker, words |-> Own(widths), marks |-> marks]

Odd == << "a", "x", "?", "x", "a" >>
OddTitle == << Odd >>
OddNotes == << Own(<<3>>) \o <<Odd, Odd>>, <<>>, << Odd \o Odd >> >>

PreferTab == <<tab>>

Texts ==
  { <<>>,
    << [Seg(0, 999, 0, <<3, 4>>, {"action"}) EXCEPT !.words = @ \o <<Odd>>] >>,
    << Seg(0, 1000, 0, <<>>, {}), Seg(2500, 59999, 0, <<8>>, {"question"}) >>,
    << Seg(0, 60000, 0, <<7, 1>>, {"decision"}), Seg(61499, 3599999, 0, <<25>>, {"action", "question"}),
       Seg(3601499, 3600000, 0, <<2, 2, 2>>, {"action"}) >>,
    << Seg(3600000, 90000000, 2, <<16>>, {"followUp"}), Seg(90000000, 90000001, 0, <<>>, {}),
       Seg(90002000, 90003000, 1, <<3, 4>>, {"followUp"}), Seg(90003000, 90004000, 1, <<3, 4>>, {"followUp"}) >> }

=============================================================================
