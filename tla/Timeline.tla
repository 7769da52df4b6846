------------------------------ MODULE Timeline ------------------------------
(***************************************************************************)
(* The clock of a recorder (recorder.ts getOffsetMs, pause, resume) and    *)
(* the places its chunks get on the timeline (chunk-buffer.ts rotate).     *)
(* Time is a natural number; a clock is a record of the fields the code    *)
(* keeps, and of the time it was in the state "recording", which it does   *)
(* not.  An encoder that a rotation respawns during a pause records        *)
(* (channel-recorder.ts:71): that audio is in no clock, and the cut that   *)
(* respawned it makes the clock `blurred`.                                 *)
(***************************************************************************)
EXTENDS Integers, Sequences

Later(a, b) == IF a < b THEN b ELSE a

\* age: performance.now() - startTimestamp, before and during the recording;
\* since, accum: pausedAt - startTimestamp, pausedAccumMs; from: the buffer's
\* chunkStartOffsetMs; active, blurred: history.
NoClock == [age |-> 0, since |-> 0, accum |-> 0, from |-> 0, chunks |-> <<>>,
            active |-> 0, blurred |-> FALSE]

Clock == [age : Nat, since : Nat, accum : Int, from : Nat,
          chunks : Seq([from : Nat, length : Nat]), active : Nat, blurred : BOOLEAN]

Offset(k) == Later(0, k.age - k.accum)

Paused(k) == [k EXCEPT !.since = k.age]

\* Mutant: only the last pause counts.
ResumedLast(k) == [k EXCEPT !.accum = k.age - k.since]

Resumed(k) == [k EXCEPT !.accum = @ + (k.age - k.since)]

Ran(k, recording) == [k EXCEPT !.age = @ + 1, !.active = @ + IF recording THEN 1 ELSE 0]

\* rotate() of a buffer with audio in it, and the next chunk's start.
CutTo(k, next, inPause) ==
  [k EXCEPT !.chunks = Append(@, [from |-> k.from, length |-> Later(0, Offset(k) - k.from)]),
            !.from = next, !.blurred = @ \/ inPause]

\* Mutant: the next chunk starts at the wall clock's time.
CutAtWall(k, inPause) == CutTo(k, k.age, inPause)

Cut(k, inPause) == CutTo(k, Offset(k), inPause)

Ends(k, i) == IF i = 0 THEN 0 ELSE k.chunks[i].from + k.chunks[i].length

\* Every chunk begins where the one before it ended, the first one at zero,
\* and the one that is being recorded where the last one ended.
Tiled(k) ==
  /\ \A i \in DOMAIN k.chunks : k.chunks[i].from = Ends(k, i - 1)
  /\ k.from = Ends(k, Len(k.chunks))
=============================================================================
