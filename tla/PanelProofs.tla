----------------------------- MODULE PanelProofs -----------------------------
(***************************************************************************)
(* The record page, for any number of recordings and any length of time:   *)
(* its types, the recorder's clock and the places of its chunks, that the  *)
(* panel's buttons control whatever records, and that what is completed    *)
(* has stopped, unless one of the slips has happened.                      *)
(***************************************************************************)
EXTENDS Panel, TLAPS

Stages == {"none", "prompt", "create", "starting", "recording", "paused",
           "stopping", "stopped", "failed", "broken"}
Stops == {"none", "engine", "complete", "done", "failed"}
RecRec == [at : Stages, mine : BOOLEAN, heard : BOOLEAN, stop : Stops, id : Id \cup {Nobody}]
Shown == {"idle", "starting", "recording", "paused", "stopping", "stopped", "error"}

\* The hook's recorder has been started.  Its clock counts what was recorded,
\* and stands during a pause where the pause began.
ClockInv ==
  ref # Nobody =>
    /\ rec[ref].at # "none"
    /\ rec[ref].at = "paused" => clock.since - clock.accum = clock.active
    /\ rec[ref].at \in {"none", "prompt", "create", "starting", "recording"} =>
         clock.age - clock.accum = clock.active

\* Whatever is active belongs to the panel on the page, unless one was left.
MineInv ==
  /\ \A r \in Id : rec[r].at = "none" => rec[r].mine /\ rec[r].heard /\ rec[r].stop = "none"
  /\ "left" \notin slips => \A r \in Id : Active(r) => rec[r].mine
  /\ ref # Nobody => rec[ref].mine

\* As long as no starts overlap and no completion is late, the panel has one
\* active recording at most, and from the moment its recorder exists until
\* that has stopped it is the one the hook holds; what stop() completes is
\* that recording, once it has stopped.
Calm == slips \cap {"overlap", "late"} = {}

OwnInv ==
  /\ \A r \in Id : Active(r) /\ rec[r].mine => tab /\ rec[r].heard /\ rec[r].stop = "none"
  /\ \A q, r \in Id : Active(q) /\ rec[q].mine /\ Active(r) /\ rec[r].mine => q = r
  /\ \A r \in Id : Asking(r) /\ rec[r].mine => ref = Nobody
  /\ \A r \in Id : rec[r].at = "starting" /\ rec[r].mine => ref = r /\ status = "starting"
  /\ \A r \in Id : Live(r) /\ rec[r].mine => ref = r /\ status = rec[r].at /\ shown = r
  /\ \A r \in Id : rec[r].at = "stopping" /\ rec[r].mine => ref = r /\ status = "stopping"
  /\ \A r \in Id : rec[r].stop = "engine" => rec[r].at = "stopping" /\ rec[r].id = r
  /\ \A r \in Id : rec[r].stop = "complete" => rec[r].at = "stopped"
  /\ \A r \in completed : rec[r].at = "stopped"
  /\ status \in {"recording", "paused"} /\ ref # Nobody => Live(ref)

ControlInv == Calm => OwnInv

\* Unless a chunk was cut during a pause, the chunks tile the time before the
\* running one, which began in the recorded time.
Tiles(k) == ~k.blurred => Tiled(k) /\ k.from <= k.active

TileInv == Tiles(clock)

AllInv == PanelTypeOK /\ ClockInv /\ MineInv /\ ControlInv /\ TileInv

-----------------------------------------------------------------------------
(* Clocks and records.                                                     *)

LEMMA Types ==
  PanelTypeOK <=> /\ tab \in BOOLEAN /\ ref \in Id \cup {Nobody} /\ shown \in Id \cup {Nobody}
                  /\ status \in Shown /\ rec \in [Id -> RecRec] /\ completed \subseteq Id
                  /\ clock \in Clock /\ slips \subseteq Slip
BY DEF PanelTypeOK, Shown, RecRec, Stages, Stops

LEMMA TypesNext ==
  PanelTypeOK' <=> /\ tab' \in BOOLEAN /\ ref' \in Id \cup {Nobody} /\ shown' \in Id \cup {Nobody}
                   /\ status' \in Shown /\ rec' \in [Id -> RecRec] /\ completed' \subseteq Id
                   /\ clock' \in Clock /\ slips' \subseteq Slip
BY DEF PanelTypeOK, Shown, RecRec, Stages, Stops

LEMMA NoIdIsNobody == Nobody \notin Id
BY PanelAssumption DEF Id, Nobody

LEMMA NewClock ==
  /\ NoClock \in Clock /\ NoClock.age - NoClock.accum = NoClock.active
  /\ Tiles(NoClock)
<1>1. <<>> \in Seq([from : Nat, length : Nat])
  OBVIOUS
<1> QED BY <1>1 DEF NoClock, Clock, Tiles, Tiled, Ends

LEMMA LaterNat == \A a \in Int : Later(0, a) \in Nat /\ (a \in Nat => Later(0, a) = a)
BY DEF Later

LEMMA ClockPauses ==
  ASSUME NEW k \in Clock
  PROVE  /\ Paused(k) \in Clock /\ Paused(k).since = k.age /\ Paused(k).accum = k.accum
         /\ Paused(k).active = k.active /\ (Tiles(k) => Tiles(Paused(k)))
BY DEF Clock, Paused, Tiles, Tiled, Ends

LEMMA ClockResumes ==
  ASSUME NEW k \in Clock
  PROVE  /\ Resumed(k) \in Clock /\ Resumed(k).age = k.age
         /\ Resumed(k).accum = k.accum + (k.age - k.since) /\ Resumed(k).active = k.active
         /\ Tiles(k) => Tiles(Resumed(k))
<1> DEFINE a == k.accum + (k.age - k.since)
<1>1. a \in Int
  BY DEF Clock
<1>2. Resumed(k) = [k EXCEPT !.accum = a]
  BY DEF Resumed
<1> QED BY <1>1, <1>2 DEF Clock, Tiles, Tiled, Ends

LEMMA ClockRuns ==
  ASSUME NEW k \in Clock, NEW recording \in BOOLEAN
  PROVE  /\ Ran(k, recording) \in Clock /\ Ran(k, recording).age = k.age + 1
         /\ Ran(k, recording).since = k.since /\ Ran(k, recording).accum = k.accum
         /\ Ran(k, recording).active = IF recording THEN k.active + 1 ELSE k.active
         /\ Tiles(k) => Tiles(Ran(k, recording))
<1> DEFINE a == k.age + 1  b == IF recording THEN k.active + 1 ELSE k.active
<1>1. a \in Nat /\ b \in Nat /\ k.active + (IF recording THEN 1 ELSE 0) = b
  BY DEF Clock
<1>2. Ran(k, recording) = [k EXCEPT !.age = a, !.active = b]
  BY <1>1 DEF Ran
<1> HIDE DEF a, b
<1>3. [k EXCEPT !.age = a] \in Clock
  BY <1>1 DEF Clock
<1>4. [k EXCEPT !.age = a, !.active = b] \in Clock
  BY <1>1, <1>3 DEF Clock
<1>5. /\ Ran(k, recording).chunks = k.chunks /\ Ran(k, recording).from = k.from
      /\ Ran(k, recording).blurred = k.blurred /\ Ran(k, recording).active = b
  BY <1>2 DEF Clock
<1>6. k.active <= b /\ k.from \in Nat /\ k.active \in Nat
  BY <1>1 DEF Clock, b
<1>7. Tiles(k) => Tiles(Ran(k, recording))
  BY <1>1, <1>5, <1>6 DEF Tiles, Tiled, Ends
<1> QED BY <1>2, <1>4, <1>7 DEF Clock, a, b

LEMMA ClockCuts ==
  ASSUME NEW k \in Clock, NEW inPause \in BOOLEAN
  PROVE  /\ Cut(k, inPause) \in Clock /\ Cut(k, inPause).age = k.age
         /\ Cut(k, inPause).since = k.since /\ Cut(k, inPause).accum = k.accum
         /\ Cut(k, inPause).active = k.active
         /\ Tiles(k) /\ (inPause \/ Offset(k) = k.active) => Tiles(Cut(k, inPause))
<1> DEFINE f == Offset(k)
           n == Later(0, Offset(k) - k.from)
           c == [from |-> k.from, length |-> n]
           s == Append(k.chunks, c)
           b == k.blurred \/ inPause
<1>0. Offset(k) = f
  OBVIOUS
<1>1. f \in Nat
  BY LaterNat DEF Clock, Offset
<1>2. n \in Nat
  BY <1>1, LaterNat DEF Clock
<1>3. c \in [from : Nat, length : Nat]
  BY <1>2 DEF Clock
<1>4. s \in Seq([from : Nat, length : Nat]) /\ b \in BOOLEAN
  BY <1>3 DEF Clock
<1>5. Cut(k, inPause) = [k EXCEPT !.chunks = s, !.from = f, !.blurred = b]
  BY DEF Cut, CutTo
<1> HIDE DEF f, s, b
<1>6. /\ Cut(k, inPause).chunks = s /\ Cut(k, inPause).from = f
      /\ Cut(k, inPause).blurred = b /\ Cut(k, inPause).active = k.active
  BY <1>1, <1>4, <1>5 DEF Clock
<1>7. ASSUME Tiles(k), inPause \/ f = k.active PROVE Tiles(Cut(k, inPause))
  <2> SUFFICES ASSUME ~b PROVE Tiled(Cut(k, inPause)) /\ f <= k.active
    BY <1>6 DEF Tiles
  <2>1. Tiled(k) /\ k.from <= f /\ f = k.active
    BY <1>7 DEF Tiles, b
  <2>2. /\ k.chunks \in Seq([from : Nat, length : Nat]) /\ Len(k.chunks) \in Nat
        /\ k.from \in Nat /\ DOMAIN k.chunks = 1 .. Len(k.chunks)
    BY DEF Clock
  <2>3. /\ Len(s) = Len(k.chunks) + 1 /\ s[Len(s)] = c /\ DOMAIN s = 1 .. Len(k.chunks) + 1
        /\ \A i \in 1 .. Len(k.chunks) : s[i] = k.chunks[i]
    BY <2>2 DEF s
  <2>4. c.from = k.from /\ c.from + c.length = f
    BY <1>0, <1>1, <2>1, <2>2 DEF Later
  <2>5. \A i \in DOMAIN s : s[i].from = Ends(Cut(k, inPause), i - 1)
    <3> HIDE DEF c
    <3>1. \A i \in 0 .. Len(k.chunks) : Ends(Cut(k, inPause), i) = Ends(k, i)
      <4> SUFFICES ASSUME NEW i \in 0 .. Len(k.chunks), i # 0 PROVE s[i] = k.chunks[i]
        BY <1>6 DEF Ends
      <4> QED BY <2>2, <2>3
    <3>2. \A i \in 1 .. Len(k.chunks) : s[i].from = Ends(k, i - 1)
      BY <2>1, <2>2, <2>3 DEF Tiled
    <3>3. s[Len(k.chunks) + 1].from = Ends(k, Len(k.chunks))
      BY <2>1, <2>2, <2>3, <2>4 DEF Tiled
    <3> SUFFICES ASSUME NEW i \in 1 .. Len(k.chunks) + 1
                 PROVE  s[i].from = Ends(Cut(k, inPause), i - 1)
      BY <2>3
    <3>4. i - 1 \in 0 .. Len(k.chunks) /\ (i \in 1 .. Len(k.chunks) \/ i = Len(k.chunks) + 1)
      BY <2>2
    <3> QED BY <2>2, <3>1, <3>2, <3>3, <3>4
  <2>6. f = Ends(Cut(k, inPause), Len(s))
    <3> HIDE DEF c
    <3> QED BY <1>6, <2>2, <2>3, <2>4 DEF Ends
  <2> QED BY <1>1, <1>6, <2>1, <2>5, <2>6 DEF Tiled
<1> QED BY <1>0, <1>1, <1>4, <1>5, <1>7 DEF Clock

\* A recording moves on; the rest of its record, and the others, stay.
LEMMA Moves ==
  ASSUME rec \in [Id -> RecRec], NEW r \in Id, NEW s \in Stages,
         rec' = [rec EXCEPT ![r].at = s]
  PROVE  /\ rec' \in [Id -> RecRec] /\ rec'[r].at = s
         /\ \A q \in Id : /\ q # r => rec'[q] = rec[q]
                          /\ rec'[q].mine = rec[q].mine /\ rec'[q].heard = rec[q].heard
                          /\ rec'[q].stop = rec[q].stop /\ rec'[q].id = rec[q].id
<1>1. rec[r] \in RecRec /\ rec'[r] = [rec[r] EXCEPT !.at = s]
  OBVIOUS
<1>2. [rec[r] EXCEPT !.at = s] \in RecRec
  BY <1>1 DEF RecRec
<1> QED BY <1>1, <1>2 DEF RecRec

LEMMA MovesStop ==
  ASSUME rec \in [Id -> RecRec], NEW r \in Id, NEW s \in Stages, NEW p \in Stops,
         NEW i \in Id \cup {Nobody},
         rec' = [rec EXCEPT ![r].at = s, ![r].stop = p, ![r].id = i]
  PROVE  /\ rec' \in [Id -> RecRec] /\ rec'[r].at = s /\ rec'[r].stop = p
         /\ \A q \in Id : /\ q # r => rec'[q] = rec[q]
                          /\ rec'[q].mine = rec[q].mine /\ rec'[q].heard = rec[q].heard
<1>1. rec[r] \in RecRec /\ rec'[r] = [rec[r] EXCEPT !.at = s, !.stop = p, !.id = i]
  OBVIOUS
<1>2. [rec[r] EXCEPT !.at = s, !.stop = p, !.id = i] \in RecRec
  BY <1>1 DEF RecRec
<1> QED BY <1>1, <1>2 DEF RecRec

LEMMA MovesId ==
  ASSUME rec \in [Id -> RecRec], NEW r \in Id, NEW s, NEW p, NEW i,
         rec' = [rec EXCEPT ![r].at = s, ![r].stop = p, ![r].id = i]
  PROVE  rec'[r].id = i
BY DEF RecRec

\* A step of the clock's owner, or none at all.
LEMMA HeldTypes ==
  ASSUME PanelTypeOK, NEW r \in Id \cup {Nobody}, Holds(r)
  PROVE  ref' \in Id \cup {Nobody} /\ clock' \in Clock
BY Types, NewClock DEF Holds

\* While the hook's recorder records, its offset is the time it has recorded.
LEMMA OffsetRecorded ==
  ASSUME PanelTypeOK, ClockInv, ref # Nobody, rec[ref].at = "recording"
  PROVE  Offset(clock) = clock.active
<1>1. clock \in Clock /\ clock.age - clock.accum = clock.active
  BY Types DEF ClockInv
<1>2. clock.active \in Nat /\ clock.active \in Int
  BY <1>1 DEF Clock
<1> QED BY <1>1, <1>2, LaterNat DEF Offset

\* The chunk a live recorder cuts keeps the tiles.
LEMMA CutTiles ==
  ASSUME AllInv, ref # Nobody, Live(ref), clock' = Cut(clock, rec[ref].at = "paused")
  PROVE  TileInv'
<1>1. clock \in Clock /\ (rec[ref].at = "paused" \/ Offset(clock) = clock.active)
  BY OffsetRecorded, Types DEF AllInv, Live
<1> QED BY <1>1, ClockCuts DEF AllInv, TileInv

-----------------------------------------------------------------------------
(* Each step keeps the invariant: types, then the clock, then control.     *)

LEMMA InitAll == Init => AllInv
<1> SUFFICES ASSUME Init PROVE AllInv
  OBVIOUS
<1>1. PanelTypeOK
  BY NewClock DEF Init, PanelTypeOK, Slip
<1>2. ClockInv /\ MineInv /\ OwnInv /\ TileInv
  BY NoIdIsNobody, NewClock DEF Init, ClockInv, MineInv, OwnInv, TileInv, Active, Asking, Live
<1> QED BY <1>1, <1>2 DEF AllInv, ControlInv

LEMMA StepClickStart ==
  ASSUME AllInv, NEW r \in Id, ClickStart(r)
  PROVE  AllInv'
<1>1. rec \in [Id -> RecRec] /\ rec' = [rec EXCEPT ![r].at = "prompt"] /\ UNCHANGED <<tab, ref, status, shown, completed, clock>>
  BY Types DEF AllInv, ClickStart, hookVars
<1>2. /\ rec' \in [Id -> RecRec] /\ rec'[r].at = "prompt"
      /\ \A q \in Id : /\ q # r => rec'[q] = rec[q]
                       /\ rec'[q].mine = rec[q].mine /\ rec'[q].heard = rec[q].heard
                       /\ rec'[q].stop = rec[q].stop
  BY <1>1, Moves DEF Stages
<1>3. PanelTypeOK'
  BY <1>1, <1>2, Types, TypesNext DEF AllInv, ClickStart, Slips, Slip
<1>4. ClockInv'
  BY <1>1 DEF ClockInv, ClickStart
<1>5. ControlInv'
  BY <1>1, <1>2, NoIdIsNobody DEF AllInv, MineInv, ControlInv, OwnInv, Calm, ClickStart, Slips, Active, Asking, Live
<1>6. MineInv'
  BY <1>1, <1>2, NoIdIsNobody DEF AllInv, MineInv, ClickStart, Holds, Slips, Active, Asking, Live
<1>7. TileInv'
  BY <1>1 DEF AllInv, TileInv
<1> QED BY <1>3, <1>4, <1>5, <1>6, <1>7 DEF AllInv

LEMMA StepPrompted ==
  ASSUME AllInv, NEW r \in Id, Prompted(r)
  PROVE  AllInv'
<1>1. rec \in [Id -> RecRec] /\ rec[r].at = "prompt" /\ rec' = [rec EXCEPT ![r].at = "create"] /\ UNCHANGED <<tab, ref, status, shown, completed, clock, slips>>
  BY Types DEF AllInv, Prompted, hookVars
<1>2. /\ rec' \in [Id -> RecRec] /\ rec'[r].at = "create"
      /\ \A q \in Id : /\ q # r => rec'[q] = rec[q]
                       /\ rec'[q].mine = rec[q].mine /\ rec'[q].heard = rec[q].heard
                       /\ rec'[q].stop = rec[q].stop
  BY <1>1, Moves DEF Stages
<1>3. PanelTypeOK'
  BY <1>1, <1>2, Types, TypesNext DEF AllInv
<1>4. ClockInv'
  BY <1>1, <1>2, Types DEF AllInv, ClockInv
<1>5. ControlInv'
  BY <1>1, <1>2, NoIdIsNobody DEF AllInv, MineInv, ControlInv, OwnInv, Calm, Active, Asking, Live
<1>6. MineInv'
  BY <1>1, <1>2, NoIdIsNobody DEF AllInv, MineInv, Prompted, Holds, Slips, Active, Asking, Live
<1>7. TileInv'
  BY <1>1 DEF AllInv, TileInv
<1> QED BY <1>3, <1>4, <1>5, <1>6, <1>7 DEF AllInv

LEMMA StepDenied ==
  ASSUME AllInv, NEW r \in Id, Denied(r)
  PROVE  AllInv'
<1>1. rec \in [Id -> RecRec] /\ rec[r].at = "prompt" /\ rec' = [rec EXCEPT ![r].at = "failed"] /\ UNCHANGED <<tab, shown, completed, slips>>
  BY Types DEF AllInv, Denied
<1>2. /\ rec' \in [Id -> RecRec] /\ rec'[r].at = "failed"
      /\ \A q \in Id : /\ q # r => rec'[q] = rec[q]
                       /\ rec'[q].mine = rec[q].mine /\ rec'[q].heard = rec[q].heard
                       /\ rec'[q].stop = rec[q].stop
  BY <1>1, Moves DEF Stages
<1>3. PanelTypeOK'
  BY <1>1, <1>2, Types, TypesNext, NewClock DEF AllInv, Denied, Catches, Holds, Shown
<1>4. ClockInv'
  BY <1>1, <1>2, Types, NewClock DEF AllInv, ClockInv, Denied, Catches, Holds
<1>5. ControlInv'
  BY <1>1, <1>2, NoIdIsNobody DEF AllInv, MineInv, ControlInv, OwnInv, Calm, Denied, Catches, Holds, Active, Asking, Live
<1>6. MineInv'
  BY <1>1, <1>2, NoIdIsNobody DEF AllInv, MineInv, Denied, Catches, Holds, Slips, Active, Asking, Live
<1>7. TileInv'
  BY NewClock DEF AllInv, TileInv, Denied, Catches, Holds
<1> QED BY <1>3, <1>4, <1>5, <1>6, <1>7 DEF AllInv

LEMMA StepCreated ==
  ASSUME AllInv, NEW r \in Id, Created(r)
  PROVE  AllInv'
<1>1. rec \in [Id -> RecRec] /\ rec[r].at = "create" /\ rec' = [rec EXCEPT ![r].at = "starting"] /\ UNCHANGED <<tab, shown, completed, slips>>
  BY Types DEF AllInv, Created, Reports
<1>2. /\ rec' \in [Id -> RecRec] /\ rec'[r].at = "starting"
      /\ \A q \in Id : /\ q # r => rec'[q] = rec[q]
                       /\ rec'[q].mine = rec[q].mine /\ rec'[q].heard = rec[q].heard
                       /\ rec'[q].stop = rec[q].stop
  BY <1>1, Moves DEF Stages
<1>3. PanelTypeOK'
  BY <1>1, <1>2, Types, TypesNext, NewClock DEF AllInv, Created, Reports, Holds, Shown
<1>4. ClockInv'
  BY <1>1, <1>2, Types, NewClock DEF AllInv, ClockInv, Created, Reports, Holds
<1>5. ControlInv'
  BY <1>1, <1>2, NoIdIsNobody DEF AllInv, MineInv, ControlInv, OwnInv, Calm, Created, Reports, Heard, Holds, Active, Asking, Live
<1>6. MineInv'
  BY <1>1, <1>2, NoIdIsNobody DEF AllInv, MineInv, Created, Holds, Slips, Active, Asking, Live
<1>7. TileInv'
  BY NewClock DEF AllInv, TileInv, Created, Holds
<1> QED BY <1>3, <1>4, <1>5, <1>6, <1>7 DEF AllInv

LEMMA StepStarts ==
  ASSUME AllInv, NEW r \in Id, Starts(r)
  PROVE  AllInv'
<1>1. rec \in [Id -> RecRec] /\ rec[r].at = "starting" /\ rec' = [rec EXCEPT ![r].at = "recording"] /\ UNCHANGED <<tab, ref, completed, clock, slips>>
  BY Types DEF AllInv, Starts
<1>2. /\ rec' \in [Id -> RecRec] /\ rec'[r].at = "recording"
      /\ \A q \in Id : /\ q # r => rec'[q] = rec[q]
                       /\ rec'[q].mine = rec[q].mine /\ rec'[q].heard = rec[q].heard
                       /\ rec'[q].stop = rec[q].stop
  BY <1>1, Moves DEF Stages
<1>3. PanelTypeOK'
  BY <1>1, <1>2, Types, TypesNext DEF AllInv, Starts, Shown
<1>4. ClockInv'
  BY <1>1, <1>2, Types DEF AllInv, ClockInv
<1>5. ControlInv'
  BY <1>1, <1>2, NoIdIsNobody DEF AllInv, MineInv, ControlInv, OwnInv, Calm, Starts, Active, Asking, Live
<1>6. MineInv'
  BY <1>1, <1>2, NoIdIsNobody DEF AllInv, MineInv, Starts, Holds, Slips, Active, Asking, Live
<1>7. TileInv'
  BY <1>1 DEF AllInv, TileInv
<1> QED BY <1>3, <1>4, <1>5, <1>6, <1>7 DEF AllInv

\* A failed start is forgotten; one that leaves channels running is a slip.
LEMMA StepStartFails ==
  ASSUME AllInv, NEW r \in Id, StartFails(r)
  PROVE  AllInv'
<1> DEFINE s == rec'[r].at
<1>1. /\ rec \in [Id -> RecRec] /\ rec[r].at = "starting" /\ UNCHANGED <<tab, shown, completed>>
      /\ \/ rec' = [rec EXCEPT ![r].at = "failed"] /\ UNCHANGED slips
         \/ rec' = [rec EXCEPT ![r].at = "broken"] /\ slips' = slips \cup {"broken"}
  BY Types DEF AllInv, StartFails, Slips
<1>2. /\ rec' \in [Id -> RecRec] /\ s \in {"failed", "broken"} /\ slips \subseteq slips'
      /\ \A q \in Id : /\ q # r => rec'[q] = rec[q]
                       /\ rec'[q].mine = rec[q].mine /\ rec'[q].heard = rec[q].heard
                       /\ rec'[q].stop = rec[q].stop
  <2>1. CASE rec' = [rec EXCEPT ![r].at = "failed"] /\ UNCHANGED slips
    <3>1. "failed" \in Stages /\ rec' = [rec EXCEPT ![r].at = "failed"]
      BY <2>1 DEF Stages
    <3> QED BY <1>1, <2>1, <3>1, Moves, ZenonT(40)
  <2>2. CASE rec' = [rec EXCEPT ![r].at = "broken"] /\ slips' = slips \cup {"broken"}
    <3>1. "broken" \in Stages /\ rec' = [rec EXCEPT ![r].at = "broken"]
      BY <2>2 DEF Stages
    <3> QED BY <1>1, <2>2, <3>1, Moves
  <2> QED BY <1>1, <2>1, <2>2
<1>3. PanelTypeOK'
  <2>1. ref' \in Id \cup {Nobody} /\ clock' \in Clock /\ status' \in Shown
    BY Types, NewClock DEF AllInv, StartFails, Catches, Holds, Shown
  <2>2. slips' \subseteq Slip
    BY <1>1, Types DEF AllInv, Slip
  <2> QED BY <1>1, <1>2, <2>1, <2>2, Types, TypesNext DEF AllInv
<1>4. ClockInv'
  BY <1>1, <1>2, Types, NewClock DEF AllInv, ClockInv, StartFails, Catches, Holds
<1>5. ControlInv'
  <2> SUFFICES ASSUME Calm' PROVE OwnInv'
    BY DEF ControlInv
  <2>1. OwnInv
    BY <1>2 DEF AllInv, ControlInv, Calm
  <2>2. CASE rec[r].mine
    <3>1. ref' = Nobody /\ status' = "error" /\ ref = r
      BY <1>1, <2>1, <2>2 DEF StartFails, Catches, Holds, OwnInv
    <3>2. \A q \in Id : ~(rec[q].mine /\ Active(q) /\ q # r)
      BY <1>1, <2>1, <2>2 DEF OwnInv, Active
    <3>3. \A q \in Id : ~(rec'[q].mine /\ Active(q)')
      BY <1>2, <3>2 DEF Active, Asking, Live
    <3>4. \A q \in Id : ~(rec'[q].at = "stopping" /\ rec'[q].mine)
      BY <1>2, <2>1, <3>1 DEF OwnInv
    <3>5. rec[r].stop = "none" /\ r \notin completed
      BY <1>1, <2>1, <2>2 DEF OwnInv, Active
    <3>6. \A q \in Id : /\ rec'[q].stop = "engine" => rec'[q].at = "stopping" /\ rec'[q].id = q
                        /\ rec'[q].stop = "complete" => rec'[q].at = "stopped"
      BY <1>2, <2>1, <3>5 DEF OwnInv
    <3>7. \A q \in completed' : rec'[q].at = "stopped"
      BY <1>1, <1>2, <2>1, <3>5, Types DEF AllInv, OwnInv
    <3>8. \A q \in Id : rec'[q].mine => ~Asking(q)' /\ rec'[q].at # "starting" /\ ~Live(q)'
      BY <3>3 DEF Active
    <3> QED BY <3>1, <3>3, <3>4, <3>6, <3>7, <3>8 DEF OwnInv
  <2>3. CASE ~rec[r].mine
    <3>1. ref' = ref /\ status' = status
      BY <2>3 DEF StartFails, Catches
    <3>2. ref # Nobody => ref # r
      BY <2>3 DEF AllInv, MineInv
    <3> QED BY <1>1, <1>2, <2>1, <2>3, <3>1, <3>2, Types DEF AllInv, OwnInv, Active, Asking, Live
  <2> QED BY <2>2, <2>3
<1>6. MineInv'
  <2>1. "left" \notin slips' => "left" \notin slips
    BY <1>2
  <2>2. \A q \in Id : Active(q)' => Active(q)
    BY <1>2 DEF Active, Asking, Live
  <2>3. ref' \in {ref, Nobody}
    BY DEF StartFails, Catches, Holds
  <2> QED BY <1>2, <2>1, <2>2, <2>3, Types DEF AllInv, MineInv
<1>7. TileInv'
  BY NewClock DEF AllInv, TileInv, StartFails, Catches, Holds
<1> QED BY <1>3, <1>4, <1>5, <1>6, <1>7 DEF AllInv

LEMMA StepClickPause ==
  ASSUME AllInv, ClickPause
  PROVE  AllInv'
<1>1. /\ rec \in [Id -> RecRec] /\ ref \in Id /\ rec[ref].at = "recording"
      /\ rec' = [rec EXCEPT ![ref].at = "paused"]
      /\ clock \in Clock /\ clock' = Paused(clock) /\ UNCHANGED <<tab, ref, shown, completed, slips>>
  BY Types DEF AllInv, ClickPause, Reports
<1>2. /\ rec' \in [Id -> RecRec] /\ rec'[ref].at = "paused"
      /\ \A q \in Id : /\ q # ref => rec'[q] = rec[q]
                       /\ rec'[q].mine = rec[q].mine /\ rec'[q].heard = rec[q].heard
                       /\ rec'[q].stop = rec[q].stop
  BY <1>1, Moves DEF Stages
<1>3. PanelTypeOK'
  BY <1>1, <1>2, Types, TypesNext, ClockPauses DEF AllInv, ClickPause, Reports, Shown
<1>4. ClockInv'
  BY <1>1, <1>2, ClockPauses DEF AllInv, ClockInv, Clock
<1>5. ControlInv'
  BY <1>1, <1>2, NoIdIsNobody DEF AllInv, MineInv, ControlInv, OwnInv, Calm, ClickPause, Reports, Heard, Active, Asking, Live
<1>6. MineInv'
  BY <1>1, <1>2, NoIdIsNobody DEF AllInv, MineInv, ClickPause, Holds, Slips, Active, Asking, Live
<1>7. TileInv'
  BY <1>1, ClockPauses DEF AllInv, TileInv
<1> QED BY <1>3, <1>4, <1>5, <1>6, <1>7 DEF AllInv

LEMMA StepClickResume ==
  ASSUME AllInv, ClickResume
  PROVE  AllInv'
<1>1. /\ rec \in [Id -> RecRec] /\ ref \in Id /\ rec[ref].at = "paused"
      /\ rec' = [rec EXCEPT ![ref].at = "recording"]
      /\ clock \in Clock /\ clock' = Resumed(clock) /\ UNCHANGED <<tab, ref, shown, completed, slips>>
  BY Types DEF AllInv, ClickResume, Reports
<1>2. /\ rec' \in [Id -> RecRec] /\ rec'[ref].at = "recording"
      /\ \A q \in Id : /\ q # ref => rec'[q] = rec[q]
                       /\ rec'[q].mine = rec[q].mine /\ rec'[q].heard = rec[q].heard
                       /\ rec'[q].stop = rec[q].stop
  BY <1>1, Moves DEF Stages
<1>3. PanelTypeOK'
  BY <1>1, <1>2, Types, TypesNext, ClockResumes DEF AllInv, ClickResume, Reports, Shown
<1>4. ClockInv'
  <2>1. /\ clock.since - clock.accum = clock.active
        /\ clock.since \in Int /\ clock.accum \in Int /\ clock.age \in Int
    BY <1>1, NoIdIsNobody DEF AllInv, ClockInv, Clock
  <2>2. clock'.age = clock.age /\ clock'.active = clock.active
        /\ clock'.accum = clock.accum + (clock.age - clock.since)
    BY <1>1, ClockResumes
  <2>3. clock'.age - clock'.accum = clock'.active
    BY <2>1, <2>2
  <2> QED BY <1>1, <1>2, <2>3 DEF ClockInv
<1>5. ControlInv'
  BY <1>1, <1>2, NoIdIsNobody DEF AllInv, MineInv, ControlInv, OwnInv, Calm, ClickResume, Reports, Heard, Active, Asking, Live
<1>6. MineInv'
  BY <1>1, <1>2, NoIdIsNobody DEF AllInv, MineInv, ClickResume, Holds, Slips, Active, Asking, Live
<1>7. TileInv'
  BY <1>1, ClockResumes DEF AllInv, TileInv
<1> QED BY <1>3, <1>4, <1>5, <1>6, <1>7 DEF AllInv

\* stop() of the hook, with a recorder that is live and with one that is not.
LEMMA StepClickStop ==
  ASSUME AllInv, ClickStop
  PROVE  AllInv'
<1>1. /\ rec \in [Id -> RecRec] /\ ref \in Id /\ shown \in Id \cup {Nobody} /\ clock \in Clock
      /\ status \in {"recording", "paused"} /\ rec[ref].stop = "none" /\ UNCHANGED <<tab, ref, shown, slips>>
  BY Types DEF AllInv, ClickStop
<1>2. CASE Live(ref)
  <2>1. /\ rec' = [rec EXCEPT ![ref].at = "stopping", ![ref].stop = "engine", ![ref].id = shown]
        /\ status' = "stopping" /\ UNCHANGED completed /\ clock' = Cut(clock, rec[ref].at = "paused")
    BY <1>2 DEF ClickStop
  <2>2. /\ rec' \in [Id -> RecRec] /\ rec'[ref].at = "stopping" /\ rec'[ref].stop = "engine"
        /\ \A q \in Id : /\ q # ref => rec'[q] = rec[q]
                         /\ rec'[q].mine = rec[q].mine /\ rec'[q].heard = rec[q].heard
    <3>1. "stopping" \in Stages /\ "engine" \in Stops
      BY DEF Stages, Stops
    <3> QED BY <1>1, <2>1, <3>1, MovesStop
  <2>3. PanelTypeOK'
    BY <1>1, <2>1, <2>2, Types, TypesNext, ClockCuts DEF AllInv, Shown
  <2>4. ClockInv'
    BY <1>1, <2>2 DEF ClockInv
  <2>5. rec'[ref].id = shown
    BY <1>1, <2>1, MovesId
  <2>6. ControlInv'
    <3> SUFFICES ASSUME Calm' PROVE OwnInv'
      BY DEF ControlInv
    <3>1. OwnInv /\ rec[ref].mine
      BY <1>1, NoIdIsNobody DEF AllInv, MineInv, ControlInv, Calm
    <3>2. shown = ref
      BY <1>1, <1>2, <3>1 DEF OwnInv
    <3>3. \A q \in Id : Active(q) /\ rec[q].mine => q = ref
      BY <1>1, <1>2, <3>1 DEF OwnInv, Active
    <3>4. \A q \in Id : ~(Active(q)' /\ rec'[q].mine)
      BY <2>2, <3>3 DEF Active, Asking, Live
    <3>5. \A q \in Id : rec'[q].at = "stopping" /\ rec'[q].mine => q = ref
      BY <2>2, <3>1 DEF OwnInv
    <3>6. \A q \in Id : /\ rec'[q].stop = "engine" => rec'[q].at = "stopping" /\ rec'[q].id = q
                        /\ rec'[q].stop = "complete" => rec'[q].at = "stopped"
      BY <2>2, <2>5, <3>1, <3>2 DEF OwnInv
    <3>7. \A q \in completed' : rec'[q].at = "stopped"
      BY <1>1, <1>2, <2>1, <2>2, <3>1, Types DEF AllInv, OwnInv, Live
    <3>8. \A q \in Id : rec'[q].mine => ~Asking(q)' /\ rec'[q].at # "starting" /\ ~Live(q)'
      BY <3>4 DEF Active
    <3> QED BY <1>1, <2>1, <3>4, <3>5, <3>6, <3>7, <3>8 DEF OwnInv
  <2>7. MineInv'
    BY <1>1, <2>2 DEF AllInv, MineInv, Active, Asking, Live
  <2>8. TileInv'
    BY <1>1, <1>2, <2>1, CutTiles, NoIdIsNobody
  <2> QED BY <2>3, <2>4, <2>6, <2>7, <2>8 DEF AllInv
<1>3. CASE ~Live(ref)
  <2>1. /\ rec' = [rec EXCEPT ![ref].stop = "complete", ![ref].id = shown]
        /\ completed' = completed \cup ({shown} \ {Nobody}) /\ UNCHANGED <<status, clock>>
    BY <1>3 DEF ClickStop
  <2>2. rec' = [rec EXCEPT ![ref].at = rec[ref].at, ![ref].stop = "complete", ![ref].id = shown]
    BY <1>1, <2>1 DEF RecRec
  <2>3. /\ rec' \in [Id -> RecRec] /\ rec'[ref].at = rec[ref].at
        /\ \A q \in Id : q # ref => rec'[q] = rec[q]
    <3>1. rec[ref].at \in Stages
      BY <1>1 DEF RecRec
    <3> QED BY <1>1, <2>2, <3>1, MovesStop, ZenonT(40) DEF Stops
  <2>4. PanelTypeOK'
    BY <1>1, <2>1, <2>3, Types, TypesNext DEF AllInv
  <2>5. ClockInv'
    BY <1>1, <2>1, <2>3 DEF AllInv, ClockInv
  <2>6. ~Calm'
    BY <1>1, <1>3, NoIdIsNobody DEF AllInv, ControlInv, OwnInv, Calm
  <2>7. MineInv'
    <3>1. \A q \in Id : rec'[q].at = rec[q].at /\ rec'[q].mine = rec[q].mine /\ rec'[q].heard = rec[q].heard
      BY <1>1, <2>2, <2>3, MovesStop DEF RecRec
    <3>2. rec[ref].at # "none"
      BY <1>1, NoIdIsNobody DEF AllInv, ClockInv
    <3> QED BY <1>1, <2>3, <3>1, <3>2 DEF AllInv, MineInv, Active, Asking, Live
  <2>8. TileInv'
    BY <2>1 DEF AllInv, TileInv
  <2> QED BY <2>4, <2>5, <2>6, <2>7, <2>8 DEF AllInv, ControlInv
<1> QED BY <1>2, <1>3

LEMMA StepStopped ==
  ASSUME AllInv, NEW r \in Id, Stopped(r)
  PROVE  AllInv'
<1>1. /\ rec \in [Id -> RecRec] /\ rec[r].at = "stopping" /\ rec[r].id \in Id \cup {Nobody}
      /\ rec' = [rec EXCEPT ![r].at = "stopped", ![r].stop = "complete"]
      /\ UNCHANGED <<tab, ref, shown, clock, slips>>
  BY Types DEF AllInv, Stopped, RecRec
<1>2. /\ rec' \in [Id -> RecRec] /\ rec'[r].at = "stopped" /\ rec'[r].stop = "complete"
      /\ \A q \in Id : /\ q # r => rec'[q] = rec[q]
                       /\ rec'[q].mine = rec[q].mine /\ rec'[q].heard = rec[q].heard
  <2>1. rec' = [rec EXCEPT ![r].at = "stopped", ![r].stop = "complete", ![r].id = rec[r].id]
    BY <1>1 DEF RecRec
  <2>2. "stopped" \in Stages /\ "complete" \in Stops
    BY DEF Stages, Stops
  <2>3. rec \in [Id -> RecRec] /\ rec[r].id \in Id \cup {Nobody}
    BY <1>1
  <2> QED BY <2>1, <2>2, <2>3, MovesStop
<1>3. PanelTypeOK'
  BY <1>1, <1>2, Types, TypesNext DEF AllInv, Stopped, Shown
<1>4. ClockInv'
  BY <1>1, <1>2, Types DEF AllInv, ClockInv
<1>5. ControlInv'
  BY <1>1, <1>2, Types, NoIdIsNobody DEF AllInv, MineInv, ControlInv, OwnInv, Calm, Stopped, Heard, Active, Asking, Live
<1>6. MineInv'
  <2>1. \A q \in Id : Active(q)' => Active(q)
    BY <1>2 DEF Active, Asking, Live
  <2> QED BY <1>1, <1>2, <2>1, Types DEF AllInv, MineInv
<1>7. TileInv'
  BY <1>1 DEF AllInv, TileInv
<1> QED BY <1>3, <1>4, <1>5, <1>6, <1>7 DEF AllInv

LEMMA StepStopFails ==
  ASSUME AllInv, NEW r \in Id, StopFails(r)
  PROVE  AllInv'
<1>1. /\ rec \in [Id -> RecRec] /\ rec[r].at = "stopping" /\ rec[r].id \in Id \cup {Nobody}
      /\ rec' = [rec EXCEPT ![r].stop = "failed"]
      /\ UNCHANGED <<tab, ref, status, shown, completed, clock, slips>>
  BY Types DEF AllInv, StopFails, RecRec, hookVars
<1>2. /\ rec' \in [Id -> RecRec] /\ rec'[r].at = "stopping" /\ rec'[r].stop = "failed"
      /\ \A q \in Id : /\ q # r => rec'[q] = rec[q]
                       /\ rec'[q].mine = rec[q].mine /\ rec'[q].heard = rec[q].heard
  <2>1. rec' = [rec EXCEPT ![r].at = "stopping", ![r].stop = "failed", ![r].id = rec[r].id]
    BY <1>1 DEF RecRec
  <2>2. "stopping" \in Stages /\ "failed" \in Stops
    BY DEF Stages, Stops
  <2>3. rec \in [Id -> RecRec] /\ rec[r].id \in Id \cup {Nobody}
    BY <1>1
  <2> QED BY <2>1, <2>2, <2>3, MovesStop
<1>3. PanelTypeOK'
  BY <1>1, <1>2, Types, TypesNext DEF AllInv
<1>4. ClockInv'
  BY <1>1, <1>2, Types DEF AllInv, ClockInv
<1>5. ControlInv'
  BY <1>1, <1>2, Types, NoIdIsNobody DEF AllInv, MineInv, ControlInv, OwnInv, Calm, Active, Asking, Live
<1>6. MineInv'
  BY <1>1, <1>2, NoIdIsNobody DEF AllInv, MineInv, StopFails, Holds, Slips, Active, Asking, Live
<1>7. TileInv'
  BY <1>1 DEF AllInv, TileInv
<1> QED BY <1>3, <1>4, <1>5, <1>6, <1>7 DEF AllInv

\* The hook lets go of its recorder; of a later one only by a slip.
LEMMA StepCompleted ==
  ASSUME AllInv, NEW r \in Id, Completed(r)
  PROVE  AllInv'
<1>1. /\ rec \in [Id -> RecRec] /\ rec[r].stop = "complete" /\ rec[r].id \in Id \cup {Nobody}
      /\ rec' = [rec EXCEPT ![r].stop = "done"] /\ UNCHANGED <<tab, shown, completed>>
  BY Types DEF AllInv, Completed, RecRec
<1>2. /\ rec' \in [Id -> RecRec] /\ rec'[r].at = rec[r].at /\ rec'[r].stop = "done"
      /\ \A q \in Id : /\ q # r => rec'[q] = rec[q]
                       /\ rec'[q].mine = rec[q].mine /\ rec'[q].heard = rec[q].heard
  <2>1. rec' = [rec EXCEPT ![r].at = rec[r].at, ![r].stop = "done", ![r].id = rec[r].id]
    BY <1>1 DEF RecRec
  <2>2. rec[r].at \in Stages
    BY <1>1 DEF RecRec
  <2> QED BY <1>1, <2>1, <2>2, MovesStop DEF Stops
<1>3. PanelTypeOK'
  <2>1. ref' \in Id \cup {Nobody} /\ clock' \in Clock /\ status' \in Shown
    BY Types, NewClock DEF AllInv, Completed, Holds, Shown
  <2>2. slips' \subseteq Slip
    BY Types DEF AllInv, Completed, Slips, Slip
  <2> QED BY <1>1, <1>2, <2>1, <2>2, Types, TypesNext DEF AllInv
<1>4. ClockInv'
  BY <1>1, <1>2, Types, NewClock DEF AllInv, ClockInv, Completed, Holds
<1>5. ControlInv'
  BY <1>1, <1>2, NoIdIsNobody DEF AllInv, MineInv, ControlInv, OwnInv, Calm, Completed, Slips, Holds, Active, Asking, Live
<1>6. MineInv'
  BY <1>1, <1>2, NoIdIsNobody DEF AllInv, MineInv, Completed, Holds, Slips, Active, Asking, Live
<1>7. TileInv'
  BY NewClock DEF AllInv, TileInv, Completed, Holds
<1> QED BY <1>3, <1>4, <1>5, <1>6, <1>7 DEF AllInv

LEMMA StepReset ==
  ASSUME AllInv, Reset
  PROVE  AllInv'
<1> DEFINE Disposed(r) == [rec[r] EXCEPT !.heard = FALSE, !.at = IF Live(r) THEN "stopped" ELSE @]
<1>1. /\ rec \in [Id -> RecRec] /\ status = "stopped" /\ UNCHANGED <<tab, completed, slips>>
      /\ ref' = Nobody /\ status' = "idle" /\ shown' = Nobody
      /\ rec' = [r \in Id |-> IF r # ref THEN rec[r] ELSE Disposed(r)]
  BY Types DEF AllInv, Reset, ClearHook, Holds
<1>2. /\ rec' \in [Id -> RecRec]
      /\ \A q \in Id : /\ q # ref => rec'[q] = rec[q]
                       /\ rec'[q].mine = rec[q].mine /\ rec'[q].stop = rec[q].stop
                       /\ rec'[q].id = rec[q].id
                       /\ rec'[q].at = IF q = ref /\ Live(q) THEN "stopped" ELSE rec[q].at
  <2> SUFFICES ASSUME NEW q \in Id
               PROVE  /\ rec'[q] \in RecRec
                      /\ q # ref => rec'[q] = rec[q]
                      /\ rec'[q].mine = rec[q].mine /\ rec'[q].stop = rec[q].stop
                      /\ rec'[q].id = rec[q].id
                      /\ rec'[q].at = IF q = ref /\ Live(q) THEN "stopped" ELSE rec[q].at
    BY <1>1
  <2>1. rec[q] \in RecRec
    BY <1>1
  <2>2. CASE q # ref
    BY <1>1, <2>1, <2>2
  <2>3. CASE q = ref
    <3>1. rec'[q] = [rec[q] EXCEPT !.heard = FALSE, !.at = IF Live(q) THEN "stopped" ELSE rec[q].at]
      BY <1>1, <2>1, <2>3 DEF RecRec
    <3> QED BY <2>1, <2>3, <3>1 DEF RecRec, Stages
  <2> QED BY <2>2, <2>3
<1>3. PanelTypeOK'
  BY <1>1, <1>2, Types, TypesNext, NewClock DEF AllInv, Shown, Reset, ClearHook, Holds
<1>4. ClockInv'
  BY <1>1 DEF ClockInv
<1>5. ControlInv'
  <2> SUFFICES ASSUME Calm' PROVE OwnInv'
    BY DEF ControlInv
  <2>1. OwnInv /\ (ref # Nobody => rec[ref].at # "none")
    BY <1>1 DEF AllInv, ClockInv, ControlInv, Calm
  <2>2. \A q \in Id : rec[q].mine =>
          ~Live(q) /\ rec[q].at \notin {"starting", "stopping"} /\ (q = ref => ~Asking(q))
    <3> SUFFICES ASSUME NEW q \in Id, rec[q].mine
                 PROVE  ~Live(q) /\ rec[q].at \notin {"starting", "stopping"} /\ (q = ref => ~Asking(q))
      OBVIOUS
    <3>1. Live(q) => status = rec[q].at /\ rec[q].at \in {"recording", "paused"}
      BY <2>1 DEF OwnInv, Live
    <3>2. rec[q].at \in {"starting", "stopping"} => status = rec[q].at
      BY <2>1 DEF OwnInv
    <3>3. Asking(q) => ref = Nobody
      BY <2>1 DEF OwnInv
    <3> QED BY <1>1, <3>1, <3>2, <3>3, NoIdIsNobody
  <2>3. \A q \in Id : q = ref => ~Live(q)
    BY <2>2, NoIdIsNobody DEF AllInv, MineInv
  <2>4. \A q \in Id : rec'[q].at = rec[q].at /\ rec'[q].id = rec[q].id
    <3> SUFFICES ASSUME NEW q \in Id PROVE rec'[q].at = rec[q].at /\ rec'[q].id = rec[q].id
      OBVIOUS
    <3> QED BY <1>2, <2>3
  <2>5. \A q \in Id : (Active(q)' <=> Active(q)) /\ (Asking(q)' <=> Asking(q)) /\ (Live(q)' <=> Live(q))
    BY <2>4 DEF Active, Asking, Live
  <2>6. \A q \in Id : Active(q)' /\ rec'[q].mine => tab' /\ rec'[q].heard /\ rec'[q].stop = "none"
    <3> SUFFICES ASSUME NEW q \in Id, Active(q)', rec'[q].mine
                 PROVE  tab' /\ rec'[q].heard /\ rec'[q].stop = "none"
      OBVIOUS
    <3>1. Active(q) /\ rec[q].mine
      BY <1>2, <2>5
    <3>2. q # ref
      BY <2>2, <3>1 DEF Active
    <3>3. tab /\ rec[q].heard /\ rec[q].stop = "none"
      BY <2>1, <3>1 DEF OwnInv
    <3> QED BY <1>1, <1>2, <3>2, <3>3
  <2>7. \A q, r \in Id : Active(q)' /\ rec'[q].mine /\ Active(r)' /\ rec'[r].mine => q = r
    BY <1>2, <2>1, <2>5 DEF OwnInv
  <2>8. \A q \in Id : rec'[q].mine => ~Live(q)' /\ rec'[q].at \notin {"starting", "stopping"}
    BY <1>2, <2>2, <2>4, <2>5
  <2>9. \A q \in Id : /\ rec'[q].stop = "engine" => rec'[q].at = "stopping" /\ rec'[q].id = q
                      /\ rec'[q].stop = "complete" => rec'[q].at = "stopped"
    BY <1>2, <2>1, <2>4 DEF OwnInv
  <2>10. \A q \in completed' : rec'[q].at = "stopped"
    <3>1. completed' = completed /\ completed \subseteq Id
      BY <1>1, Types DEF AllInv
    <3>2. \A q \in completed : rec[q].at = "stopped"
      BY <2>1 DEF OwnInv
    <3> QED BY <2>4, <3>1, <3>2
  <2>11. ref' = Nobody
    BY <1>1
  <2> QED BY <2>6, <2>7, <2>8, <2>9, <2>10, <2>11 DEF OwnInv
<1>6. MineInv'
  <2>1. ref # Nobody => rec[ref].at # "none"
    BY DEF AllInv, ClockInv
  <2>2. \A q \in Id : rec'[q].at = "none" => rec[q].at = "none" /\ rec'[q] = rec[q]
    BY <1>2, <2>1, NoIdIsNobody
  <2>3. \A q \in Id : rec'[q].at = "none" => rec'[q].mine /\ rec'[q].heard /\ rec'[q].stop = "none"
    BY <2>2 DEF AllInv, MineInv
  <2>4. \A q \in Id : Active(q)' => Active(q)
    BY <1>2 DEF Active, Asking, Live
  <2>5. ref' = Nobody /\ slips' = slips
    BY <1>1
  <2> QED BY <1>2, <2>3, <2>4, <2>5 DEF AllInv, MineInv
<1>7. TileInv'
  BY NewClock DEF AllInv, TileInv, Reset, ClearHook, Holds
<1> QED BY <1>3, <1>4, <1>5, <1>6, <1>7 DEF AllInv

\* Leaving with something active is a slip.
LEMMA StepLeave ==
  ASSUME AllInv, Leave
  PROVE  AllInv'
<1>1. /\ rec \in [Id -> RecRec] /\ UNCHANGED completed /\ tab' = FALSE
      /\ ref' = Nobody /\ status' = "idle" /\ shown' = Nobody
      /\ rec' = [r \in Id |-> [rec[r] EXCEPT !.mine = rec[r].at = "none"]]
  BY Types DEF AllInv, Leave, ClearHook, Holds
<1>2. /\ rec' \in [Id -> RecRec]
      /\ \A q \in Id : /\ rec'[q].at = rec[q].at /\ rec'[q].stop = rec[q].stop
                       /\ rec'[q].heard = rec[q].heard /\ rec'[q].id = rec[q].id
                       /\ rec'[q].mine = IF rec[q].at = "none" THEN TRUE ELSE FALSE
  BY <1>1 DEF RecRec
<1>3. PanelTypeOK'
  <2>1. slips' \subseteq Slip
    BY Types DEF AllInv, Leave, Slips, Slip
  <2> QED BY <1>1, <1>2, <2>1, Types, TypesNext, NewClock DEF AllInv, Shown, Leave, ClearHook, Holds
<1>4. ClockInv'
  BY <1>1 DEF ClockInv
<1>5. ControlInv'
  <2> SUFFICES ASSUME Calm' PROVE OwnInv'
    BY DEF ControlInv
  <2>1. OwnInv
    BY DEF AllInv, ControlInv, Calm, Leave, Slips
  <2>2. \A q \in Id : rec'[q].mine => ~Active(q)' /\ rec'[q].at # "stopping"
    BY <1>2 DEF Active, Asking, Live
  <2>3. \A q \in Id : /\ rec'[q].stop = "engine" => rec'[q].at = "stopping" /\ rec'[q].id = q
                      /\ rec'[q].stop = "complete" => rec'[q].at = "stopped"
    <3>1. \A q \in Id : rec[q].stop = "engine" => rec[q].at = "stopping" /\ rec[q].id = q
      BY <2>1 DEF OwnInv
    <3>2. \A q \in Id : rec[q].stop = "complete" => rec[q].at = "stopped"
      BY <2>1 DEF OwnInv
    <3> QED BY <1>2, <3>1, <3>2
  <2>4. \A q \in completed' : rec'[q].at = "stopped"
    BY <1>1, <1>2, <2>1, Types DEF AllInv, OwnInv
  <2> QED BY <1>1, <2>2, <2>3, <2>4, ZenonT(40) DEF OwnInv, Active
<1>6. MineInv'
  <2>1. \A q \in Id : rec'[q].at = "none" => rec'[q].mine /\ rec'[q].heard /\ rec'[q].stop = "none"
    BY <1>2, ZenonT(40) DEF AllInv, MineInv
  <2>2. "left" \notin slips' => \A q \in Id : ~Active(q)
    BY DEF AllInv, MineInv, Leave, Slips
  <2>3. \A q \in Id : Active(q)' => Active(q)
    BY <1>2 DEF Active, Asking, Live
  <2> QED BY <1>1, <2>1, <2>2, <2>3 DEF MineInv
<1>7. TileInv'
  BY NewClock DEF AllInv, TileInv, Leave, ClearHook, Holds
<1> QED BY <1>3, <1>4, <1>5, <1>6, <1>7 DEF AllInv

LEMMA StepReturn ==
  ASSUME AllInv, Return
  PROVE  AllInv'
<1>3. PanelTypeOK'
  BY Types, TypesNext DEF AllInv, Return, hookVars
<1>4. ClockInv'
  BY DEF AllInv, ClockInv, Return, hookVars
<1>5. ControlInv'
  BY DEF AllInv, MineInv, ControlInv, OwnInv, Calm, Return, hookVars, Active, Asking, Live
<1>6. MineInv'
  BY DEF AllInv, MineInv, Return, hookVars, Active, Asking, Live
<1>7. TileInv'
  BY DEF AllInv, TileInv, Return
<1> QED BY <1>3, <1>4, <1>5, <1>6, <1>7 DEF AllInv

LEMMA StepTick ==
  ASSUME AllInv, Tick
  PROVE  AllInv'
<1>1. /\ clock \in Clock /\ clock' = Ran(clock, rec[ref].at = "recording") /\ Live(ref)
      /\ UNCHANGED <<tab, ref, status, shown, rec, completed, slips>>
  BY Types DEF AllInv, Tick, hookVars
<1>3. PanelTypeOK'
  BY <1>1, Types, TypesNext, ClockRuns DEF AllInv
<1>4. ClockInv'
  <2> SUFFICES ASSUME ref # Nobody PROVE ClockInv'
    BY <1>1 DEF ClockInv
  <2>1. /\ rec[ref].at = "paused" => clock'.since - clock'.accum = clock'.active
        /\ rec[ref].at = "recording" => clock'.age - clock'.accum = clock'.active
    <3>1. /\ rec[ref].at = "paused" => clock.since - clock.accum = clock.active
          /\ rec[ref].at = "recording" => clock.age - clock.accum = clock.active
      BY DEF AllInv, ClockInv
    <3>2. clock.age \in Nat /\ clock.since \in Nat /\ clock.accum \in Int /\ clock.active \in Nat
      BY <1>1 DEF Clock
    <3>3. /\ clock'.age = clock.age + 1 /\ clock'.since = clock.since /\ clock'.accum = clock.accum
          /\ clock'.active = IF rec[ref].at = "recording" THEN clock.active + 1 ELSE clock.active
      BY <1>1, ClockRuns
    <3> QED BY <3>1, <3>2, <3>3
  <2> QED BY <1>1, <2>1 DEF ClockInv, Live
<1>5. ControlInv'
  BY <1>1 DEF AllInv, MineInv, ControlInv, OwnInv, Calm, Active, Asking, Live
<1>6. MineInv'
  BY <1>1 DEF AllInv, MineInv, Tick, hookVars, Active, Asking, Live
<1>7. TileInv'
  BY <1>1, ClockRuns DEF AllInv, TileInv
<1> QED BY <1>3, <1>4, <1>5, <1>6, <1>7 DEF AllInv

LEMMA StepRotate ==
  ASSUME AllInv, Rotate
  PROVE  AllInv'
<1>1. /\ clock \in Clock /\ clock' = Cut(clock, rec[ref].at = "paused") /\ Live(ref)
      /\ UNCHANGED <<tab, ref, status, shown, rec, completed, slips>>
  BY Types DEF AllInv, Rotate, hookVars
<1>3. PanelTypeOK'
  BY <1>1, Types, TypesNext, ClockCuts DEF AllInv
<1>4. ClockInv'
  <2> SUFFICES ASSUME ref # Nobody PROVE ClockInv'
    BY <1>1 DEF ClockInv
  <2>1. /\ rec[ref].at = "paused" => clock'.since - clock'.accum = clock'.active
        /\ rec[ref].at = "recording" => clock'.age - clock'.accum = clock'.active
    <3>1. /\ rec[ref].at = "paused" => clock.since - clock.accum = clock.active
          /\ rec[ref].at = "recording" => clock.age - clock.accum = clock.active
      BY DEF AllInv, ClockInv
    <3>2. clock.age \in Nat /\ clock.since \in Nat /\ clock.accum \in Int /\ clock.active \in Nat
      BY <1>1 DEF Clock
    <3>3. /\ clock'.age = clock.age /\ clock'.since = clock.since /\ clock'.accum = clock.accum
          /\ clock'.active = clock.active
      BY <1>1, ClockCuts
    <3> QED BY <3>1, <3>2, <3>3
  <2> QED BY <1>1, <2>1 DEF ClockInv, Live
<1>5. ControlInv'
  BY <1>1 DEF AllInv, MineInv, ControlInv, OwnInv, Calm, Active, Asking, Live
<1>6. MineInv'
  BY <1>1 DEF AllInv, MineInv, Active, Asking, Live
<1>7. TileInv'
  BY <1>1, CutTiles DEF Rotate
<1> QED BY <1>3, <1>4, <1>5, <1>6, <1>7 DEF AllInv

LEMMA StepStutters ==
  ASSUME AllInv, UNCHANGED vars
  PROVE  AllInv'
<1>1. PanelTypeOK'
  BY Types, TypesNext DEF AllInv, vars, hookVars
<1>2. ClockInv' /\ MineInv' /\ ControlInv' /\ TileInv'
  BY DEF AllInv, ClockInv, MineInv, ControlInv, Calm, OwnInv, TileInv, vars, hookVars, Active, Asking, Live
<1> QED BY <1>1, <1>2 DEF AllInv

LEMMA StepAll == AllInv /\ [Next]_vars => AllInv'
<1> SUFFICES ASSUME AllInv, [Next]_vars PROVE AllInv'
  OBVIOUS
<1>1. ASSUME NEW r \in Id,
             \/ ClickStart(r) \/ Prompted(r) \/ Denied(r) \/ Created(r) \/ Starts(r) \/ StartFails(r)
             \/ Stopped(r) \/ StopFails(r) \/ Completed(r)
      PROVE  AllInv'
  BY <1>1, StepClickStart, StepPrompted, StepDenied, StepCreated, StepStarts, StepStartFails,
     StepStopped, StepStopFails, StepCompleted
<1> QED BY <1>1, StepClickPause, StepClickResume, StepClickStop, StepReset, StepLeave, StepReturn,
           StepTick, StepRotate, StepStutters DEF Next

-----------------------------------------------------------------------------
(* Theorems.                                                               *)

\* The strengthened invariant of the record page.
THEOREM PanelInvHolds == Spec => []AllInv
BY InitAll, StepAll, PTL DEF Spec

\* The record page keeps its types: every recording's stages, what the panel
\* shows and the recorder's clock (useRecorder.ts, recorder.ts).
THEOREM PanelTypes == Spec => []PanelTypeOK
<1>1. AllInv => PanelTypeOK
  BY DEF AllInv
<1> QED BY <1>1, PanelInvHolds, PTL

\* Whatever the number of recordings and the order of permissions, answers,
\* clicks and events: while none of the slips has happened, a recorder that
\* runs is the one the panel shows and its buttons act on (useRecorder.ts).
THEOREM RunningIsControlled == Spec => []LiveIsControlled
<1>1. ASSUME AllInv PROVE LiveIsControlled
  <2> SUFFICES ASSUME slips = {}, NEW r \in Id, Live(r)
               PROVE  tab /\ ref = r /\ status = rec[r].at /\ shown = r
    BY DEF LiveIsControlled
  <2>1. OwnInv
    BY <1>1 DEF AllInv, ControlInv, Calm
  <2>2. Active(r) /\ rec[r].mine
    BY <1>1 DEF AllInv, MineInv, Active
  <2> QED BY <2>1, <2>2 DEF OwnInv
<1> QED BY <1>1, PanelInvHolds, PTL

\* The server is told that a recording is complete only when its recorder has
\* stopped, whatever the panel was left for or a start left behind, unless two
\* starts overlapped or a completion was answered late (useRecorder.ts stop).
THEOREM CompletesWhatStopped == Spec => []CompletedIsStopped
<1>1. AllInv => CompletedIsStopped
  BY DEF AllInv, ControlInv, Calm, OwnInv, CompletedIsStopped
<1> QED BY <1>1, PanelInvHolds, PTL

\* The chunks of a recording that is never cut during a pause tile the time it
\* has recorded, however often it was paused (chunk-buffer.ts rotate).
THEOREM ChunksTileTheRecording == Spec => []ChunksTile
<1>1. AllInv => ChunksTile
  BY DEF AllInv, TileInv, Tiles, ChunksTile
<1> QED BY <1>1, PanelInvHolds, PTL

\* However often a recording was paused, its elapsed time while it records is
\* the time it has recorded (recorder.ts getOffsetMs).
THEOREM ElapsedIsRecorded == Spec => []OffsetIsActiveTime
<1>1. AllInv => OffsetIsActiveTime
  BY OffsetRecorded DEF AllInv, OffsetIsActiveTime
<1> QED BY <1>1, PanelInvHolds, PTL

=============================================================================
