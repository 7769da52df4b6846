--------------------------- MODULE SessionProofs ---------------------------
(***************************************************************************)
(* Why a signed-in page stays able to renew its session: for any number of *)
(* overlapping calls, any length of a session and any lifetimes of tokens. *)
(*                                                                         *)
(* SessionSurvives is not inductive: it does not say that the pair a call  *)
(* is about to store is a live one, nor that nobody else is about to       *)
(* revoke it.  HoldInv does: the row of an answer on its way is live, no   *)
(* refresh shows its token, and the page does not hold it yet.             *)
(***************************************************************************)
EXTENDS Session, SequenceTheorems, TLAPS

Tokens == {rows[i].token : i \in DOMAIN rows}
LiveTokens == {rows[i].token : i \in {j \in DOMAIN rows : rows[j].live}}

\* The call's answer is a new pair that the page has not stored.
Bears(c) ==
  calls[c].phase = "granted" \/ (calls[c].phase = "ok" /\ calls[c].kind # "data")

\* The call's refresh is about to revoke a row of the token it shows.
Shows(c) == calls[c].phase \in {"find", "revoke"}

\* Every token about was issued.
KnownInv ==
  /\ held \in Tokens \cup {Absent} /\ (page = "app" => held # Absent)
  /\ \A c \in Call :
       /\ Shows(c) => calls[c].shown \in Tokens
       /\ Bears(c) => calls[c].answer \in Tokens
       /\ calls[c].phase = "revoke" =>
            calls[c].row \in DOMAIN rows /\ rows[calls[c].row].token = calls[c].shown

HoldInv ==
  DistinctTokens =>
    \A c \in Call : Bears(c) =>
      /\ calls[c].answer \in LiveTokens /\ calls[c].answer # held
      /\ \A d \in Call :
           /\ Shows(d) => calls[d].shown # calls[c].answer
           /\ Bears(d) /\ d # c => calls[d].answer # calls[c].answer

\* While no answer was lost, the page that asked for a refresh is there.
HeardInv == ~faulty => \A c \in Call : calls[c].phase \in Refreshing => calls[c].mine

LiveInv ==
  ~misread /\ ~faulty /\ DistinctTokens /\ held # Absent =>
    held \in LiveTokens \/ \E c \in Call : Renewing(c)

AllInv == SessionTypeOK /\ KnownInv /\ HoldInv /\ HeardInv /\ LiveInv

-----------------------------------------------------------------------------
(* The table of refresh tokens.                                            *)

LEMMA AbsentIsNoSecond == Absent \notin Second
BY DEF Absent, Second, SessionAssumption

LEMMA RowTypes ==
  ASSUME SessionTypeOK, NEW i \in DOMAIN rows
  PROVE  rows[i] \in [token : Second, live : BOOLEAN]
<1>1. rows \in Seq([token : Second, live : BOOLEAN])
  BY DEF SessionTypeOK
<1>2. DOMAIN rows = 1 .. Len(rows)
  BY <1>1, LenProperties
<1> QED BY <1>1, <1>2, ElementOfSeq

LEMMA TokensAreSeconds ==
  ASSUME SessionTypeOK
  PROVE  Tokens \subseteq Second /\ LiveTokens \subseteq Tokens
<1>1. \A i \in DOMAIN rows : rows[i].token \in Second
  BY RowTypes
<1> QED BY <1>1 DEF Tokens, LiveTokens

LEMMA LiveRowsOf ==
  ASSUME NEW x PROVE (LiveRows(x) # {}) <=> (x \in LiveTokens)
BY DEF LiveRows, LiveTokens

\* A row added: its token is one more, and if it is a token of its own then
\* none of the rows before had it.
LEMMA AppendRows ==
  ASSUME SessionTypeOK, rows' = Issued
  PROVE  /\ rows' \in Seq([token : Second, live : BOOLEAN])
         /\ Tokens' = Tokens \cup {second} /\ LiveTokens' = LiveTokens \cup {second}
         /\ DistinctTokens' => DistinctTokens /\ second \notin Tokens
         /\ \A i \in DOMAIN rows : i \in DOMAIN rows' /\ rows'[i] = rows[i]
<1> DEFINE e == [token |-> second, live |-> TRUE]
           n == Len(rows) + 1
<1>1. /\ rows \in Seq([token : Second, live : BOOLEAN]) /\ second \in Second
      /\ e \in [token : Second, live : BOOLEAN]
  BY DEF SessionTypeOK
<1>2. /\ rows' = Append(rows, e) /\ rows' \in Seq([token : Second, live : BOOLEAN])
      /\ DOMAIN rows = 1 .. Len(rows) /\ DOMAIN rows' = 1 .. Len(rows) + 1 /\ Len(rows) \in Nat
      /\ \A i \in 1 .. Len(rows) : rows'[i] = rows[i]
      /\ rows'[Len(rows) + 1] = e
  BY <1>1 DEF Issued
<1>3. DOMAIN rows' = DOMAIN rows \cup {n} /\ n \notin DOMAIN rows
  BY <1>2
<1>4. \A i \in DOMAIN rows : rows'[i] = rows[i]
  BY <1>2
<1>5. e.token = second /\ e.live /\ rows'[n] = e
  BY <1>2
<1> HIDE DEF e, n
<1>6. Tokens' = Tokens \cup {second}
  BY <1>3, <1>4, <1>5 DEF Tokens
<1>7. LiveTokens' = LiveTokens \cup {second}
  BY <1>3, <1>4, <1>5 DEF LiveTokens
<1>8. DistinctTokens' => DistinctTokens /\ second \notin Tokens
  BY <1>3, <1>4, <1>5 DEF DistinctTokens, Tokens
<1> QED BY <1>2, <1>3, <1>4, <1>6, <1>7, <1>8

\* A row revoked: its token is still known, and of the live ones at most it
\* is gone.
LEMMA RevokeRow ==
  ASSUME SessionTypeOK, NEW r \in DOMAIN rows, rows' = [rows EXCEPT ![r].live = FALSE]
  PROVE  /\ Tokens' = Tokens /\ LiveTokens \ {rows[r].token} \subseteq LiveTokens'
         /\ DistinctTokens' => DistinctTokens
         /\ DOMAIN rows' = DOMAIN rows
         /\ \A i \in DOMAIN rows : rows'[i].token = rows[i].token
<1>2. DOMAIN rows' = DOMAIN rows
  OBVIOUS
<1>3. \A i \in DOMAIN rows : rows[i] \in [token : Second, live : BOOLEAN]
  BY RowTypes
<1>4. \A i \in DOMAIN rows : rows'[i].token = rows[i].token /\ (i # r => rows'[i].live = rows[i].live)
  BY <1>3
<1>5. Tokens' = Tokens
  BY <1>2, <1>4 DEF Tokens
<1>6. ASSUME NEW x \in LiveTokens \ {rows[r].token} PROVE x \in LiveTokens'
  BY <1>2, <1>4, <1>6 DEF LiveTokens
<1>7. DistinctTokens' => DistinctTokens
  BY <1>2, <1>4 DEF DistinctTokens
<1> QED BY <1>2, <1>4, <1>5, <1>6, <1>7

-----------------------------------------------------------------------------
(* Types.                                                                  *)

CallTypes ==
  [phase : {"free", "sent", "ok", "unauthorized", "find", "revoke",
            "signing", "issue", "granted", "refused", "failed"},
   kind : {"data", "login", "register"}, retry : BOOLEAN,
   sent : Second \cup {Absent}, shown : Second \cup {Absent},
   row : Nat, answer : Second \cup {Absent}, granted : BOOLEAN, mine : BOOLEAN]

LEMMA FreeTypes == Free \in CallTypes /\ Free.phase = "free" /\ Free.kind = "data" /\ Free.mine
BY DEF Free, CallTypes

LEMMA CallsAre == SessionTypeOK => calls \in [Call -> CallTypes]
BY DEF SessionTypeOK, CallTypes

LEMMA TypesInit == Init => SessionTypeOK
<1>1. SUFFICES ASSUME Init PROVE SessionTypeOK
  OBVIOUS
<1>2. <<>> \in Seq([token : Second, live : BOOLEAN])
  BY EmptySeq
<1>3. 0 \in Second
  BY SessionAssumption DEF Second
<1> QED BY <1>1, <1>2, <1>3, FreeTypes DEF Init, SessionTypeOK, CallTypes

\* What the service does to the table.
LEMMA RowsTypes ==
  ASSUME SessionTypeOK, NEW c \in Call,
         SignsIn(c) \/ Revokes(c) \/ Issues(c)
  PROVE  rows' \in Seq([token : Second, live : BOOLEAN])
<1>1. CASE SignsIn(c) \/ Issues(c)
  BY <1>1, AppendRows DEF SignsIn, Issues
<1>2. CASE Revokes(c)
  <2> DEFINE r == calls[c].row
  <2>1. rows \in Seq([token : Second, live : BOOLEAN]) /\ DOMAIN rows = 1 .. Len(rows)
    BY LenProperties DEF SessionTypeOK
  <2>2. CASE r \in DOMAIN rows
    <3>1. [rows[r] EXCEPT !.live = FALSE] \in [token : Second, live : BOOLEAN]
      BY <2>2, RowTypes
    <3>2. rows' = [rows EXCEPT ![r] = [rows[r] EXCEPT !.live = FALSE]]
      BY <1>2 DEF Revokes
    <3> QED BY <2>1, <2>2, <3>1, <3>2, ExceptSeq
  <2>3. CASE r \notin DOMAIN rows
    <3>1. rows' = rows
      BY <1>2, <2>1, <2>3 DEF Revokes
    <3> QED BY <2>1, <3>1
  <2> QED BY <2>2, <2>3
<1> QED BY <1>1, <1>2

\* A step of one call changes its record and no other.
OneCall(c) == \E r \in CallTypes : calls' = [calls EXCEPT ![c] = r]

LEMMA OneCallOnly ==
  ASSUME SessionTypeOK, NEW c \in Call, OneCall(c)
  PROVE  /\ calls' \in [Call -> CallTypes] /\ calls'[c] \in CallTypes
         /\ \A d \in Call \ {c} : calls'[d] = calls[d]
<1>1. PICK r \in CallTypes : calls' = [calls EXCEPT ![c] = r]
  BY DEF OneCall
<1> QED BY <1>1, CallsAre

LEMMA FailsTypes ==
  ASSUME SessionTypeOK, NEW c \in Call, NEW from, Fails(c, from) PROVE OneCall(c)
<1> DEFINE r == [Free EXCEPT !.phase = "failed", !.granted = calls[c].granted]
<1>1. calls[c] \in CallTypes
  BY CallsAre
<1>2. r \in CallTypes
  BY <1>1, FreeTypes DEF CallTypes
<1> QED BY <1>2 DEF Fails, OneCall

LEMMA RefusedTypes ==
  ASSUME SessionTypeOK, NEW c \in Call, NEW from, Refused(c, from) PROVE OneCall(c)
<1> DEFINE r == [calls[c] EXCEPT !.phase = "refused", !.shown = Absent, !.answer = Absent]
<1>1. calls[c] \in CallTypes
  BY CallsAre
<1>2. r \in CallTypes
  BY <1>1 DEF CallTypes
<1>3. calls' = [calls EXCEPT ![c] = r]
  BY DEF Refused
<1> HIDE DEF r
<1> QED BY <1>2, <1>3 DEF OneCall

LEMMA PageTypes ==
  ASSUME SessionTypeOK, NEW c \in Call, Page(c) PROVE OneCall(c)
<1>0. calls[c] \in CallTypes /\ held \in Second \cup {Absent}
  BY CallsAre DEF SessionTypeOK
<1>1. ASSUME NEW kind \in {"data", "login", "register"}, Send(c, kind) PROVE OneCall(c)
  <2> DEFINE r == [Free EXCEPT !.phase = "sent", !.kind = kind, !.retry = TRUE, !.sent = held]
  <2>1. r \in CallTypes
    BY <1>0, FreeTypes DEF CallTypes
  <2>2. calls' = [calls EXCEPT ![c] = r]
    BY <1>1 DEF Send
  <2> HIDE DEF r
  <2> QED BY <2>1, <2>2 DEF OneCall
<1>2. CASE Refreshes(c)
  <2> DEFINE r == [calls[c] EXCEPT !.phase = "find", !.shown = held]
  <2>1. r \in CallTypes
    BY <1>0 DEF CallTypes
  <2>2. calls' = [calls EXCEPT ![c] = r]
    BY <1>2 DEF Refreshes
  <2> HIDE DEF r
  <2> QED BY <2>1, <2>2 DEF OneCall
<1>3. CASE Rejects(c) \/ Misreads(c) \/ GivesUp(c)
  BY <1>3, FailsTypes DEF Rejects, Misreads, GivesUp
<1>4. CASE Resends(c)
  <2> DEFINE r == [Free EXCEPT !.phase = "sent", !.kind = calls[c].kind,
                               !.sent = held', !.granted = TRUE]
  <2>1. held' \in Second \cup {Absent}
    BY <1>0, <1>4 DEF Resends, CallTypes
  <2>2. r \in CallTypes
    BY <1>0, <2>1, FreeTypes DEF CallTypes
  <2>3. calls' = [calls EXCEPT ![c] = r]
    BY <1>4 DEF Resends
  <2> HIDE DEF r
  <2> QED BY <2>2, <2>3 DEF OneCall
<1>5. CASE Returns(c) \/ Unheard(c)
  BY <1>5, FreeTypes DEF Returns, Unheard, OneCall
<1>6. CASE Lose(c)
  BY <1>6, FailsTypes, RefusedTypes DEF Lose
<1> QED BY <1>1, <1>2, <1>3, <1>4, <1>5, <1>6 DEF Page

LEMMA ServerTypes ==
  ASSUME SessionTypeOK, NEW c \in Call, Server(c) PROVE OneCall(c)
<1>0. calls[c] \in CallTypes /\ second \in Second /\ Absent \in Second \cup {Absent}
  BY CallsAre DEF SessionTypeOK
<1>1. ASSUME NEW p \in {"ok", "unauthorized"},
             calls' = [calls EXCEPT ![c] = [@ EXCEPT !.sent = Absent, !.phase = p]]
      PROVE  OneCall(c)
  <2>1. [calls[c] EXCEPT !.sent = Absent, !.phase = p] \in CallTypes
    BY <1>0 DEF CallTypes
  <2> QED BY <1>1, <2>1 DEF OneCall
<1>2. CASE Serve(c)
  <2> DEFINE good == calls[c].sent # Absent /\ second < calls[c].sent + AccessTtl
             p == IF good THEN "ok" ELSE "unauthorized"
  <2>1. calls' = [calls EXCEPT ![c] = [@ EXCEPT !.sent = Absent, !.phase = p]]
    BY <1>2 DEF Serve
  <2>2. p \in {"ok", "unauthorized"}
    OBVIOUS
  <2> HIDE DEF p
  <2> QED BY <1>1, <2>1, <2>2
<1>3. CASE SignsIn(c)
  <2>1. [calls[c] EXCEPT !.phase = "ok", !.answer = second] \in CallTypes
    BY <1>0 DEF CallTypes
  <2> QED BY <1>3, <2>1 DEF SignsIn, OneCall
<1>3a. CASE Admits(c)
  <2>1. [calls[c] EXCEPT !.phase = "signing", !.sent = Absent] \in CallTypes
    BY <1>0 DEF CallTypes
  <2> QED BY <1>3a, <2>1 DEF Admits, OneCall
<1>3b. CASE SignInFails(c)
  BY <1>3b, FailsTypes DEF SignInFails
<1>4. CASE Denies(c)
  <2>1. [calls[c] EXCEPT !.phase = "unauthorized", !.sent = Absent] \in CallTypes
    BY <1>0 DEF CallTypes
  <2> QED BY <1>4, <2>1, FailsTypes DEF Denies, OneCall
<1>5. CASE Finds(c)
  <2>1. ASSUME NEW i \in LiveRows(calls[c].shown)
        PROVE  [calls[c] EXCEPT !.phase = "revoke", !.row = i] \in CallTypes
    <3>1. DOMAIN rows = 1 .. Len(rows)
      BY LenProperties DEF SessionTypeOK
    <3>2. i \in Nat
      BY <2>1, <3>1 DEF LiveRows
    <3> QED BY <1>0, <3>2 DEF CallTypes
  <2> QED BY <1>5, <2>1, RefusedTypes DEF Finds, OneCall
<1>6. CASE Revokes(c)
  <2>1. [calls[c] EXCEPT !.phase = "issue", !.shown = Absent, !.row = 0] \in CallTypes
    BY <1>0 DEF CallTypes
  <2> QED BY <1>6, <2>1 DEF Revokes, OneCall
<1>7. CASE Issues(c)
  <2>1. [calls[c] EXCEPT !.phase = "granted", !.answer = second, !.granted = TRUE] \in CallTypes
    BY <1>0 DEF CallTypes
  <2> QED BY <1>7, <2>1 DEF Issues, OneCall
<1>8. CASE IssueFails(c)
  BY <1>8, RefusedTypes DEF IssueFails
<1> QED BY <1>2, <1>3, <1>3a, <1>3b, <1>4, <1>5, <1>6, <1>7, <1>8 DEF Server

LEMMA TypesNext == SessionTypeOK /\ [Next]_vars => SessionTypeOK'
<1> SUFFICES ASSUME SessionTypeOK, [Next]_vars PROVE SessionTypeOK'
  OBVIOUS
<1>0. ASSUME /\ second' \in Second /\ shape' = shape /\ misread' \in BOOLEAN /\ known' \in BOOLEAN /\ faulty' \in BOOLEAN
             /\ rows' \in Seq([token : Second, live : BOOLEAN])
             /\ held' \in Second \cup {Absent} /\ page' \in {"auth", "app"}
             /\ calls' \in [Call -> CallTypes]
      PROVE  SessionTypeOK'
  BY <1>0 DEF SessionTypeOK, CallTypes
<1>1. ASSUME NEW c \in Call, Page(c) PROVE SessionTypeOK'
  <2>1. calls' \in [Call -> CallTypes] /\ calls \in [Call -> CallTypes]
    BY <1>1, PageTypes, OneCallOnly, CallsAre
  <2>2. calls[c].answer \in Second \cup {Absent}
    BY <2>1 DEF CallTypes
  <2>3. /\ held' \in {held, calls[c].answer} /\ page' \in {page, "app"} /\ faulty' \in {faulty, TRUE}
        /\ misread' \in {misread, TRUE, FALSE} /\ UNCHANGED <<second, shape, known, rows>>
    BY <1>1 DEF Page, Send, Refreshes, Rejects, Resends, Misreads, GivesUp, Returns, Unheard, Lose
  <2> QED BY <1>0, <2>1, <2>2, <2>3 DEF SessionTypeOK
<1>2. ASSUME NEW c \in Call, Server(c) PROVE SessionTypeOK'
  <2>1. calls' \in [Call -> CallTypes]
    BY <1>2, ServerTypes, OneCallOnly
  <2>2. rows' \in Seq([token : Second, live : BOOLEAN])
    <3>1. CASE SignsIn(c) \/ Revokes(c) \/ Issues(c)
      BY <3>1, RowsTypes
    <3>2. CASE Serve(c) \/ Admits(c) \/ SignInFails(c) \/ Denies(c) \/ Finds(c) \/ IssueFails(c)
      BY <3>2 DEF Serve, Admits, SignInFails, Denies, Finds, IssueFails, SessionTypeOK
    <3> QED BY <1>2, <3>1, <3>2 DEF Server
  <2>3. /\ known' \in {known, TRUE} /\ faulty' \in {faulty, TRUE}
        /\ UNCHANGED <<second, shape, misread, held, page>>
    BY <1>2 DEF Server, Serve, Admits, SignsIn, SignInFails, Denies, Finds, Revokes, Issues, IssueFails
  <2> QED BY <1>0, <2>1, <2>2, <2>3 DEF SessionTypeOK
<1>3. CASE SignOut
  BY <1>3 DEF SignOut, SessionTypeOK
<1>4. CASE Reload
  <2>1. \A c \in Call : calls[c] \in CallTypes /\ [calls[c] EXCEPT !.mine = FALSE] \in CallTypes
    BY CallsAre, ZenonT(40) DEF CallTypes
  <2>2. calls' \in [Call -> CallTypes]
    BY <1>4, <2>1, FreeTypes DEF Reload
  <2>3. faulty' \in BOOLEAN /\ page' \in {"auth", "app"}
    BY <1>4 DEF Reload, SessionTypeOK
  <2> QED BY <1>0, <1>4, <2>2, <2>3 DEF Reload, SessionTypeOK
<1>5. CASE Tick
  BY <1>5, SessionAssumption DEF Tick, SessionTypeOK, Second
<1>6. CASE UNCHANGED vars
  BY <1>6 DEF vars, SessionTypeOK
<1> QED BY <1>1, <1>2, <1>3, <1>4, <1>5, <1>6 DEF Next

-----------------------------------------------------------------------------
(* The steps.                                                              *)

LEMMA InitAll == Init => AllInv
<1> SUFFICES ASSUME Init PROVE AllInv
  OBVIOUS
<1>1. SessionTypeOK
  BY TypesInit
<1>2. \A c \in Call : calls[c] = Free
  BY DEF Init
<1>3. KnownInv /\ HoldInv /\ HeardInv /\ LiveInv
  BY <1>2, FreeTypes
     DEF Init, KnownInv, HoldInv, HeardInv, LiveInv, Shows, Bears, Refreshing
<1> QED BY <1>1, <1>3 DEF AllInv

\* A step that leaves a call with no refresh to make and no pair to store
\* disturbs nothing, if the call that was renewing is not the page's hope.
LEMMA QuietCall ==
  ASSUME AllInv, SessionTypeOK', NEW c \in Call,
         \A d \in Call \ {c} : calls'[d] = calls[d],
         UNCHANGED <<rows, held, page>>, faulty => faulty', misread => misread',
         ~Bears(c)', calls'[c].phase \notin Refreshing,
         ~misread' /\ ~faulty' => ~Renewing(c)
  PROVE  AllInv'
<1>1. \A d \in Call : d # c => (Bears(d)' <=> Bears(d)) /\ (Shows(d)' <=> Shows(d))
                               /\ (Renewing(d)' <=> Renewing(d))
  BY DEF Bears, Shows, Renewing
<1>2. ~Shows(c)' /\ calls'[c].phase # "revoke"
  BY DEF Shows, Refreshing
<1>3. /\ Tokens' = Tokens /\ LiveTokens' = LiveTokens /\ (DistinctTokens' <=> DistinctTokens)
  BY DEF Tokens, LiveTokens, DistinctTokens
<1>4. KnownInv'
  BY <1>1, <1>2, <1>3 DEF AllInv, KnownInv
<1>5. HoldInv'
  BY <1>1, <1>2, <1>3 DEF AllInv, HoldInv
<1>6. HeardInv'
  BY DEF AllInv, HeardInv
<1>7. LiveInv'
  BY <1>1, <1>3 DEF AllInv, LiveInv
<1> QED BY <1>4, <1>5, <1>6, <1>7 DEF AllInv

\* Steps of the page that end a call, begin one or lose its answer.
LEMMA EndsQuietly ==
  ASSUME AllInv, SessionTypeOK', NEW c \in Call,
         \/ \E kind \in {"data", "login", "register"} : Send(c, kind)
         \/ Rejects(c) \/ Misreads(c) \/ GivesUp(c) \/ Unheard(c) \/ Lose(c)
  PROVE  AllInv'
<1>1. Page(c) /\ SessionTypeOK
  BY DEF Page, AllInv
<1>2. calls \in [Call -> CallTypes] /\ \A d \in Call \ {c} : calls'[d] = calls[d]
  BY <1>1, PageTypes, OneCallOnly, CallsAre
<1>3. UNCHANGED <<rows, held, page>> /\ (faulty => faulty') /\ (misread => misread')
  BY DEF Send, Rejects, Misreads, GivesUp, Unheard, Lose
<1>4. calls'[c].phase \in {"free", "sent", "failed", "refused"}
  <2>1. ASSUME NEW kind, Send(c, kind) PROVE calls'[c].phase = "sent"
    BY <1>2, <2>1, FreeTypes DEF Send, CallTypes
  <2>2. ASSUME NEW from, Fails(c, from) \/ Refused(c, from)
        PROVE  calls'[c].phase \in {"failed", "refused"}
    <3>1. CASE Fails(c, from)
      BY <1>2, <3>1, FreeTypes DEF Fails, CallTypes
    <3>2. CASE Refused(c, from)
      BY <1>2, <3>2 DEF Refused, CallTypes
    <3> QED BY <2>2, <3>1, <3>2
  <2>3. CASE Unheard(c)
    BY <1>2, <2>3, FreeTypes DEF Unheard
  <2>4. CASE Rejects(c) \/ Misreads(c) \/ GivesUp(c) \/ Lose(c)
    BY <2>2, <2>4 DEF Rejects, Misreads, GivesUp, Lose
  <2> QED BY <2>1, <2>3, <2>4
<1>5. ~Bears(c)' /\ calls'[c].phase \notin Refreshing
  BY <1>4 DEF Bears, Refreshing
<1>6. ~misread' /\ ~faulty' => ~Renewing(c)
  BY DEF Send, Idle, Rejects, Misreads, GivesUp, Unheard, Lose, Fails, Refused, Renewing
<1> QED BY <1>2, <1>3, <1>5, <1>6, QuietCall

\* Steps of the service that answer without touching the table.
LEMMA AnswersQuietly ==
  ASSUME AllInv, SessionTypeOK', NEW c \in Call,
         \/ Serve(c) \/ Admits(c) \/ SignInFails(c) \/ Denies(c) \/ IssueFails(c)
         \/ (Finds(c) /\ calls'[c].phase = "refused")
  PROVE  AllInv'
<1>1. Server(c) /\ SessionTypeOK
  BY DEF Server, AllInv
<1>2. calls \in [Call -> CallTypes] /\ \A d \in Call \ {c} : calls'[d] = calls[d]
  BY <1>1, ServerTypes, OneCallOnly, CallsAre
<1>3. UNCHANGED <<rows, held, page>> /\ (faulty => faulty') /\ (misread => misread')
  <2>1. CASE Finds(c)
    BY <2>1 DEF Finds
  <2>2. CASE Serve(c) \/ Admits(c) \/ SignInFails(c) \/ Denies(c) \/ IssueFails(c)
    BY <2>2 DEF Serve, Admits, SignInFails, Denies, IssueFails
  <2> QED BY <2>1, <2>2
<1>4. /\ calls'[c].phase \in {"ok", "unauthorized", "signing", "failed", "refused"}
      /\ calls'[c].phase = "ok" => calls'[c].kind = "data"
  <2>0. calls[c] \in CallTypes
    BY <1>2
  <2>1. CASE Serve(c)
    <3> DEFINE good == calls[c].sent # Absent /\ second < calls[c].sent + AccessTtl
               p == IF good THEN "ok" ELSE "unauthorized"
    <3>1. calls' = [calls EXCEPT ![c] = [@ EXCEPT !.sent = Absent, !.phase = p]]
          /\ calls[c].kind = "data"
      BY <2>1 DEF Serve
    <3>2. p \in {"ok", "unauthorized"}
      OBVIOUS
    <3> HIDE DEF p
    <3> QED BY <1>2, <2>0, <3>1, <3>2 DEF CallTypes
  <2>2. CASE Denies(c)
    <3>1. CASE calls' = [calls EXCEPT ![c] = [@ EXCEPT !.phase = "unauthorized", !.sent = Absent]]
      BY <1>2, <2>0, <3>1 DEF CallTypes
    <3>2. CASE Fails(c, "sent")
      BY <1>2, <3>2, FreeTypes DEF Fails, CallTypes
    <3> QED BY <2>2, <3>1, <3>2 DEF Denies
  <2>3. CASE IssueFails(c)
    BY <1>2, <2>0, <2>3 DEF IssueFails, Refused, CallTypes
  <2>4. CASE calls'[c].phase = "refused"
    BY <2>4
  <2>5. CASE Admits(c)
    BY <1>2, <2>0, <2>5 DEF Admits, CallTypes
  <2>6. CASE SignInFails(c)
    BY <1>2, <2>6, FreeTypes DEF SignInFails, Fails, CallTypes
  <2> QED BY <2>1, <2>2, <2>3, <2>4, <2>5, <2>6
<1>5. ~Bears(c)' /\ calls'[c].phase \notin Refreshing
  BY <1>4 DEF Bears, Refreshing
<1>6. ~misread' /\ ~faulty' => ~Renewing(c)
  BY DEF Serve, Admits, SignInFails, Denies, IssueFails, Finds, Fails, Refused, Renewing
<1> QED BY <1>2, <1>3, <1>5, <1>6, QuietCall

\* The page takes the pair it held for the call's refresh.
LEMMA StepRefreshes ==
  ASSUME AllInv, SessionTypeOK', NEW c \in Call, Refreshes(c) PROVE AllInv'
<1>1. Page(c) /\ SessionTypeOK
  BY DEF Page, AllInv
<1>2. calls \in [Call -> CallTypes] /\ \A d \in Call \ {c} : calls'[d] = calls[d]
  BY <1>1, PageTypes, OneCallOnly, CallsAre
<1>3. /\ calls[c].phase = "unauthorized" /\ calls[c].mine /\ held # Absent
      /\ calls'[c].phase = "find" /\ calls'[c].shown = held /\ calls'[c].mine
      /\ UNCHANGED <<misread, rows, held, page, faulty>>
  BY <1>2 DEF Refreshes, MayRefresh, CallTypes
<1>4. /\ ~Bears(c) /\ ~Bears(c)' /\ Shows(c)' /\ ~Renewing(c)
      /\ \A d \in Call \ {c} : /\ (Bears(d)' <=> Bears(d)) /\ (Shows(d)' <=> Shows(d))
                               /\ (Renewing(d)' <=> Renewing(d))
  BY <1>2, <1>3 DEF Bears, Shows, Renewing
<1>5. /\ Tokens' = Tokens /\ LiveTokens' = LiveTokens /\ (DistinctTokens' <=> DistinctTokens)
  BY <1>3 DEF Tokens, LiveTokens, DistinctTokens
<1>6. KnownInv'
  BY <1>2, <1>3, <1>4, <1>5 DEF AllInv, KnownInv
<1>7. HoldInv'
  <2>1. SUFFICES ASSUME DistinctTokens, NEW d \in Call, Bears(d)'
                 PROVE  /\ calls'[d].answer \in LiveTokens' /\ calls'[d].answer # held'
                        /\ \A e \in Call :
                             /\ Shows(e)' => calls'[e].shown # calls'[d].answer
                             /\ Bears(e)' /\ e # d => calls'[e].answer # calls'[d].answer
    BY <1>5 DEF HoldInv
  <2>2. d # c /\ Bears(d) /\ calls'[d] = calls[d]
    BY <1>2, <1>4, <2>1
  <2> QED BY <1>2, <1>3, <1>4, <1>5, <2>1, <2>2 DEF AllInv, HoldInv
<1>8. HeardInv'
  BY <1>2, <1>3 DEF AllInv, HeardInv
<1>9. LiveInv'
  BY <1>2, <1>3, <1>4, <1>5 DEF AllInv, LiveInv
<1> QED BY <1>6, <1>7, <1>8, <1>9 DEF AllInv

\* The page stores the pair a call brings, of a refresh or a sign-in: it is a
\* live one, and of no other call.
LEMMA StoresPair ==
  ASSUME AllInv, SessionTypeOK', NEW c \in Call, Bears(c),
         \A d \in Call \ {c} : calls'[d] = calls[d],
         UNCHANGED <<rows, faulty>>, held' = calls[c].answer,
         calls'[c].phase \in {"free", "sent"}
  PROVE  AllInv'
<1>1. /\ ~Bears(c)' /\ ~Shows(c)' /\ calls'[c].phase \notin Refreshing
      /\ \A d \in Call \ {c} : /\ (Bears(d)' <=> Bears(d)) /\ (Shows(d)' <=> Shows(d))
                               /\ (Renewing(d)' <=> Renewing(d))
  BY DEF Bears, Shows, Renewing, Refreshing
<1>2. /\ Tokens' = Tokens /\ LiveTokens' = LiveTokens /\ (DistinctTokens' <=> DistinctTokens)
  BY DEF Tokens, LiveTokens, DistinctTokens
<1>3. held' \in Tokens /\ held' # Absent
  BY AbsentIsNoSecond, TokensAreSeconds DEF AllInv, KnownInv
<1>4. KnownInv'
  BY <1>1, <1>2, <1>3 DEF AllInv, KnownInv, Refreshing
<1>5. HoldInv'
  <2>1. SUFFICES ASSUME DistinctTokens, NEW d \in Call, Bears(d)'
                 PROVE  /\ calls'[d].answer \in LiveTokens' /\ calls'[d].answer # held'
                        /\ \A e \in Call :
                             /\ Shows(e)' => calls'[e].shown # calls'[d].answer
                             /\ Bears(e)' /\ e # d => calls'[e].answer # calls'[d].answer
    BY <1>2 DEF HoldInv
  <2>2. d # c /\ Bears(d) /\ calls'[d] = calls[d]
    BY <1>1, <2>1
  <2> QED BY <1>1, <1>2, <2>1, <2>2 DEF AllInv, HoldInv
<1>6. HeardInv'
  BY <1>1 DEF AllInv, HeardInv
<1>7. LiveInv'
  BY <1>2 DEF AllInv, LiveInv, HoldInv
<1> QED BY <1>4, <1>5, <1>6, <1>7 DEF AllInv

LEMMA StepStores ==
  ASSUME AllInv, SessionTypeOK', NEW c \in Call, Resends(c) \/ Returns(c) PROVE AllInv'
<1>1. Page(c) /\ SessionTypeOK
  BY DEF Page, AllInv
<1>2. calls \in [Call -> CallTypes] /\ \A d \in Call \ {c} : calls'[d] = calls[d]
  BY <1>1, PageTypes, OneCallOnly, CallsAre
<1>3. CASE Resends(c)
  <2>1. /\ Bears(c) /\ UNCHANGED <<rows, faulty>> /\ held' = calls[c].answer
        /\ calls'[c].phase = "sent"
    BY <1>2, <1>3, FreeTypes DEF Resends, Bears, CallTypes
  <2> QED BY <1>2, <2>1, StoresPair
<1>4. CASE Returns(c) /\ calls[c].kind # "data"
  <2>1. /\ Bears(c) /\ UNCHANGED <<rows, faulty>> /\ held' = calls[c].answer
        /\ calls'[c].phase = "free"
    BY <1>2, <1>4, FreeTypes DEF Returns, Bears
  <2> QED BY <1>2, <2>1, StoresPair
<1>5. CASE Returns(c) /\ calls[c].kind = "data"
  <2>1. /\ UNCHANGED <<misread, rows, held, page, faulty>>
        /\ calls'[c].phase = "free" /\ ~Renewing(c)
    BY <1>2, <1>5, FreeTypes DEF Returns, Renewing
  <2>2. ~Bears(c)' /\ calls'[c].phase \notin Refreshing
    BY <2>1 DEF Bears, Refreshing
  <2> QED BY <1>2, <2>1, <2>2, QuietCall
<1> QED BY <1>3, <1>4, <1>5

\* The service issues a pair.  Its token, if no other second's, is of nobody
\* else: not held, not shown by a refresh, not in another answer.
LEMMA IssuesPair ==
  ASSUME AllInv, SessionTypeOK', NEW c \in Call,
         \A d \in Call \ {c} : calls'[d] = calls[d],
         UNCHANGED <<misread, held, page, faulty>>, rows' = Issued,
         calls'[c].phase \in {"ok", "granted"}, calls'[c].answer = second,
         calls'[c].mine = calls[c].mine, ~Bears(c),
         calls'[c].phase = "granted" <=> calls[c].phase = "issue"
  PROVE  AllInv'
<1>0. /\ Tokens' = Tokens \cup {second} /\ LiveTokens' = LiveTokens \cup {second}
      /\ DistinctTokens' => DistinctTokens /\ second \notin Tokens
      /\ \A i \in DOMAIN rows : i \in DOMAIN rows' /\ rows'[i] = rows[i]
      /\ second # Absent
  BY AppendRows, AbsentIsNoSecond DEF AllInv, SessionTypeOK
<1>1. /\ ~Shows(c)' /\ calls'[c].phase # "revoke" /\ (Renewing(c) => Renewing(c)')
      /\ \A d \in Call \ {c} : /\ (Bears(d)' <=> Bears(d)) /\ (Shows(d)' <=> Shows(d))
                               /\ (Renewing(d)' <=> Renewing(d))
  BY DEF Bears, Shows, Renewing
<1>2. KnownInv'
  BY <1>0, <1>1 DEF AllInv, KnownInv
<1>3. HoldInv'
  <2>1. SUFFICES ASSUME DistinctTokens', NEW d \in Call, Bears(d)'
                 PROVE  /\ calls'[d].answer \in LiveTokens' /\ calls'[d].answer # held'
                        /\ \A e \in Call :
                             /\ Shows(e)' => calls'[e].shown # calls'[d].answer
                             /\ Bears(e)' /\ e # d => calls'[e].answer # calls'[d].answer
    BY DEF HoldInv
  <2>2. DistinctTokens /\ second \notin Tokens /\ held # second
    BY <1>0, <2>1 DEF AllInv, KnownInv
  <2>3. \A e \in Call \ {c} : /\ Shows(e)' => calls'[e].shown # second
                              /\ Bears(e)' => calls'[e].answer # second
    BY <1>1, <2>2 DEF AllInv, KnownInv
  <2>4. CASE d = c
    BY <1>0, <1>1, <2>2, <2>3, <2>4
  <2>5. CASE d # c
    <3>1. Bears(d) /\ calls'[d] = calls[d]
      BY <1>1, <2>1, <2>5
    <3> QED BY <1>0, <1>1, <2>1, <2>2, <2>3, <3>1 DEF AllInv, HoldInv
  <2> QED BY <2>4, <2>5
<1>4. HeardInv'
  BY DEF AllInv, HeardInv, Refreshing
<1>5. LiveInv'
  BY <1>0, <1>1 DEF AllInv, LiveInv
<1> QED BY <1>2, <1>3, <1>4, <1>5 DEF AllInv

LEMMA StepIssues ==
  ASSUME AllInv, SessionTypeOK', NEW c \in Call, SignsIn(c) \/ Issues(c) PROVE AllInv'
<1>1. Server(c) /\ SessionTypeOK
  BY DEF Server, AllInv
<1>2. calls \in [Call -> CallTypes] /\ \A d \in Call \ {c} : calls'[d] = calls[d]
  BY <1>1, ServerTypes, OneCallOnly, CallsAre
<1>3. /\ UNCHANGED <<misread, held, page, faulty>> /\ rows' = Issued
      /\ calls'[c].phase \in {"ok", "granted"} /\ calls'[c].answer = second
      /\ calls'[c].mine = calls[c].mine /\ ~Bears(c)
      /\ calls'[c].phase = "granted" <=> calls[c].phase = "issue"
  <2>1. CASE SignsIn(c)
    BY <1>2, <2>1 DEF SignsIn, Bears, CallTypes
  <2>2. CASE Issues(c)
    BY <1>2, <2>2 DEF Issues, Bears, CallTypes
  <2> QED BY <2>1, <2>2
<1> QED BY <1>2, <1>3, IssuesPair

\* The service finds a live row of the token the refresh shows.
LEMMA StepFinds ==
  ASSUME AllInv, SessionTypeOK', NEW c \in Call, Finds(c) PROVE AllInv'
<1>0. Server(c) /\ SessionTypeOK
  BY DEF Server, AllInv
<1>1. calls \in [Call -> CallTypes] /\ \A d \in Call \ {c} : calls'[d] = calls[d]
  BY <1>0, ServerTypes, OneCallOnly, CallsAre
<1>2. CASE Refused(c, "find")
  <2>1. calls'[c].phase = "refused"
    BY <1>1, <1>2 DEF Refused, CallTypes
  <2> QED BY <2>1, AnswersQuietly
<1>3. CASE ~Refused(c, "find")
  <2>0. PICK i \in LiveRows(calls[c].shown) :
          /\ calls[c].phase = "find"
          /\ calls' = [calls EXCEPT ![c] = [@ EXCEPT !.phase = "revoke", !.row = i]]
    BY <1>3 DEF Finds
  <2>1. /\ calls[c].phase = "find" /\ calls'[c].phase = "revoke" /\ calls'[c].shown = calls[c].shown
        /\ calls'[c].row = i /\ calls'[c].mine = calls[c].mine
        /\ i \in DOMAIN rows /\ rows[i].token = calls[c].shown
    BY <1>1, <2>0 DEF LiveRows, CallTypes
  <2>2. UNCHANGED <<misread, rows, held, page, faulty>>
    BY DEF Finds
  <2>3. /\ ~Bears(c) /\ ~Bears(c)' /\ Shows(c) /\ Shows(c)' /\ ~Renewing(c)
        /\ \A d \in Call \ {c} : /\ (Bears(d)' <=> Bears(d)) /\ (Shows(d)' <=> Shows(d))
                                 /\ (Renewing(d)' <=> Renewing(d))
    BY <1>1, <2>1 DEF Bears, Shows, Renewing
  <2>4. Tokens' = Tokens /\ LiveTokens' = LiveTokens /\ (DistinctTokens' <=> DistinctTokens)
    BY <2>2 DEF Tokens, LiveTokens, DistinctTokens
  <2>5. KnownInv'
    BY <1>1, <2>1, <2>2, <2>3, <2>4 DEF AllInv, KnownInv
  <2>6. HoldInv'
    <3>1. SUFFICES ASSUME DistinctTokens, NEW d \in Call, Bears(d)'
                   PROVE  /\ calls'[d].answer \in LiveTokens' /\ calls'[d].answer # held'
                          /\ \A e \in Call :
                               /\ Shows(e)' => calls'[e].shown # calls'[d].answer
                               /\ Bears(e)' /\ e # d => calls'[e].answer # calls'[d].answer
      BY <2>4 DEF HoldInv
    <3>2. d # c /\ Bears(d) /\ calls'[d] = calls[d]
      BY <1>1, <2>3, <3>1
    <3> QED BY <1>1, <2>1, <2>2, <2>3, <2>4, <3>1, <3>2 DEF AllInv, HoldInv
  <2>7. HeardInv'
    BY <1>1, <2>1, <2>2 DEF AllInv, HeardInv, Refreshing
  <2>8. LiveInv'
    BY <2>2, <2>3, <2>4 DEF AllInv, LiveInv
  <2> QED BY <2>5, <2>6, <2>7, <2>8 DEF AllInv
<1> QED BY <1>2, <1>3

\* The row is revoked: the page may hold its token, but then the call that
\* revoked it is the page's own and brings the next.
LEMMA StepRevokes ==
  ASSUME AllInv, SessionTypeOK', NEW c \in Call, Revokes(c) PROVE AllInv'
<1>0. Server(c) /\ SessionTypeOK
  BY DEF Server, AllInv
<1>1. calls \in [Call -> CallTypes] /\ \A d \in Call \ {c} : calls'[d] = calls[d]
  BY <1>0, ServerTypes, OneCallOnly, CallsAre
<1>2. /\ calls[c].phase = "revoke" /\ calls'[c].phase = "issue" /\ calls'[c].mine = calls[c].mine
      /\ rows' = [rows EXCEPT ![calls[c].row].live = FALSE]
      /\ UNCHANGED <<misread, held, page, faulty>>
  BY <1>1 DEF Revokes, CallTypes
<1>3. calls[c].row \in DOMAIN rows /\ rows[calls[c].row].token = calls[c].shown /\ Shows(c)
  BY <1>2 DEF AllInv, KnownInv, Shows
<1>4. /\ Tokens' = Tokens /\ LiveTokens \ {calls[c].shown} \subseteq LiveTokens'
      /\ DistinctTokens' => DistinctTokens
      /\ DOMAIN rows' = DOMAIN rows /\ \A i \in DOMAIN rows : rows'[i].token = rows[i].token
  BY <1>0, <1>2, <1>3, RevokeRow
<1>5. /\ ~Bears(c)' /\ ~Shows(c)' /\ ~Renewing(c)
      /\ \A d \in Call \ {c} : /\ (Bears(d)' <=> Bears(d)) /\ (Shows(d)' <=> Shows(d))
                               /\ (Renewing(d)' <=> Renewing(d))
  BY <1>1, <1>2 DEF Bears, Shows, Renewing
<1>6. KnownInv'
  BY <1>1, <1>2, <1>4, <1>5 DEF AllInv, KnownInv
<1>7. HoldInv'
  <2>1. SUFFICES ASSUME DistinctTokens, NEW d \in Call, Bears(d)'
                 PROVE  /\ calls'[d].answer \in LiveTokens' /\ calls'[d].answer # held'
                        /\ \A e \in Call :
                             /\ Shows(e)' => calls'[e].shown # calls'[d].answer
                             /\ Bears(e)' /\ e # d => calls'[e].answer # calls'[d].answer
    BY <1>4 DEF HoldInv
  <2>2. d # c /\ Bears(d) /\ calls'[d] = calls[d]
    BY <1>1, <1>5, <2>1
  <2>3. calls[d].answer \in LiveTokens /\ calls[c].shown # calls[d].answer
    BY <1>3, <2>1, <2>2 DEF AllInv, HoldInv
  <2> QED BY <1>1, <1>2, <1>4, <1>5, <2>1, <2>2, <2>3 DEF AllInv, HoldInv
<1>8. HeardInv'
  BY <1>1, <1>2 DEF AllInv, HeardInv, Refreshing
<1>9. LiveInv'
  <2>1. SUFFICES ASSUME ~misread, ~faulty, DistinctTokens, held # Absent, held \notin LiveTokens'
                 PROVE  \E d \in Call : Renewing(d)'
    BY <1>2, <1>4 DEF LiveInv
  <2>2. CASE held = calls[c].shown
    <3>1. calls[c].mine
      BY <1>2, <2>1 DEF AllInv, HeardInv, Refreshing
    <3> QED BY <1>2, <3>1 DEF Renewing
  <2>3. CASE held # calls[c].shown
    <3>1. held \notin LiveTokens
      BY <1>4, <2>1, <2>3
    <3>2. PICK d \in Call : Renewing(d)
      BY <2>1, <3>1 DEF AllInv, LiveInv
    <3> QED BY <1>5, <3>2
  <2> QED BY <2>2, <2>3
<1> QED BY <1>6, <1>7, <1>8, <1>9 DEF AllInv

LEMMA StepSignOut == ASSUME AllInv, SessionTypeOK', SignOut PROVE AllInv'
<1>1. /\ Tokens' = Tokens /\ LiveTokens' = LiveTokens /\ (DistinctTokens' <=> DistinctTokens)
      /\ UNCHANGED <<misread, rows, calls, faulty>> /\ held' = Absent /\ page' = "auth"
  BY DEF SignOut, Tokens, LiveTokens, DistinctTokens
<1>2. \A c \in Call : (Bears(c)' <=> Bears(c)) /\ (Shows(c)' <=> Shows(c))
  BY <1>1 DEF Bears, Shows
<1>3. \A c \in Call : Bears(c) => calls[c].answer # Absent
  BY AbsentIsNoSecond, TokensAreSeconds DEF AllInv, KnownInv
<1>4. KnownInv'
  BY <1>1, <1>2 DEF AllInv, KnownInv
<1>5. HoldInv'
  BY <1>1, <1>2, <1>3 DEF AllInv, HoldInv
<1>6. HeardInv' /\ LiveInv'
  BY <1>1 DEF AllInv, HeardInv, LiveInv
<1> QED BY <1>4, <1>5, <1>6 DEF AllInv

\* A refresh whose page is gone counts as an answer lost.
LEMMA StepReload == ASSUME AllInv, SessionTypeOK', Reload PROVE AllInv'
<1>1. /\ Tokens' = Tokens /\ LiveTokens' = LiveTokens /\ (DistinctTokens' <=> DistinctTokens)
      /\ UNCHANGED <<misread, rows, held>> /\ page' = IF held = Absent THEN "auth" ELSE "app"
      /\ (faulty' <=> (faulty \/ \E c \in Call : calls[c].phase \in Refreshing))
  BY DEF Reload, Tokens, LiveTokens, DistinctTokens
<1>2. calls \in [Call -> CallTypes]
  BY CallsAre DEF AllInv
<1>3. \A c \in Call : \/ calls'[c].phase = "free"
                      \/ /\ calls'[c].phase = calls[c].phase /\ calls'[c].kind = calls[c].kind
                         /\ calls'[c].shown = calls[c].shown /\ calls'[c].answer = calls[c].answer
                         /\ calls'[c].row = calls[c].row
  <2> SUFFICES ASSUME NEW c \in Call
               PROVE  \/ calls'[c].phase = "free"
                      \/ /\ calls'[c].phase = calls[c].phase /\ calls'[c].kind = calls[c].kind
                         /\ calls'[c].shown = calls[c].shown /\ calls'[c].answer = calls[c].answer
                         /\ calls'[c].row = calls[c].row
    OBVIOUS
  <2>1. calls'[c] = [calls[c] EXCEPT !.mine = FALSE] \/ calls'[c] = Free
    BY DEF Reload
  <2>2. calls[c] \in CallTypes
    BY <1>2
  <2> QED BY <2>1, <2>2, FreeTypes DEF CallTypes
<1>4. \A c \in Call : (Bears(c)' => Bears(c)) /\ (Shows(c)' => Shows(c))
  BY <1>3 DEF Bears, Shows
<1>5. KnownInv'
  BY <1>1, <1>3, <1>4 DEF AllInv, KnownInv, Bears, Shows
<1>6. HoldInv'
  BY <1>1, <1>3, <1>4 DEF AllInv, HoldInv, Bears, Shows
<1>7. HeardInv'
  BY <1>1, <1>3 DEF AllInv, HeardInv, Refreshing
<1>8. LiveInv'
  BY <1>1 DEF AllInv, LiveInv, Renewing, Refreshing
<1> QED BY <1>5, <1>6, <1>7, <1>8 DEF AllInv

LEMMA StepIdle == ASSUME AllInv, SessionTypeOK', Tick \/ UNCHANGED vars PROVE AllInv'
<1>1. /\ Tokens' = Tokens /\ LiveTokens' = LiveTokens /\ (DistinctTokens' <=> DistinctTokens)
      /\ UNCHANGED <<misread, rows, held, page, calls, faulty>>
  BY DEF Tick, vars, Tokens, LiveTokens, DistinctTokens
<1>2. KnownInv' /\ HoldInv' /\ HeardInv' /\ LiveInv'
  BY <1>1 DEF AllInv, KnownInv, HoldInv, HeardInv, LiveInv, Bears, Shows, Renewing
<1> QED BY <1>2 DEF AllInv

LEMMA StepAll == AllInv /\ [Next]_vars => AllInv'
<1> SUFFICES ASSUME AllInv, [Next]_vars PROVE AllInv'
  OBVIOUS
<1>0. SessionTypeOK'
  BY TypesNext DEF AllInv
<1>1. ASSUME NEW c \in Call, Page(c) PROVE AllInv'
  BY <1>0, <1>1, EndsQuietly, StepRefreshes, StepStores DEF Page
<1>2. ASSUME NEW c \in Call, Server(c) PROVE AllInv'
  BY <1>0, <1>2, AnswersQuietly, StepIssues, StepFinds, StepRevokes DEF Server
<1> QED BY <1>0, <1>1, <1>2, StepSignOut, StepReload, StepIdle DEF Next

-----------------------------------------------------------------------------
(* The results.                                                            *)

\* The inductive invariant of the session: every token about was issued, a
\* pair on its way is live and nobody else's, refreshes under way are heard,
\* and the page's pair is live or being renewed.
THEOREM SessionInvHolds == Spec => []AllInv
BY InitAll, StepAll, PTL DEF Spec

\* Types of the session's state (api.ts, auth.service.ts).
THEOREM SessionTypes == Spec => []SessionTypeOK
<1>1. AllInv => SessionTypeOK
  BY DEF AllInv
<1> QED BY <1>1, SessionInvHolds, PTL

\* Whatever overlapping refreshes do, the page that is signed in can renew
\* its session as long as no answer is lost, it could read the pair of its
\* last refresh -- of this service, whose answers are flat, it never can --
\* and no two tokens are of one second (auth.service.ts:53-79 revokes one
\* row, of the token shown; api.ts:59 stores each answer once).
THEOREM SignedInSurvives == Spec => []SessionSurvives
<1>1. AllInv => SessionSurvives
  BY LiveRowsOf DEF AllInv, KnownInv, LiveInv, SessionSurvives, Renewable
<1> QED BY <1>1, SessionInvHolds, PTL

=============================================================================
