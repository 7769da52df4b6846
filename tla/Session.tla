------------------------------ MODULE Session ------------------------------
(***************************************************************************)
(* A signed-in session: the page's API client (api.ts, AuthScreen.tsx,     *)
(* App.tsx) and the auth service (auth.service.ts) with its table of       *)
(* refresh tokens.  Calls of one page overlap; each may find its access    *)
(* token expired and refresh the session; the service's refresh awaits     *)
(* between finding the row, revoking it and writing the next.              *)
(*                                                                         *)
(* A token is the second it was issued in: its payload (auth.service.ts    *)
(* 97) is the user, and a JWT's iat and exp are whole seconds, so two      *)
(* tokens of one second are the same string.                               *)
(***************************************************************************)
EXTENDS Integers, Sequences

CONSTANTS
  Call,         \* bound: requests of the page in flight
  Shapes,       \* shapes of POST /auth/refresh's answer: auth.service.ts:117
                \* returns "flat", api.ts:78 reads "nested" ones
  MaxSecond,    \* bound: the last second
  MaxRows,      \* bound: no sign-in once there are so many rows
  AccessTtl, RefreshTtl

ASSUME SessionAssumption ==
  /\ Shapes \subseteq {"flat", "nested"} /\ Shapes # {}
  /\ MaxSecond \in Nat /\ AccessTtl \in Nat \ {0} /\ RefreshTtl \in Nat \ {0}

VARIABLES
  second, shape,
  misread,      \* since it stored its pair, has the page failed to read one?
  known,        \* does the account exist?
  rows,         \* refresh_tokens: the token, and whether it is not revoked
  held,         \* the pair the page holds, in memory and localStorage
  page,         \* "auth" or "app"
  calls,
  faulty        \* has an answer been lost, or a write failed?

vars == <<second, shape, misread, known, rows, held, page, calls, faulty>>

Absent == -1
Second == 0 .. MaxSecond
Free == [phase |-> "free", kind |-> "data", retry |-> FALSE, sent |-> Absent,
         shown |-> Absent, row |-> 0, answer |-> Absent, granted |-> FALSE, mine |-> TRUE]

SessionTypeOK ==
  /\ second \in Second /\ shape \in Shapes /\ misread \in BOOLEAN /\ known \in BOOLEAN /\ faulty \in BOOLEAN
  /\ rows \in Seq([token : Second, live : BOOLEAN])
  /\ held \in Second \cup {Absent} /\ page \in {"auth", "app"}
  /\ calls \in [Call -> [phase : {"free", "sent", "ok", "unauthorized", "find", "revoke",
                                  "signing", "issue", "granted", "refused", "failed"},
                         kind : {"data", "login", "register"}, retry : BOOLEAN,
                         sent : Second \cup {Absent}, shown : Second \cup {Absent},
                         row : Nat, answer : Second \cup {Absent},
                         granted : BOOLEAN, mine : BOOLEAN]]

Init ==
  /\ second = 0 /\ shape \in Shapes /\ misread = FALSE /\ known = FALSE /\ faulty = FALSE
  /\ rows = <<>> /\ held = Absent /\ page = "auth" /\ calls = [c \in Call |-> Free]

Fails(c, from) ==
  /\ calls[c].phase = from
  /\ calls' = [calls EXCEPT ![c] = [Free EXCEPT !.phase = "failed", !.granted = calls[c].granted]]
\* A refresh is over: tryRefresh() gives false.
Refused(c, from) ==
  /\ calls[c].phase = from
  /\ calls' = [calls EXCEPT ![c] = [@ EXCEPT !.phase = "refused", !.shown = Absent,
                                              !.answer = Absent]]
Idle(c) == calls[c].mine /\ calls[c].phase \in {"free", "failed"}
Issued == Append(rows, [token |-> second, live |-> TRUE])

Refreshing == {"find", "revoke", "issue", "granted"}

-----------------------------------------------------------------------------
(* The page.                                                               *)

\* request(): any call of the application, or one of the sign-in screen's,
\* whose button is disabled while it is busy.
Send(c, kind) ==
  /\ Idle(c) /\ (kind = "data") = (page = "app")
  /\ kind # "data" => \A d \in Call : calls[d].phase = "free" \/ calls[d].kind = "data" \/ Idle(d)
  /\ kind # "data" => Len(rows) < MaxRows
  /\ calls' = [calls EXCEPT ![c] = [Free EXCEPT !.phase = "sent", !.kind = kind,
                                                 !.retry = TRUE, !.sent = held]]
  /\ UNCHANGED <<second, shape, misread, known, rows, held, page, faulty>>

\* A 401 is refreshed once, with the token the client holds by then.
MayRefresh(c) == calls[c].retry /\ held # Absent

Refreshes(c) ==
  /\ calls[c].phase = "unauthorized" /\ calls[c].mine /\ MayRefresh(c)
  /\ calls' = [calls EXCEPT ![c] = [@ EXCEPT !.phase = "find", !.shown = held]]
  /\ UNCHANGED <<second, shape, misread, known, rows, held, page, faulty>>

Rejects(c) ==
  /\ calls[c].mine /\ ~MayRefresh(c) /\ Fails(c, "unauthorized")
  /\ UNCHANGED <<second, shape, misread, known, rows, held, page, faulty>>

\* tryRefresh() stores the pair and the call is sent again; reading tokens of
\* a flat answer throws inside the try, and the call ends with its 401.
Resends(c) ==
  /\ calls[c].phase = "granted" /\ calls[c].mine /\ shape = "nested"
  /\ held' = calls[c].answer /\ misread' = FALSE
  /\ calls' = [calls EXCEPT ![c] = [Free EXCEPT !.phase = "sent", !.kind = calls[c].kind,
                                                 !.sent = held', !.granted = TRUE]]
  /\ UNCHANGED <<second, shape, known, rows, page, faulty>>

Misreads(c) ==
  /\ calls[c].mine /\ shape = "flat" /\ Fails(c, "granted") /\ misread' = TRUE
  /\ UNCHANGED <<second, shape, known, rows, held, page, faulty>>

\* Mutant: a refused refresh is tried again until the token is good.
AsksAgain(c) ==
  /\ calls[c].mine /\ calls[c].phase = "refused"
  /\ calls' = [calls EXCEPT ![c] = [@ EXCEPT !.phase = "find", !.shown = held]]
  /\ UNCHANGED <<second, shape, misread, known, rows, held, page, faulty>>

GivesUp(c) ==
  /\ calls[c].mine /\ Fails(c, "refused")
  /\ UNCHANGED <<second, shape, misread, known, rows, held, page, faulty>>

\* A sign-in stores its pair (toSession reads the flat answer) and opens the
\* application; the other calls deliver their data.
Returns(c) ==
  /\ calls[c].phase = "ok" /\ calls[c].mine
  /\ IF calls[c].kind = "data" THEN UNCHANGED <<held, page, misread>>
     ELSE held' = calls[c].answer /\ page' = "app" /\ misread' = FALSE
  /\ calls' = [calls EXCEPT ![c] = Free]
  /\ UNCHANGED <<second, shape, known, rows, faulty>>

\* The sign-out button forgets the pair; calls in flight go on, and the
\* service is not told.
SignOut ==
  /\ page = "app" /\ page' = "auth" /\ held' = Absent
  /\ UNCHANGED <<second, shape, misread, known, rows, calls, faulty>>

\* The new page starts from localStorage; the old one's sign-in or refresh
\* goes on at the server and nobody hears the answer.
Reload ==
  /\ page' = IF held = Absent THEN "auth" ELSE "app"
  /\ calls' = [c \in Call |-> IF calls[c].kind # "data" \/ calls[c].phase \in Refreshing
                           THEN [calls[c] EXCEPT !.mine = FALSE] ELSE Free]
  /\ faulty' = (faulty \/ \E c \in Call : calls[c].phase \in Refreshing)
  /\ UNCHANGED <<second, shape, misread, known, rows, held>>

Unheard(c) ==
  /\ ~calls[c].mine /\ calls[c].phase \in {"ok", "unauthorized", "granted", "refused", "failed"}
  /\ calls' = [calls EXCEPT ![c] = Free]
  /\ UNCHANGED <<second, shape, misread, known, rows, held, page, faulty>>

\* fetch rejects: the request or its answer is lost, and the call throws; a
\* refresh that fails so is caught and counts as refused.
Lose(c) ==
  /\ \/ Fails(c, "sent") \/ Fails(c, "ok")
     \/ Refused(c, "find") \/ Refused(c, "granted")
  /\ calls[c].mine /\ faulty' = TRUE
  /\ UNCHANGED <<second, shape, misread, known, rows, held, page>>

Page(c) ==
  \/ \E kind \in {"data", "login", "register"} : Send(c, kind)
  \/ Refreshes(c) \/ Rejects(c) \/ Resends(c) \/ Misreads(c) \/ GivesUp(c) \/ Returns(c)
  \/ Unheard(c) \/ Lose(c)

-----------------------------------------------------------------------------
(* The service.                                                            *)

\* JwtStrategy: an access token is good until it expires.
Serve(c) ==
  /\ calls[c].phase = "sent" /\ calls[c].kind = "data"
  /\ calls' = [calls EXCEPT ![c] = [@ EXCEPT !.sent = Absent, !.phase =
       IF calls[c].sent # Absent /\ second < calls[c].sent + AccessTtl THEN "ok" ELSE "unauthorized"]]
  /\ UNCHANGED <<second, shape, misread, known, rows, held, page, faulty>>

\* login finds the account, register creates it ...
Admits(c) ==
  /\ calls[c].kind = IF known THEN "login" ELSE "register"
  /\ calls[c].phase = "sent" /\ known' = TRUE
  /\ calls' = [calls EXCEPT ![c] = [@ EXCEPT !.phase = "signing", !.sent = Absent]]
  /\ UNCHANGED <<second, shape, misread, rows, held, page, faulty>>

\* ... and the first pair is issued, or a 500 leaves an account without one.
SignsIn(c) ==
  /\ calls[c].phase = "signing" /\ rows' = Issued
  /\ calls' = [calls EXCEPT ![c] = [@ EXCEPT !.phase = "ok", !.answer = second]]
  /\ UNCHANGED <<second, shape, misread, known, held, page, faulty>>

SignInFails(c) ==
  /\ Fails(c, "signing")
  /\ UNCHANGED <<second, shape, misread, known, rows, held, page, faulty>>

\* The password may be wrong, the address taken.
Denies(c) ==
  /\ \/ calls[c].kind = "login" /\ calls[c].phase = "sent"
          /\ calls' = [calls EXCEPT ![c] = [@ EXCEPT !.phase = "unauthorized", !.sent = Absent]]
     \/ calls[c].kind = "register" /\ known /\ Fails(c, "sent")
  /\ UNCHANGED <<second, shape, misread, known, rows, held, page, faulty>>

LiveRows(token) == {i \in DOMAIN rows : rows[i].live /\ rows[i].token = token}

\* refresh(): verify the token and find a row of it that is not revoked, no
\* matter which ...
Finds(c) ==
  /\ IF second < calls[c].shown + RefreshTtl /\ LiveRows(calls[c].shown) # {}
     THEN \E i \in LiveRows(calls[c].shown) :
            /\ calls[c].phase = "find"
            /\ calls' = [calls EXCEPT ![c] = [@ EXCEPT !.phase = "revoke", !.row = i]]
     ELSE Refused(c, "find")
  /\ UNCHANGED <<second, shape, misread, known, rows, held, page, faulty>>

\* Mutant: every row of the user is revoked, not the one that was found.
RevokesAll(c) ==
  /\ rows' = [i \in DOMAIN rows |-> [rows[i] EXCEPT !.live = FALSE]]
  /\ calls[c].phase = "revoke"
  /\ calls' = [calls EXCEPT ![c] = [@ EXCEPT !.phase = "issue", !.shown = Absent, !.row = 0]]
  /\ UNCHANGED <<second, shape, misread, known, held, page, faulty>>

\* ... revoke that row ...
Revokes(c) ==
  /\ calls[c].phase = "revoke" /\ rows' = [rows EXCEPT ![calls[c].row].live = FALSE]
  /\ calls' = [calls EXCEPT ![c] = [@ EXCEPT !.phase = "issue", !.shown = Absent, !.row = 0]]
  /\ UNCHANGED <<second, shape, misread, known, held, page, faulty>>

\* ... and issue the next pair.
Issues(c) ==
  /\ calls[c].phase = "issue" /\ rows' = Issued
  /\ calls' = [calls EXCEPT ![c] = [@ EXCEPT !.phase = "granted", !.answer = second, !.granted = TRUE]]
  /\ UNCHANGED <<second, shape, misread, known, held, page, faulty>>

\* Reading the user or writing the row fails: a 500, the old row is revoked.
IssueFails(c) ==
  /\ Refused(c, "issue") /\ faulty' = TRUE
  /\ UNCHANGED <<second, shape, misread, known, rows, held, page>>

Server(c) ==
  \/ Serve(c) \/ Admits(c) \/ SignsIn(c) \/ SignInFails(c) \/ Denies(c)
  \/ Finds(c) \/ Revokes(c) \/ Issues(c) \/ IssueFails(c)

Tick ==
  /\ second < MaxSecond /\ second' = second + 1
  /\ UNCHANGED <<shape, misread, known, rows, held, page, calls, faulty>>

Next == (\E c \in Call : Page(c) \/ Server(c)) \/ SignOut \/ Reload \/ Tick

Spec == Init /\ [][Next]_vars

\* The server answers, and a continuation that is due runs.
Progress(c) ==
  \/ Refreshes(c) \/ Rejects(c) \/ Resends(c) \/ Misreads(c) \/ GivesUp(c) \/ Returns(c)
  \/ Unheard(c) \/ Server(c)
FairSpec == Spec /\ \A c \in Call : WF_vars(Progress(c))

-----------------------------------------------------------------------------
(* Properties.                                                             *)

Renewable == LiveRows(held) # {}
Renewing(c) == calls[c].mine /\ calls[c].phase \in {"issue", "granted"}

\* Issued in one second, two tokens are one: refreshing either revokes one row.
DistinctTokens == \A i, j \in DOMAIN rows : rows[i].token = rows[j].token => i = j

\* Overlapping refreshes never sign a page out among themselves: one that is
\* signed in and can no longer renew its session -- the refresh token it
\* holds has no row left, and no call is about to bring the next -- has lost
\* an answer, or could not read the pair of its last refresh, which the flat
\* answers of this service make the end of each one (RefreshIsTransparent).
\* It takes tokens of different seconds (auth.service.ts refresh; api.ts
\* tryRefresh).
SessionSurvives ==
  page = "app" /\ ~Renewable /\ (\A c \in Call : ~Renewing(c)) /\ DistinctTokens =>
    faulty \/ misread

\* No call stays under way: a sign-in or data call ends, with one refresh at
\* most; nothing the service answers to the refresh keeps it going round.
CallsEnd == \A c \in Call : []<>(calls[c].phase \in {"free", "failed"})

\* api.ts:24: the client "transparently refreshes an expired access token
\* once per request before failing": a call the service granted a new pair
\* does not fail with its old 401 (where nothing was lost).
RefreshIsTransparent ==
  \A c \in Call : calls[c].granted /\ calls[c].phase = "failed" => faulty
=============================================================================
