---------------------------- MODULE ClientSession ----------------------------
(***************************************************************************)
(* The browser's side of a session: the interceptors of the frontend's     *)
(* HTTP clients, which renew the access token when a call is answered 401, *)
(* together with POST /auth/refresh of the identity service.  They look at *)
(* every call that is answered 401, the login form and the form for a new  *)
(* password included, whose 401 says nothing about the tokens.             *)
(*                                                                         *)
(* The tabs of a browser share localStorage, which holds the access and    *)
(* the refresh token; they are written and removed together, so a pair is  *)
(* one value here: the session it belongs to and its number.  Each tab is  *)
(* a page with one thread: what it does between two awaits is one step.    *)
(* The refresh of a tab is shared by all its calls (refreshPromise).       *)
(***************************************************************************)
EXTENDS Naturals, FiniteSets

CONSTANTS
    Tabs,
    Calls,          \* calls of the pages
    Forms,          \* those of POST /auth/login and /auth/reset-password; the others are
                    \* to protected routes
    TabOf,          \* the tab each call is made in
    MaxSessions,    \* bound: sessions the identity service opens
    None,
    MaxLapses,      \* bound: access tokens that lapse
    MaxMishaps      \* bound: renewals that come to nothing, see mishaps

ASSUME ClientAssumption ==
    /\ Forms \subseteq Calls
    /\ TabOf \in [Calls -> Tabs]
    /\ None \notin [session : Nat, number : Nat]
    /\ MaxSessions \in Nat
    /\ MaxLapses \in Nat
    /\ MaxMishaps \in Nat

VARIABLES
    stored,         \* localStorage: a pair of tokens, or None
    call,           \* where each call is, and with which pair
    refresh,        \* where the refresh of each tab is
    latest,         \* the number of the pair whose digest the row of each session holds;
                    \* the pairs of a session are numbered as they are issued
    ended,          \* the sessions that are revoked or past expires_at
    lapsed,         \* the pairs whose access token is past its expiry
    mishaps,        \* the answers to a refresh that never reached the page, and the
                    \* pairs that lapsed before the call was answered that they were for
    overlap,        \* history: two tabs were refreshing at the same time
    switched        \* history: somebody signed out or in while a refresh was under way, or
                    \* a call sent again

browser == <<stored, call, refresh>>
server == <<latest, ended>>
history == <<overlap, switched>>
vars == <<browser, server, lapsed, mishaps, history>>

Sessions == 1 .. MaxSessions

Pair == [session : Sessions, number : Nat]

TypeOK ==
    /\ stored \in Pair \cup {None}
    /\ call \in [Calls -> [pc : {"idle", "sent", "refused", "waiting", "done"},
                           pair : Pair \cup {None}, retried : BOOLEAN]]
    /\ refresh \in [Tabs -> [pc : {"idle", "sent", "found", "granted", "refused", "lost"},
                             pair : Pair \cup {None}, next : Pair \cup {None}]]
    /\ latest \in [Sessions -> Nat]
    /\ ended \subseteq Sessions
    /\ lapsed \subseteq Pair
    /\ mishaps \in 0 .. MaxMishaps
    /\ overlap \in BOOLEAN
    /\ switched \in BOOLEAN

At(pc) == [pc |-> pc, pair |-> None, retried |-> FALSE]

Quiet == [pc |-> "idle", pair |-> None, next |-> None]

\* The browser may still keep the tokens of somebody who signed in before.
Init ==
    /\ stored \in {None} \cup [session : Sessions \cap {1}, number : {1}]
    /\ call = [c \in Calls |-> At("idle")]
    /\ refresh = [t \in Tabs |-> Quiet]
    /\ latest = [s \in Sessions |-> IF stored = [session |-> s, number |-> 1] THEN 1 ELSE 0]
    /\ ended = {}
    /\ lapsed = {}
    /\ mishaps = 0
    /\ overlap = FALSE
    /\ switched = FALSE

Refreshing == {t \in Tabs : refresh[t].pc # "idle"}

\* A call that was sent again is not answered yet.
SentAgain == \E c \in Calls \ Forms : call[c].retried

-----------------------------------------------------------------------------
(***************************************************************************)
(* Signing in and out                                                      *)
(***************************************************************************)

\* A call keeps its pair only until it is answered.
Step(c, from, to) ==
    /\ call[c].pc = from
    /\ call' = [call EXCEPT ![c] = At(to)]

\* The login is accepted: the identity service opens a session, and useLoginMutation
\* stores its tokens, whatever is stored by now.  (Nobody knows the session before its
\* tokens are stored, so that both are one step; if they are lost, CallFails.)
SignIn(f) ==
    /\ Step(f, "sent", "done")
    /\ \E s \in Sessions :
        /\ latest[s] = 0
        /\ \A earlier \in 1 .. s - 1 : latest[earlier] > 0
        /\ latest' = [latest EXCEPT ![s] = 1]
        /\ stored' = [session |-> s, number |-> 1]
    /\ switched' = (switched \/ Refreshing # {} \/ SentAgain)
    /\ UNCHANGED <<refresh, ended, lapsed, mishaps, overlap>>

\* handleLogout
SignOut ==
    /\ stored # None
    /\ stored' = None
    /\ switched' = (switched \/ Refreshing # {})
    /\ UNCHANGED <<call, refresh, server, lapsed, mishaps, overlap>>

\* expireSession
ExpireSession == stored' = None

-----------------------------------------------------------------------------
(***************************************************************************)
(* Calls                                                                   *)
(***************************************************************************)

\* The request interceptor: the page sends a call with the stored token, if there is one.
\* Pages that make protected calls are shown to somebody who has one; the forms also to
\* somebody whose GET /auth/me failed otherwise than with 401, or who signed in in another tab.
Send(c) ==
    /\ call[c].pc = "idle"
    /\ c \in Forms \/ stored # None
    /\ call' = [call EXCEPT ![c].pc = "sent", ![c].pair = stored]
    /\ UNCHANGED <<stored, refresh, server, lapsed, mishaps, history>>

\* The gateway verifies the signature and the expiry of the access token of a protected
\* call; what a call that is accepted returns does not matter here.
Accepted(c) == c \in Forms \/ call[c].pair \notin lapsed

\* 401: of the gateway; of the calls of the identity service that look at the session,
\* if it has ended; of a form with a wrong password or a token that cannot be used.
Refused(c) == c \notin Forms => call[c].pair \in lapsed \/ call[c].pair.session \in ended

Serve(c) ==
    /\ call[c].pc = "sent"
    /\ \/ Accepted(c) /\ call' = [call EXCEPT ![c] = At("done")]
       \/ Refused(c) /\ call' = [call EXCEPT ![c].pc = "refused"]
    /\ UNCHANGED <<stored, refresh, server, lapsed, mishaps, history>>

\* The call fails otherwise: no answer in time, or an error that is not 401.
CallFails(c) ==
    /\ Step(c, "sent", "done")
    /\ UNCHANGED <<stored, refresh, server, lapsed, mishaps, history>>

\* A 401 that arrives after the tokens are gone is handed to the page.
DeliverSignedOut(c) ==
    /\ Step(c, "refused", "done")
    /\ stored = None
    /\ UNCHANGED <<stored, refresh, server, lapsed, mishaps, history>>

\* A call that was sent again and is refused again ends the session.
DeliverRefusedAgain(c) ==
    /\ Step(c, "refused", "done")
    /\ stored # None
    /\ call[c].retried
    /\ ExpireSession
    /\ UNCHANGED <<refresh, server, lapsed, mishaps, history>>

\* refreshAccessToken: the first refused call of a tab posts the stored refresh
\* token, the others wait for the same promise.
DeliverRefused(c) ==
    LET t == TabOf[c]
    IN  /\ Step(c, "refused", "waiting")
        /\ stored # None
        /\ ~call[c].retried
        /\ IF refresh[t].pc = "idle"
           THEN /\ refresh' = [refresh EXCEPT ![t] = [pc |-> "sent", pair |-> stored, next |-> None]]
                /\ overlap' = (overlap \/ Refreshing # {})
           ELSE UNCHANGED <<refresh, overlap>>
        /\ UNCHANGED <<stored, server, lapsed, mishaps, switched>>

-----------------------------------------------------------------------------
(***************************************************************************)
(* POST /auth/refresh                                                      *)
(***************************************************************************)

\* The session must be live and its row hold the digest of the token.
Exchangeable(pair) == pair.session \notin ended /\ latest[pair.session] = pair.number

RefreshFind(t) ==
    /\ refresh[t].pc = "sent"
    /\ refresh' =
           [refresh EXCEPT ![t].pc = IF Exchangeable(refresh[t].pair) THEN "found" ELSE "refused"]
    /\ UNCHANGED <<stored, call, server, lapsed, mishaps, history>>

\* updateSessionRefresh
RefreshUpdate(t) ==
    LET s == refresh[t].pair.session
        n == latest[s] + 1
    IN  /\ refresh[t].pc = "found"
        /\ latest' = [latest EXCEPT ![s] = n]
        /\ refresh' = [refresh EXCEPT ![t].pc = "granted",
                                      ![t].next = [session |-> s, number |-> n]]
        /\ UNCHANGED <<stored, call, ended, lapsed, mishaps, history>>

\* The gateway gives up before the service has answered, or cannot reach it.
RefreshLost(t) ==
    /\ refresh[t].pc \in {"sent", "granted"}
    /\ mishaps < MaxMishaps
    /\ mishaps' = mishaps + 1
    /\ refresh' = [refresh EXCEPT ![t].pc = "lost"]
    /\ UNCHANGED <<stored, call, server, lapsed, history>>

-----------------------------------------------------------------------------
(***************************************************************************)
(* The end of a refresh                                                    *)
(***************************************************************************)

\* Mutant: the refresh token that was posted is stored again.
KeptPair(t) == refresh[t].pair

\* What persistSession stores.
NewPair(t) == refresh[t].next

\* Mutant: the promise calls back only one of those who wait for it.
WaitingOne(t) ==
    LET all == {c \in Calls : TabOf[c] = t /\ call[c].pc = "waiting"}
    IN  IF all = {} THEN {} ELSE {CHOOSE c \in all : TRUE}

\* Those who wait for the promise of the tab.
Waiting(t) == {c \in Calls : TabOf[c] = t /\ call[c].pc = "waiting"}

\* The tokens are stored and every waiting call is sent again with them.
RefreshSucceeds(t) ==
    /\ refresh[t].pc = "granted"
    /\ refresh' = [refresh EXCEPT ![t] = Quiet]
    /\ stored' = NewPair(t)
    /\ call' = [c \in Calls |->
                   IF c \in Waiting(t)
                   THEN [call[c] EXCEPT !.pc = "sent", !.pair = NewPair(t), !.retried = TRUE]
                   ELSE call[c]]
    /\ UNCHANGED <<server, lapsed, mishaps, history>>

\* The session is taken for expired, whatever is stored by now, and every
\* waiting call is rejected.
RefreshFails(t) ==
    /\ refresh[t].pc \in {"refused", "lost"}
    /\ refresh' = [refresh EXCEPT ![t] = Quiet]
    /\ ExpireSession
    /\ call' = [c \in Calls |->
                   IF c \in Waiting(t) THEN At("done") ELSE call[c]]
    /\ UNCHANGED <<server, lapsed, mishaps, history>>

\* The page is left or loaded again, as by redirectToSessionExpired: its calls
\* and its refresh are forgotten, and a pair that was on its way is lost.
Reload(t) ==
    /\ refresh[t].pc # "found"
    /\ IF refresh[t].pc \in {"sent", "granted"}
       THEN mishaps < MaxMishaps /\ mishaps' = mishaps + 1
       ELSE mishaps' = mishaps
    /\ \E c \in Calls : TabOf[c] = t /\ call[c].pc \in {"sent", "refused", "waiting"}
    /\ refresh' = [refresh EXCEPT ![t] = Quiet]
    /\ call' = [c \in Calls |->
                   IF TabOf[c] = t /\ call[c].pc \in {"sent", "refused", "waiting"}
                   THEN At("done")
                   ELSE call[c]]
    /\ UNCHANGED <<stored, server, lapsed, history>>

-----------------------------------------------------------------------------
(***************************************************************************)
(* Time and other actors                                                   *)
(***************************************************************************)

\* The pair is on its way to a page, or to the gateway with a call sent again.
JustIssued(pair) ==
    \/ \E t \in Tabs : refresh[t].next = pair
    \/ \E c \in Calls : call[c].pc = "sent" /\ call[c].retried /\ call[c].pair = pair

\* An access token lapses.  It lives for minutes: that it lapses within the
\* seconds a refresh and the call after it take is a mishap.
Lapse ==
    /\ Cardinality(lapsed) < MaxLapses
    /\ \E s \in Sessions :
        \E n \in 1 .. latest[s] :
            LET pair == [session |-> s, number |-> n]
            IN  /\ pair \notin lapsed
                /\ \/ stored = pair
                   \/ \E c \in Calls : call[c].pc = "sent" /\ call[c].pair = pair
                /\ IF JustIssued(pair)
                   THEN mishaps < MaxMishaps /\ mishaps' = mishaps + 1
                   ELSE mishaps' = mishaps
                /\ lapsed' = lapsed \cup {pair}
    /\ UNCHANGED <<browser, server, history>>

\* A password reset revokes the session, or it reaches expires_at.
EndSession(s) ==
    /\ latest[s] > 0
    /\ s \notin ended
    /\ ended' = ended \cup {s}
    /\ UNCHANGED <<browser, latest, lapsed, mishaps, history>>

CallStep(c) ==
    \/ Serve(c)
    \/ DeliverSignedOut(c)
    \/ DeliverRefusedAgain(c)
    \/ DeliverRefused(c)

RefreshStep(t) ==
    \/ RefreshFind(t)
    \/ RefreshUpdate(t)
    \/ RefreshSucceeds(t)
    \/ RefreshFails(t)

Next ==
    \/ \E t \in Tabs : RefreshStep(t) \/ RefreshLost(t) \/ Reload(t)
    \/ \E c \in Calls : Send(c) \/ CallStep(c) \/ CallFails(c)
    \/ \E f \in Forms : SignIn(f)
    \/ SignOut
    \/ Lapse
    \/ \E s \in Sessions : EndSession(s)

\* The services answer what they receive and the pages run their callbacks; as
\* all calls come to an end, it is enough that somebody always goes on.  A refresh has
\* no timeout of its own (interceptors.ts:57): it is assumed to be answered or to fail.
Progress == (\E c \in Calls : CallStep(c)) \/ (\E t \in Tabs : RefreshStep(t))

Spec == Init /\ [][Next]_vars /\ WF_vars(Progress)

-----------------------------------------------------------------------------
Expires == (\E t \in Tabs : RefreshFails(t)) \/ (\E c \in Calls : DeliverRefusedAgain(c))

\* A form that is refused while somebody is signed in is sent again with a new token, and
\* that it is refused again is taken for the end of the session.
FormRefused == \E f \in Forms : DeliverRefusedAgain(f)

\* Nobody is signed out of a session that is still good: the tokens of a session
\* that has not ended are removed by the interceptors only after an answer to a
\* refresh was lost, two tabs have refreshed at the same time, somebody signed out or
\* in meanwhile, or because a login or a new password was refused.  What one tab does
\* with any number of protected calls that are refused at the same time, late or
\* again, and with forms refused for the first time, never costs it the session.
KeptSignedIn ==
    [][ Expires /\ stored # None
          => \/ stored.session \in ended
             \/ mishaps > 0 \/ overlap \/ switched
             \/ FormRefused ]_vars

\* Every call comes to an end: none is sent again and again, and none waits for
\* a refresh that has ended without it.
EveryCallEnds == []<>(\A c \in Calls : call[c].pc \in {"idle", "done"})
=============================================================================
