------------------------------ MODULE Identity ------------------------------
(***************************************************************************)
(* The identity service, for one email address: registering, logging in,   *)
(* refreshing a session, and resetting a forgotten password.               *)
(*                                                                         *)
(* An action is one SQL statement of a handler with the JavaScript that    *)
(* follows it.  A reset is one transaction: its writes are seen when it    *)
(* commits, and the rows it has written or selected FOR UPDATE stay locked *)
(* until then.  The audit record a handler writes before it answers, whose *)
(* failure is caught, is part of the answer.                               *)
(***************************************************************************)
EXTENDS Integers, Sequences, FiniteSets

CONSTANTS
    Registers,      \* the POST /auth/register requests
    Logins,         \* the POST /auth/login requests
    Refreshes,      \* the POST /auth/refresh requests
    Forgots,        \* the POST /auth/forgot-password requests
    Resets,         \* the POST /auth/reset-password requests
    Nothing,        \* what a handler remembers that has not come so far
    SeedStatuses,   \* the status of the account if the seeds create it, "none" if not
    Seed,           \* the password of an account the seeds have created
    RefreshTtl,     \* config.refreshTokenTtlSec
    ResetTtl,       \* config.resetTokenTtlSec
    MaxNow,         \* bound: the clock, in seconds
    MaxInFlight,    \* bound: requests in flight at a time
    MaxFaults       \* bound: crashes and failed transactions

Requests == Registers \cup Logins \cup Refreshes \cup Forgots \cup Resets

\* Those that compute a time of expiry from the clock.
Timed == Logins \cup Refreshes \cup Forgots

ASSUME RequestsAssumption ==
    /\ IsFiniteSet(Requests)
    /\ Registers \cap (Logins \cup Refreshes \cup Forgots \cup Resets) = {}
    /\ Logins \cap (Refreshes \cup Forgots \cup Resets) = {}
    /\ Refreshes \cap (Forgots \cup Resets) = {}
    /\ Forgots \cap Resets = {}
    /\ Seed \notin Requests

Statuses == {"none", "ACTIVE", "LOCKED"}

ASSUME SeedAssumption == SeedStatuses \subseteq Statuses

ASSUME BoundsAssumption ==
    /\ RefreshTtl \in Nat /\ ResetTtl \in Nat
    /\ MaxNow \in Nat /\ MaxFaults \in Nat
    /\ MaxInFlight \in Nat \ {0}

VARIABLES
    account,        \* the row of auth_users
    sessions,       \* auth_sessions: a session is named after the login that opens it
    resetTokens,    \* auth_password_reset_tokens, named after the request that asked
    log,            \* history: the passwords stored so far, in order
    now,            \* the clock
    faults,         \* crashes and failed transactions so far, not those the handlers cause
    pc,             \* the statement each handler runs next
    since,          \* the time a handler went on to its INSERT or UPDATE; then, when it
                    \* made the token that it stores
    login,          \* what a login handler remembers once it has checked the password
    refresh,        \* what a refresh handler remembers once it has checked the session
    reset           \* what a reset transaction remembers once it has checked its token

tables == <<account, sessions, resetTokens, log>>
locals == <<login, refresh, reset>>
vars == <<tables, now, faults, pc, since, locals>>

\* A password is named after the request that stored it.
Passwords == Registers \cup Resets \cup {Seed}

Times == 0 .. MaxNow

Account == [status : Statuses, password : Passwords]

\* digest is that of the refresh token signed in that second: a token says nothing but
\* the user, the session and its times in seconds.
Session == [state : {"none", "live", "revoked"}, digest : Times, expires : Nat]

ResetToken == [state : {"none", "open", "consumed"}, expires : Nat]

\* tried is the password offered; after, for the properties, the resets answered by then.
LoginMemory == [tried : Passwords, after : SUBSET Resets]

\* The token presented is the one signed for the session in that second; stored tells
\* that its successor is in the row; after, for the properties, the refreshes that had
\* stored theirs by then.
RefreshMemory == [session : Logins, second : Times, stored : BOOLEAN,
                  after : SUBSET Refreshes]

\* The token, the sessions the transaction revokes and whether it has consumed the token;
\* prior, for the properties, the sessions there were when it began.
ResetMemory == [token : Forgots, hit : SUBSET Logins, spent : BOOLEAN,
                prior : SUBSET Logins]

InTransaction == {"user", "revoke", "consume", "commit"}

\* Nothing is in the tables yet of what the handler does.
Untraced == {"find", "insert", "update"} \cup InTransaction

\* lost: the process has ended before the answer
Ended == {"ok", "refused", "lost"}

PCs == {"idle", "touch", "answer"} \cup Untraced \cup Ended

ASSUME NothingAssumption ==
    Nothing \notin LoginMemory \cup RefreshMemory \cup ResetMemory

TypeOK ==
    /\ account \in Account
    /\ sessions \in [Logins -> Session]
    /\ resetTokens \in [Forgots -> ResetToken]
    /\ log \in Seq(Passwords)
    /\ now \in Times
    /\ faults \in 0 .. MaxFaults
    /\ pc \in [Requests -> PCs]
    /\ since \in [Timed -> Times]
    /\ login \in [Logins -> LoginMemory \cup {Nothing}]
    /\ refresh \in [Refreshes -> RefreshMemory \cup {Nothing}]
    /\ reset \in [Resets -> ResetMemory \cup {Nothing}]

\* The seeds create accounts that are active and accounts that are not.
Init ==
    /\ account \in [status : SeedStatuses, password : {Seed}]
    /\ sessions = [l \in Logins |-> [state |-> "none", digest |-> 0, expires |-> 0]]
    /\ resetTokens = [q \in Forgots |-> [state |-> "none", expires |-> 0]]
    /\ log = IF account.status = "none" THEN << >> ELSE <<Seed>>
    /\ now = 0
    /\ faults = 0
    /\ pc = [h \in Requests |-> "idle"]
    /\ since = [h \in Timed |-> 0]
    /\ login = [l \in Logins |-> Nothing]
    /\ refresh = [f \in Refreshes |-> Nothing]
    /\ reset = [r \in Resets |-> Nothing]

-----------------------------------------------------------------------------
Running(h) == pc[h] \notin Ended \cup {"idle"}

Admitted == Cardinality({h \in Requests : Running(h)}) < MaxInFlight

Exists == account.status # "none"

Goto(h, from, to) ==
    /\ pc[h] = from
    /\ pc' = [pc EXCEPT ![h] = to]

\* The first statement of a handler.
Arrive(h, to) ==
    /\ Goto(h, "idle", to)
    /\ UNCHANGED <<tables, now, faults>>

\* An answer 401, 409 or 422 after the first statement, with its audit record: nothing is
\* kept, and the client may send the request again.
Refuse(h) ==
    /\ pc[h] = "idle"
    /\ UNCHANGED vars

\* The process ends with all it is running, and PostgreSQL rolls back the transactions.
\* What has left no trace may be sent again.
ProcessEnds ==
    LET Forget(memory, nothing) ==
            [h \in DOMAIN memory |-> IF pc[h] \in Untraced THEN nothing ELSE memory[h]]
    IN  /\ pc' = [h \in Requests |-> IF pc[h] \in Untraced THEN "idle"
                                     ELSE IF Running(h) THEN "lost" ELSE pc[h]]
        /\ since' = Forget(since, 0)
        /\ login' = Forget(login, Nothing)
        /\ refresh' = Forget(refresh, Nothing)
        /\ reset' = Forget(reset, Nothing)
        /\ UNCHANGED <<tables, now>>

\* The audit record, and the answer 200, 201 or 202.
Answer(h) ==
    /\ Goto(h, "answer", "ok")
    /\ UNCHANGED <<tables, now, faults, since, locals>>

-----------------------------------------------------------------------------
(***************************************************************************)
(* Registering                                                             *)
(***************************************************************************)
RegisterFind(g) ==
    \/ /\ Exists
       /\ Refuse(g)
    \/ /\ ~Exists
       /\ Arrive(g, "insert")
       /\ UNCHANGED <<since, locals>>

RegisterInsert(g) ==
    /\ ~Exists
    /\ Goto(g, "insert", "answer")
    /\ account' = [status |-> "ACTIVE", password |-> g]
    /\ log' = Append(log, g)
    /\ UNCHANGED <<sessions, resetTokens, now, faults, since, locals>>

\* The email is UNIQUE: the INSERT fails, and nobody catches it.
RegisterThrows(g) ==
    /\ Exists
    /\ pc[g] = "insert"
    /\ ProcessEnds
    /\ UNCHANGED faults

-----------------------------------------------------------------------------
(***************************************************************************)
(* Logging in                                                              *)
(***************************************************************************)
\* Mutant: the transaction is answered and left open.
UserLockedAsLeaked == \E r \in Resets : pc[r] \in {"revoke", "consume", "commit", "answer", "ok"}

\* A reset has written the user's row and not committed.
UserLocked == \E r \in Resets : pc[r] \in {"revoke", "consume", "commit"}

SessionLocked(l) ==
    \E r \in Resets : pc[r] \in {"consume", "commit"} /\ l \in reset[r].hit

\* Mutant: any password that is known.
AcceptsAsKnown(password) == account.status = "ACTIVE" /\ \E i \in 1 .. Len(log) : log[i] = password

Accepts(password) == account.status = "ACTIVE" /\ password = account.password

LoginFind(l, password) ==
    \/ /\ ~Accepts(password)
       /\ Refuse(l)
    \/ /\ Accepts(password)
       /\ Arrive(l, "insert")
       /\ since' = [since EXCEPT ![l] = now]
       /\ login' = [login EXCEPT ![l] = [tried |-> password,
                                         after |-> {r \in Resets : pc[r] = "ok"}]]
       /\ UNCHANGED <<refresh, reset>>

LoginInsert(l) ==
    /\ Goto(l, "insert", "touch")
    /\ \E second \in since[l] .. now :
          /\ since' = [since EXCEPT ![l] = second]
          /\ sessions' = [sessions EXCEPT ![l] = [state |-> "live", digest |-> second,
                                                  expires |-> second + RefreshTtl]]
    /\ UNCHANGED <<account, resetTokens, log, now, faults, locals>>

\* last_login_at, which nothing reads; the UPDATE waits for the row.
LoginTouch(l) ==
    /\ ~UserLocked
    /\ Goto(l, "touch", "answer")
    /\ UNCHANGED <<tables, now, faults, since, locals>>

-----------------------------------------------------------------------------
(***************************************************************************)
(* Refreshing a session                                                    *)
(***************************************************************************)
\* The refresh tokens that were handed out: <<session, second>>.
Issued ==
    {<<l, since[l]>> : l \in {l \in Logins : pc[l] = "ok"}}
        \cup {<<refresh[f].session, since[f]>> : f \in {f \in Refreshes : pc[f] = "ok"}}

\* Mutant: the digest is not compared.
ExchangeableAsAnyDigest(l, second) ==
    /\ now < second + RefreshTtl
    /\ sessions[l].state = "live"
    /\ now < sessions[l].expires

\* jwt.verify and the checks of the session's row.
Exchangeable(l, second) ==
    /\ now < second + RefreshTtl
    /\ sessions[l].state = "live"
    /\ now < sessions[l].expires
    /\ sessions[l].digest = second

Stored == {f \in Refreshes : refresh[f] # Nothing /\ refresh[f].stored}

RefreshFind(f) ==
    \E token \in Issued :
        \/ /\ ~Exchangeable(token[1], token[2])
           /\ Refuse(f)
        \/ /\ Exchangeable(token[1], token[2])
           /\ Arrive(f, "find")
           /\ refresh' = [refresh EXCEPT ![f] = [session |-> token[1], second |-> token[2],
                                                 stored |-> FALSE, after |-> Stored]]
           /\ UNCHANGED <<since, login, reset>>

RefreshFindUser(f) ==
    /\ Goto(f, "find", IF account.status = "ACTIVE" THEN "update" ELSE "refused")
    /\ since' = [since EXCEPT ![f] = now]
    /\ UNCHANGED <<tables, now, faults, locals>>

\* Mutant: the UPDATE writes the whole row that the handler has read.
RefreshUpdateAsWholeRow(f) ==
    /\ Goto(f, "update", "answer")
    /\ ~SessionLocked(refresh[f].session)
    /\ \E second \in since[f] .. now :
          /\ since' = [since EXCEPT ![f] = second]
          /\ sessions' = [sessions EXCEPT ![refresh[f].session] =
                [state |-> "live", digest |-> second, expires |-> second + RefreshTtl]]
    /\ refresh' = [refresh EXCEPT ![f].stored = TRUE]
    /\ UNCHANGED <<account, resetTokens, log, now, faults, login, reset>>

\* The UPDATE asks neither for the digest nor for a session that is not revoked.
RefreshUpdate(f) ==
    /\ Goto(f, "update", "answer")
    /\ ~SessionLocked(refresh[f].session)
    /\ \E second \in since[f] .. now :
          /\ since' = [since EXCEPT ![f] = second]
          /\ sessions' = [sessions EXCEPT ![refresh[f].session].digest = second,
                                          ![refresh[f].session].expires = second + RefreshTtl]
    /\ refresh' = [refresh EXCEPT ![f].stored = TRUE]
    /\ UNCHANGED <<account, resetTokens, log, now, faults, login, reset>>

-----------------------------------------------------------------------------
(***************************************************************************)
(* Resetting a password                                                    *)
(***************************************************************************)
\* The answer is 202 in any case.
ForgotFind(q) ==
    /\ Arrive(q, IF Exists THEN "insert" ELSE "answer")
    /\ since' = [since EXCEPT ![q] = now]
    /\ UNCHANGED locals

ForgotInsert(q) ==
    /\ Goto(q, "insert", "answer")
    /\ \E second \in since[q] .. now :
          /\ since' = [since EXCEPT ![q] = second]
          /\ resetTokens' = [resetTokens EXCEPT ![q] = [state |-> "open",
                                                        expires |-> second + ResetTtl]]
    /\ UNCHANGED <<account, sessions, log, now, faults, locals>>

\* Mutant: the SELECT is not FOR UPDATE.
TokenLockedAsFree(q) == FALSE

TokenLocked(q) == \E r \in Resets : pc[r] \in InTransaction /\ reset[r].token = q

\* Mutant: consumedAt is not looked at.
UsableAsUnexpired(q) == resetTokens[q].state # "none" /\ now < resetTokens[q].expires

Usable(q) == resetTokens[q].state = "open" /\ now < resetTokens[q].expires

\* SELECT ... FOR UPDATE: waits until no other transaction holds the token.
ResetSelect(r, q) ==
    /\ ~TokenLocked(q)
    /\ \/ /\ ~Usable(q)
          /\ Refuse(r)
       \/ /\ Usable(q)
          /\ Arrive(r, "user")
          /\ reset' = [reset EXCEPT ![r] =
                [token |-> q, hit |-> {}, spent |-> FALSE,
                 prior |-> {l \in Logins : sessions[l].state # "none"}]]
          /\ UNCHANGED <<since, login, refresh>>

ResetUpdateUser(r) ==
    /\ ~UserLocked
    /\ Goto(r, "user", "revoke")
    /\ UNCHANGED <<tables, now, faults, since, locals>>

ResetRevoke(r) ==
    /\ Goto(r, "revoke", "consume")
    /\ reset' = [reset EXCEPT ![r].hit = {l \in Logins : sessions[l].state = "live"}]
    /\ UNCHANGED <<tables, now, faults, since, login, refresh>>

ResetConsume(r) ==
    /\ Goto(r, "consume", "commit")
    /\ reset' = [reset EXCEPT ![r].spent = resetTokens[reset[r].token].state = "open"]
    /\ UNCHANGED <<tables, now, faults, since, login, refresh>>

\* Also a transaction that has found its token consumed commits the new password.
ResetCommit(r) ==
    /\ Goto(r, "commit", IF reset[r].spent THEN "answer" ELSE "refused")
    /\ account' = [account EXCEPT !.password = r]
    /\ log' = Append(log, r)
    /\ sessions' = [l \in Logins |-> IF l \in reset[r].hit
                                     THEN [sessions[l] EXCEPT !.state = "revoked"]
                                     ELSE sessions[l]]
    /\ resetTokens' = [resetTokens EXCEPT ![reset[r].token].state =
                          IF reset[r].spent THEN "consumed" ELSE @]
    /\ UNCHANGED <<now, faults, since, locals>>

\* A statement fails: ROLLBACK, and the answer is 500; the request may be sent again.
ResetFails(r) ==
    /\ faults < MaxFaults
    /\ faults' = faults + 1
    /\ pc[r] \in InTransaction
    /\ pc' = [pc EXCEPT ![r] = "idle"]
    /\ reset' = [reset EXCEPT ![r] = Nothing]
    /\ UNCHANGED <<tables, now, since, login, refresh>>

-----------------------------------------------------------------------------
Tick ==
    /\ now < MaxNow
    /\ now' = now + 1
    /\ UNCHANGED <<tables, faults, pc, since, locals>>

Crash ==
    /\ faults < MaxFaults
    /\ \E h \in Requests : Running(h)
    /\ faults' = faults + 1
    /\ ProcessEnds

Start ==
    /\ Admitted
    /\ \/ \E g \in Registers : RegisterFind(g)
       \/ \E l \in Logins, password \in Passwords : LoginFind(l, password)
       \/ \E f \in Refreshes : RefreshFind(f)
       \/ \E q \in Forgots : ForgotFind(q)
       \/ \E r \in Resets, q \in Forgots : ResetSelect(r, q)

\* What a handler that is running does next, if nothing fails.
Step(h) ==
    \/ Answer(h)
    \/ h \in Registers /\ (RegisterInsert(h) \/ RegisterThrows(h))
    \/ h \in Logins /\ (LoginInsert(h) \/ LoginTouch(h))
    \/ h \in Refreshes /\ (RefreshFindUser(h) \/ RefreshUpdate(h))
    \/ h \in Forgots /\ ForgotInsert(h)
    \/ h \in Resets /\ (ResetUpdateUser(h) \/ ResetRevoke(h) \/ ResetConsume(h)
                           \/ ResetCommit(h))

Next ==
    \/ Start
    \/ \E h \in Requests : Step(h)
    \/ \E r \in Resets : ResetFails(r)
    \/ Tick
    \/ Crash

Spec == Init /\ [][Next]_vars

-----------------------------------------------------------------------------
(***************************************************************************)
(* Properties                                                              *)
(***************************************************************************)
Applied(r) == \E i \in 1 .. Len(log) : log[i] = r

\* A reset token changes the password at most once, although several requests may present
\* it at a time: the one transaction locks its row for the others.
ResetTokenOnce ==
    \A r1, r2 \in Resets :
        Applied(r1) /\ Applied(r2) /\ reset[r1].token = reset[r2].token => r1 = r2

\* A reset request whose answer is an error has not changed the password, nor has one that
\* was rolled back; and one whose answer is success has changed it.
ResetTruthful ==
    \A r \in Resets :
        /\ pc[r] \in {"idle", "refused"} => ~Applied(r)
        /\ pc[r] = "ok" => Applied(r)

\* A reset ends every session there was when its transaction began, and no refresh that
\* was under way brings one back.
EarlierSessionsEnd ==
    \A r \in Resets : Applied(r) =>
        \A l \in reset[r].prior : sessions[l].state = "revoked"

\* Once a reset is answered, no login that comes later opens a session with a password
\* that was replaced by then.
OldPasswordRefused ==
    \A l \in Logins : sessions[l].state # "none" =>
        ~ \E i, j \in 1 .. Len(log) :
              i < j /\ log[i] = login[l].tried /\ log[j] \in login[l].after

\* A refresh token is not exchanged again by a request that comes after an exchange of it
\* was stored, unless a refresh in the very second of the token has signed it again.
ExchangedOnce ==
    \A f, g \in Stored :
        /\ g \in refresh[f].after
        /\ refresh[g].session = refresh[f].session
        /\ refresh[g].second = refresh[f].second
        => \E h \in Stored : /\ refresh[h].session = refresh[f].session
                             /\ since[h] = refresh[f].second

\* The account of a registration that was answered with success is the one that is kept:
\* a registration for the same email at the same time does not replace it.
RegistrationKept ==
    \A g \in Registers : pc[g] = "ok" =>
        \A i \in 1 .. Len(log) : log[i] = g <=> i = 1

\* The handler can go on: it has its statement to make and no row to wait for, and the time
\* it has noted is not in the future.
Ready(h) ==
    \/ pc[h] = "answer"
    \/ h \in Registers /\ pc[h] = "insert"
    \/ h \in Logins \cup Forgots /\ pc[h] = "insert" /\ since[h] <= now
    \/ h \in Logins /\ pc[h] = "touch" /\ ~UserLocked
    \/ h \in Refreshes /\ pc[h] = "find"
    \/ /\ h \in Refreshes /\ pc[h] = "update" /\ since[h] <= now
       /\ ~SessionLocked(refresh[h].session)
    \/ h \in Resets /\ pc[h] = "user" /\ ~UserLocked
    \/ h \in Resets /\ pc[h] \in {"revoke", "consume", "commit"}

\* While requests are running, one of them at least is not waiting: the locks of logins,
\* refreshes and resets never close a circle, and no ended transaction leaves one behind.
SomebodyReady == (\E h \in Requests : Running(h)) => \E h \in Requests : Ready(h)

\* While requests are running, one of them at least can go on, as those that do not wait can.
NoDeadlock ==
    /\ SomebodyReady
    /\ \A h \in Requests : Ready(h) <=> ENABLED Step(h)
=============================================================================
