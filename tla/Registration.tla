---------------------------- MODULE Registration ----------------------------
(***************************************************************************)
(* The registration service (services/registration-service): the handlers  *)
(* of POST /registrations and POST /registrations/:id/cancel for one event *)
(* of fixed capacity.                                                      *)
(*                                                                         *)
(* A handler is an async function of a single Node process: it runs to its *)
(* next await, and the handlers of other requests run in between.  Nothing *)
(* is held across an await but the row lock of the promotion transaction.  *)
(* Each action below is what one handler does from one await to the next;  *)
(* pc[h] names the await it is suspended on.                               *)
(***************************************************************************)
EXTENDS RegistrationTables

CONSTANTS
    Cancels,        \* the POST /registrations/:id/cancel requests
    Capacity,       \* the capacity of the published event
    ClockSteps,     \* bound: milliseconds that may pass between two reads of the clock
    MaxInFlight,    \* bound: requests the clients keep in flight at a time
    MaxCrashes,     \* bound: crashes of the service process
    None            \* no registration

Requests == Registers \cup Cancels

ASSUME CancelsAssumption ==
    /\ IsFiniteSet(Cancels)
    /\ Registers \cap Cancels = {}
    /\ None \notin Registers

ASSUME BoundsAssumption ==
    /\ Capacity \in Nat \ {0}
    /\ ClockSteps \subseteq Nat
    /\ MaxInFlight \in Nat \ {0}
    /\ MaxCrashes \in Nat

VARIABLES
    rows,           \* the registrations table
    tickets,        \* the tickets table
    notices,        \* notices[<<r, t>>]: notifications of type t about r
    now,            \* the clock of the service, in milliseconds
    crashes,        \* crashes so far
    pc,             \* where each handler is
    confirmedSeen,  \* confirmedCount, as a register handler read it
    draft,          \* registrationPayload of a register handler
    target,         \* the id a cancel handler was called with
    seen,           \* the row it read at the start
    pick            \* the waitlisted row its promotion transaction has locked

tables == <<rows, tickets, notices>>
registerLocals == <<confirmedSeen, draft>>
cancelLocals == <<target, seen, pick>>
vars == <<rows, tickets, notices, now, crashes, pc,
          confirmedSeen, draft, target, seen, pick>>

NoticeTypes == {"REGISTRATION_CONFIRMED", "WAITLIST_PROMOTED"}

RegisterPCs == {"findActive", "countConfirmed", "countWaitlisted", "insert", "notify"}
CancelPCs == {"cancelRow", "cancelTicket", "selectNext", "promoteNext", "notify"}
PCs == {"idle", "done", "dropped"} \cup RegisterPCs \cup CancelPCs

TypeOK ==
    /\ rows \in [Registers -> Row]
    /\ tickets \in [Registers -> TicketStatuses]
    /\ notices \in [Registers \X NoticeTypes -> Nat]
    /\ now \in Nat
    /\ crashes \in 0 .. MaxCrashes
    /\ pc \in [Requests -> PCs]
    /\ confirmedSeen \in [Registers -> Nat]
    /\ draft \in [Registers -> Row]
    /\ target \in [Cancels -> Registers \cup {None}]
    /\ seen \in [Cancels -> Row]
    /\ pick \in [Cancels -> Registers \cup {None}]

Init ==
    /\ rows = [r \in Registers |-> AbsentRow]
    /\ tickets = [r \in Registers |-> "NONE"]
    /\ notices = [n \in Registers \X NoticeTypes |-> 0]
    /\ now = 0
    /\ crashes = 0
    /\ pc = [h \in Requests |-> "idle"]
    /\ confirmedSeen = [r \in Registers |-> 0]
    /\ draft = [r \in Registers |-> AbsentRow]
    /\ target = [c \in Cancels |-> None]
    /\ seen = [c \in Cancels |-> AbsentRow]
    /\ pick = [c \in Cancels |-> None]

-----------------------------------------------------------------------------
Running(h) == pc[h] \notin {"idle", "done", "dropped"}

InFlight == {h \in Requests : Running(h)}

\* The service puts no limit on the requests it serves at a time; the clients do.
Admitted == Cardinality(InFlight) < MaxInFlight

Goto(h, from, to) ==
    /\ pc[h] = from
    /\ pc' = [pc EXCEPT ![h] = to]

Notify(r, type) == notices' = [notices EXCEPT ![<<r, type>>] = @ + 1]

\* Rows a promotion transaction has selected FOR UPDATE and not yet committed.
Locked == {pick[c] : c \in {d \in Cancels : pc[d] = "promoteNext"}}

-----------------------------------------------------------------------------
(***************************************************************************)
(* POST /registrations                                                     *)
(***************************************************************************)

\* fetchPublicEvent: a call to the event service, which serves the event or not.
\* Any failure of the call reads as "no such event", and the handler answers 404.
RegisterFetchEvent(r, served) ==
    /\ Admitted
    /\ Goto(r, "idle", IF served THEN "findActive" ELSE "done")
    /\ UNCHANGED <<tables, now, crashes, registerLocals, cancelLocals>>

RegisterFindActive(r) ==
    /\ IF ActiveRowsOf(rows, Owner[r]) = {}
       THEN Goto(r, "findActive", "countConfirmed")
       ELSE Goto(r, "findActive", "done")
    /\ UNCHANGED <<tables, now, crashes, registerLocals, cancelLocals>>

RegisterCountConfirmed(r) ==
    /\ Goto(r, "countConfirmed", "countWaitlisted")
    /\ confirmedSeen' = [confirmedSeen EXCEPT ![r] = CountConfirmed(rows)]
    /\ UNCHANGED <<tables, now, crashes, draft, cancelLocals>>

\* Mutant: a position is the number of those who wait.
AdmissionFromZero(confirmed, waiting, stamp) ==
    NewRow(IF confirmed < Capacity THEN "CONFIRMED" ELSE "WAITLISTED", waiting, stamp)

\* What the counts decide: a seat while there is one, else the end of the waitlist.
Admission(confirmed, waiting, stamp) ==
    NewRow(IF confirmed < Capacity THEN "CONFIRMED" ELSE "WAITLISTED", waiting + 1, stamp)

\* The second count, the decision and the timestamp: all of it runs before the
\* next await.
RegisterCountWaitlisted(r) ==
    /\ Goto(r, "countWaitlisted", "insert")
    /\ \E d \in ClockSteps : now' = now + d
    /\ draft' = [draft EXCEPT ![r] =
                    Admission(confirmedSeen[r], CountWaitlisted(rows), now')]
    /\ confirmedSeen' = [confirmedSeen EXCEPT ![r] = 0]
    /\ UNCHANGED <<tables, crashes, cancelLocals>>

\* Mutant: without idx_registrations_active_event_participant.
IndexAccepts(r) == FALSE

\* The partial unique index refuses a second active row of the participant.
IndexRefuses(r) == ActiveRowsOf(rows, Owner[r]) # {}

\* Mutant: whoever is registered is told of a confirmation.
AfterInsertNotify(row) == "notify"

AfterInsert(row) == IF row.status = "CONFIRMED" THEN "notify" ELSE "done"

\* createRegistration, or createRegistrationWithTicket in one transaction.  What the
\* index refuses is answered with 409.
RegisterInsert(r) ==
    /\ draft' = [draft EXCEPT ![r] = AbsentRow]
    /\ \/ /\ IndexRefuses(r)
          /\ Goto(r, "insert", "done")
          /\ UNCHANGED <<rows, tickets>>
       \/ /\ ~IndexRefuses(r)
          /\ Goto(r, "insert", AfterInsert(draft[r]))
          /\ rows' = [rows EXCEPT ![r] = draft[r]]
          /\ IF draft[r].status = "CONFIRMED"
             THEN tickets' = [tickets EXCEPT ![r] = "ISSUED"]
             ELSE UNCHANGED tickets
    /\ UNCHANGED <<notices, now, crashes, confirmedSeen, cancelLocals>>

\* Any other error of the insert is rolled back and answered with 500.
RegisterInsertFails(r) ==
    /\ Goto(r, "insert", "done")
    /\ draft' = [draft EXCEPT ![r] = AbsentRow]
    /\ UNCHANGED <<tables, now, crashes, confirmedSeen, cancelLocals>>

\* The notification is best effort: its failure is swallowed.
RegisterNotify(r) ==
    /\ Goto(r, "notify", "done")
    /\ Notify(r, "REGISTRATION_CONFIRMED") \/ UNCHANGED notices
    /\ UNCHANGED <<rows, tickets, now, crashes, registerLocals, cancelLocals>>

RegisterStep(r) ==
    \/ RegisterFindActive(r)
    \/ RegisterCountConfirmed(r)
    \/ RegisterCountWaitlisted(r)
    \/ RegisterInsert(r)
    \/ RegisterInsertFails(r)
    \/ RegisterNotify(r)

-----------------------------------------------------------------------------
(***************************************************************************)
(* POST /registrations/:registrationId/cancel                              *)
(***************************************************************************)

\* findById, the ownership check and the status check.  From here on the handler
\* works with the row as it read it.
CancelFind(c) ==
    /\ Admitted
    /\ \E t \in Registers, caller \in Participants :
          IF caller = Owner[t] /\ Active(rows[t])
          THEN /\ Goto(c, "idle", "cancelRow")
               /\ target' = [target EXCEPT ![c] = t]
               /\ seen' = [seen EXCEPT ![c] = rows[t]]
          ELSE /\ Goto(c, "idle", "done")
               /\ UNCHANGED <<target, seen>>
    /\ UNCHANGED <<tables, now, crashes, registerLocals, pick>>

\* Mutant: nobody is promoted.
AfterCancelNothing(c) == "done"

\* Where the handler goes once the row and its ticket are cancelled: it promotes
\* when the row it READ was confirmed.
AfterCancel(c) == IF seen[c].status = "CONFIRMED" THEN "selectNext" ELSE "done"

Forget(c) ==
    /\ target' = [target EXCEPT ![c] = None]
    /\ seen' = [seen EXCEPT ![c] = AbsentRow]

\* Mutant: the ticket id of the row as it was read first.
TicketRead(c) == seen[c].ticketed

\* The ticket id that RETURNING gives, of the row as the UPDATE finds it.
TicketReturned(c) == rows[target[c]].ticketed

\* An UPDATE waits for the row lock of a promotion.
RowFree(c) == target[c] \notin Locked

\* cancelRegistration applies to whatever the row has become.
CancelRow(c) ==
    LET t == target[c]
        next == IF TicketReturned(c) THEN "cancelTicket" ELSE AfterCancel(c)
    IN  /\ Goto(c, "cancelRow", next)
        /\ RowFree(c)
        /\ rows' = [rows EXCEPT ![t] = CancelledRow(@)]
        /\ IF next = "done" THEN Forget(c) ELSE UNCHANGED <<target, seen>>
        /\ UNCHANGED <<tickets, notices, now, crashes, registerLocals, pick>>

CancelTicket(c) ==
    /\ Goto(c, "cancelTicket", AfterCancel(c))
    /\ tickets' = [tickets EXCEPT ![target[c]] = "CANCELLED"]
    /\ IF AfterCancel(c) = "done" THEN Forget(c) ELSE UNCHANGED <<target, seen>>
    /\ UNCHANGED <<rows, notices, now, crashes, registerLocals, pick>>

\* Mutant: a promotion that finds nobody keeps waiting for somebody.
PromoteSelectWaits(c) ==
    /\ \E r \in FirstInLine(rows, Locked) :
          /\ Goto(c, "selectNext", "promoteNext")
          /\ pick' = [pick EXCEPT ![c] = r]
    /\ UNCHANGED <<tables, now, crashes, registerLocals, target, seen>>

\* promoteNextWaitlistedWithTicket, its SELECT: lock the next row, or find none.
PromoteSelect(c) ==
    /\ \/ \E r \in FirstInLine(rows, Locked) :
             /\ Goto(c, "selectNext", "promoteNext")
             /\ pick' = [pick EXCEPT ![c] = r]
             /\ UNCHANGED <<target, seen>>
       \/ /\ FirstInLine(rows, Locked) = {}
          /\ Goto(c, "selectNext", "done")
          /\ Forget(c)
          /\ UNCHANGED pick
    /\ UNCHANGED <<tables, now, crashes, registerLocals>>

\* Its UPDATE, its INSERT of the ticket and its COMMIT, seen from outside.
PromoteCommit(c) ==
    LET r == pick[c]
    IN  /\ Goto(c, "promoteNext", "notify")
        /\ rows' = [rows EXCEPT ![r] = PromotedRow(@)]
        /\ tickets' = [tickets EXCEPT ![r] = "ISSUED"]
        /\ Forget(c)
        /\ UNCHANGED <<notices, now, crashes, registerLocals, pick>>

PromoteNotify(c) ==
    /\ Goto(c, "notify", "done")
    /\ Notify(pick[c], "WAITLIST_PROMOTED") \/ UNCHANGED notices
    /\ pick' = [pick EXCEPT ![c] = None]
    /\ UNCHANGED <<rows, tickets, now, crashes, registerLocals, target, seen>>

CancelStep(c) ==
    \/ CancelRow(c)
    \/ CancelTicket(c)
    \/ PromoteSelect(c)
    \/ PromoteCommit(c)
    \/ PromoteNotify(c)

-----------------------------------------------------------------------------
(***************************************************************************)
(* The process                                                             *)
(***************************************************************************)

\* The process dies (an unhandled rejection of any statement that is not in a
\* try block, a kill, a deployment) and is restarted: the handlers are gone, an
\* open transaction is rolled back, the tables stay.
Crash ==
    /\ crashes < MaxCrashes
    /\ InFlight # {}
    /\ crashes' = crashes + 1
    /\ pc' = [h \in Requests |-> IF Running(h) THEN "dropped" ELSE pc[h]]
    /\ confirmedSeen' = [r \in Registers |-> 0]
    /\ draft' = [r \in Registers |-> AbsentRow]
    /\ target' = [c \in Cancels |-> None]
    /\ seen' = [c \in Cancels |-> AbsentRow]
    /\ pick' = [c \in Cancels |-> None]
    /\ UNCHANGED <<tables, now>>

Next ==
    \/ \E r \in Registers : RegisterStep(r) \/ \E served \in BOOLEAN : RegisterFetchEvent(r, served)
    \/ \E c \in Cancels : CancelFind(c) \/ CancelStep(c)
    \/ Crash

\* PostgreSQL answers every statement, and Node resumes every handler whose await
\* is settled.  Nobody has to send a request, and nothing has to crash.
Fairness ==
    /\ \A r \in Registers : WF_vars(RegisterStep(r))
    /\ \A c \in Cancels : WF_vars(CancelStep(c))

Spec == Init /\ [][Next]_vars /\ Fairness

-----------------------------------------------------------------------------
(***************************************************************************)
(* Properties                                                              *)
(***************************************************************************)

\* A participant holds at most one active registration, however many requests
\* race between findActiveByEventAndParticipant and the insert.
OneActivePerParticipant ==
    \A p \in Participants : Cardinality(ActiveRowsOf(rows, p)) <= 1

\* The two tables agree after every statement, in every interleaving and after
\* every crash: a row has a ticket exactly when it carries a ticket id, a
\* confirmed row's ticket is valid, and a waitlisted row has none.
TicketsMatchRows ==
    \A r \in Registers :
        /\ rows[r].ticketed <=> tickets[r] # "NONE"
        /\ rows[r].status = "CONFIRMED" => tickets[r] = "ISSUED"
        /\ rows[r].status \in {"ABSENT", "WAITLISTED"} => tickets[r] = "NONE"

\* As long as the process does not crash, a cancelled registration keeps a valid
\* ticket only while its cancel handler is on its way to revoke it: also when
\* the row was promoted between the handler's read and its update.
RevocationUnderWay ==
    crashes = 0 =>
        \A r \in Registers :
            rows[r].status = "CANCELLED" /\ tickets[r] = "ISSUED" =>
                \E c \in Cancels : pc[c] = "cancelTicket" /\ target[c] = r

\* Two promotion transactions never work on the same row, and the row one of
\* them works on stays waitlisted until it commits.
PromotionsDisjoint ==
    /\ \A c, d \in Cancels :
          /\ c # d
          /\ pc[c] = "promoteNext"
          /\ pc[d] = "promoteNext"
          => pick[c] # pick[d]
    /\ \A r \in Locked : rows[r].status = "WAITLISTED"

\* A participant is told of a confirmation or of a promotion at most once, and
\* only of one that took place.
NoticesTruthful ==
    \A r \in Registers :
        /\ notices[<<r, "REGISTRATION_CONFIRMED">>] <=
              (IF rows[r].ticketed /\ ~rows[r].promoted THEN 1 ELSE 0)
        /\ notices[<<r, "WAITLIST_PROMOTED">>] <= (IF rows[r].promoted THEN 1 ELSE 0)

\* A cancellation is final and a seat is never taken back into the waitlist: no
\* later statement of any handler revives or demotes a row.
LifecycleIsForward ==
    [][\A r \in Registers :
          /\ rows[r].status = "CANCELLED" => rows'[r].status = "CANCELLED"
          /\ rows[r].status = "CONFIRMED" => rows'[r].status \in {"CONFIRMED", "CANCELLED"}
          /\ tickets[r] = "CANCELLED" => tickets'[r] = "CANCELLED"]_vars

\* Every request is answered, or dropped by a crash: no interleaving leaves a
\* handler waiting for a row lock for ever.
EveryRequestEnds ==
    \A h \in Requests : Running(h) ~> ~Running(h)

\* No more registrations are confirmed than the event has seats.
CapacityRespected == CountConfirmed(rows) <= Capacity

\* The cancellations whose UPDATE has been made, and those refused before or lost in a crash.
Served == {c \in Cancels : pc[c] \notin {"idle", "cancelRow"}}

\* How far an event can be overbooked: by fewer seats than requests overlap, and one for each
\* cancellation that is past its UPDATE, or over, and has cancelled nothing itself, as another
\* one has cancelled its registration meanwhile.
OverbookingBounded ==
    CountConfirmed(rows) + Cardinality(RowsWith(rows, "CANCELLED"))
        < Capacity + MaxInFlight + Cardinality(Served)

\* Nobody cancels a registration while a cancellation of it is on its way.
CancelsDistinct ==
    \A c, d \in Cancels :
        c # d /\ pc[c] = "cancelRow" /\ pc[d] = "cancelRow" => target[c] # target[d]

\* The event is overbooked by fewer seats than requests overlap.
OverbookedByOverlap == CountConfirmed(rows) < Capacity + MaxInFlight

\* When no request is in progress, nobody waits for a seat that is free, unless a
\* crash has interrupted a cancellation.
NoStrandedSeat ==
    crashes = 0 /\ InFlight = {} /\ CountConfirmed(rows) < Capacity
        => CountWaitlisted(rows) = 0
=============================================================================
