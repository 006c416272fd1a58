------------------------------- MODULE Seeding -------------------------------
(***************************************************************************)
(* The demonstration data and the scripts that write it: `npm run          *)
(* seed:demo', which seeds the identity, the event and the registration    *)
(* service one after the other and stops at the first failure, and the     *)
(* catalogue script of the event service.  The scripts can be run again at *)
(* any time, on data that people have gone on to work with: they register,  *)
(* cancel, open payment sessions, and the provider reports on those.       *)
(*                                                                         *)
(* Users, events, rows, notifications and payments are named by the last   *)
(* digits of their ids.  External: the people and the payment provider,    *)
(* whose requests are served one at a time (Registration, Payments,        *)
(* EventLifecycle and Identity have their details).                        *)
(***************************************************************************)
EXTENDS Integers, Sequences

CONSTANTS
    CatalogueSize,  \* the events that the catalogue script inserts
    MaxChanges,     \* bound: requests of people
    MaxSeeds        \* bound: runs of the scripts

\* The demo events have more seats than MaxChanges registrations can take (25 or more).
SeedingAssumption ==
    CatalogueSize \in Nat /\ MaxChanges \in 0 .. 20 /\ MaxSeeds \in Nat

VARIABLES
    account,        \* of every demo user: the id that the email is registered under, or 0
    owned,          \* the owners of the demo sessions, reset tokens and audit entries
    events,         \* status, visibility and organizer of the events
    rows,           \* the registrations
    tickets,        \* the ticket of a registration
    notices,        \* recipient and registration of the demo notifications
    payments,       \* registration, participant and status of the payments
    stage,          \* the service that seed:demo seeds next; "" if it is not running
    left,           \* the events that the catalogue script has still to insert
    changes,
    seeds

vars == <<account, owned, events, rows, tickets, notices, payments, stage, left, changes, seeds>>

-----------------------------------------------------------------------------
(***************************************************************************)
(* The demonstration data                                                  *)
(***************************************************************************)

\* demoUsers: an administrator, two organizers, four participants
Users == 101 .. 107

\* demoSessions, demoResetTokens and demoAuditLogs name their owner by a key; they are
\* numbered one after the other.
OwnerOf == <<101, 102, 104, 107>>
ResetTokenOf == <<102, 105, 104>>
ActorOf == <<101, 102, 106, 102, 105>>
OwnedBy == OwnerOf \o ResetTokenOf \o ActorOf

\* A table after an upsert: what is written takes the place of what was there.
Upsert(new, old) ==
    [x \in DOMAIN new \cup DOMAIN old |-> IF x \in DOMAIN new THEN new[x] ELSE old[x]]

\* A table with one more row.
Insert(old, x, row) == Upsert(old, [y \in {x} |-> row])

Event(status, public, organizer) ==
    [status |-> status, public |-> public, organizer |-> organizer]

DemoEvents ==
    <<Event("PUBLISHED", TRUE, 102), Event("PUBLISHED", TRUE, 103), Event("DRAFT", FALSE, 102),
      Event("CANCELLED", TRUE, 103), Event("PUBLISHED", TRUE, 102), Event("DRAFT", FALSE, 103),
      Event("DELETED", FALSE, 102)>>

\* The events of the catalogue script belong to an organizer who has no account.
CatalogueEvent == Event("PUBLISHED", TRUE, 1)
Catalogue == 11 .. 10 + CatalogueSize

Row(event, holder, status, ticket) ==
    [event |-> event, holder |-> holder, status |-> status, ticket |-> ticket]

\* demoRegistrations; ticket 0 is none.
DemoRows ==
    <<Row(1, 104, "CONFIRMED", 1), Row(1, 105, "WAITLISTED", 0), Row(2, 104, "WAITLISTED", 0),
      Row(2, 107, "CONFIRMED", 2), Row(3, 106, "CANCELLED", 0), Row(3, 105, "REJECTED", 0),
      Row(1, 105, "CANCELLED", 0), Row(2, 104, "CANCELLED", 0), Row(5, 104, "CONFIRMED", 3),
      Row(5, 106, "WAITLISTED", 0), Row(6, 107, "CANCELLED", 0)>>

\* demoTickets: a registration with a ticket id has its ticket.
Ticketed == {r \in DOMAIN DemoRows : DemoRows[r].ticket # 0}

\* demoNotifications; row 0 is none.
Notice(recipient, row) == [recipient |-> recipient, row |-> row]
DemoNotices ==
    <<Notice(102, 0), Notice(104, 1), Notice(104, 3), Notice(107, 4), Notice(102, 0),
      Notice(104, 7), Notice(104, 9), Notice(106, 10), Notice(107, 11)>>

\* allowedPaymentStatuses
PaymentStatuses == {"PENDING", "SUCCEEDED", "FAILED", "CANCELLED"}

Payment(row, payer, status) == [row |-> row, payer |-> payer, status |-> status]
DemoPayments ==
    <<Payment(1, 104, "SUCCEEDED"), Payment(4, 107, "PENDING"), Payment(9, 104, "SUCCEEDED"),
      Payment(11, 107, "FAILED")>>

TypeOK ==
    /\ account \in [Users -> Nat]
    /\ \A u \in Users : account[u] \in {0, u, u + 100}
    /\ owned = <<>> \/ owned \in [DOMAIN OwnedBy -> Nat]
    /\ DOMAIN events \subseteq DOMAIN DemoEvents \cup Catalogue
    /\ \A r \in DOMAIN rows :
        rows[r].status \in {"CONFIRMED", "WAITLISTED", "CANCELLED", "REJECTED"}
    /\ DOMAIN tickets \subseteq DOMAIN rows
    /\ \A r \in DOMAIN tickets : tickets[r].status \in {"PENDING", "ISSUED", "CANCELLED"}
    /\ \A p \in DOMAIN payments : payments[p].status \in PaymentStatuses
    /\ stage \in {"", "identity", "events", "registration"}
    /\ left \subseteq Catalogue
    /\ changes \in 0 .. MaxChanges /\ seeds \in 0 .. MaxSeeds

Init ==
    /\ account = [u \in Users |-> 0]
    /\ owned = <<>>
    /\ events = <<>>
    /\ rows = <<>>
    /\ tickets = <<>>
    /\ notices = <<>>
    /\ payments = <<>>
    /\ stage = ""
    /\ left = {}
    /\ changes = 0
    /\ seeds = 0

-----------------------------------------------------------------------------
(***************************************************************************)
(* The people                                                              *)
(***************************************************************************)

Change == changes < MaxChanges /\ changes' = changes + 1

\* Somebody signs up with the email address of a demo user.
SignUp(u) ==
    /\ Change
    /\ account[u] = 0
    /\ account' = [account EXCEPT ![u] = u + 100]
    /\ UNCHANGED <<owned, events, rows, tickets, notices, payments, stage, left, seeds>>

Active(row) == row.status \in {"CONFIRMED", "WAITLISTED"}

Ids == {account[u] : u \in Users} \ {0}

\* A seat in an event of the catalogue, with its ticket.
Register(id, e) ==
    LET r == 100 + changes' IN
    /\ Change
    /\ e \in DOMAIN events /\ events[e].status = "PUBLISHED" /\ events[e].public
    /\ ~\E s \in DOMAIN rows : rows[s].event = e /\ rows[s].holder = id /\ Active(rows[s])
    /\ rows' = Insert(rows, r, Row(e, id, "CONFIRMED", r))
    /\ tickets' = Insert(tickets, r, [id |-> r, status |-> "ISSUED"])
    /\ UNCHANGED <<account, owned, events, notices, payments, stage, left, seeds>>

\* The next in line of an event; the demo data has one, and people find seats.
Waiting(e) == {r \in DOMAIN rows : rows[r].event = e /\ rows[r].status = "WAITLISTED"}

\* A row is cancelled and its ticket revoked; a seat that was taken goes to the next in
\* line.  The promotion inserts a ticket: it is rolled back where the row has one already,
\* and the process ends on the error.
Cancel(r) ==
    LET revoked == [t \in DOMAIN tickets |->
            IF tickets[t].id = rows[r].ticket
            THEN [tickets[t] EXCEPT !.status = "CANCELLED"] ELSE tickets[t]]
        next == {w \in Waiting(rows[r].event) : rows[r].status = "CONFIRMED"}
        given == 100 + changes'
        cancelled == [rows EXCEPT ![r].status = "CANCELLED"]
    IN
    /\ Change
    /\ rows[r].holder \in Ids
    /\ rows[r].status # "CANCELLED"
    /\ \/ /\ next = {} \/ next \cap DOMAIN tickets # {}
          /\ rows' = cancelled
          /\ tickets' = revoked
       \/ \E w \in next \ DOMAIN tickets :
            /\ rows' = [cancelled EXCEPT ![w].status = "CONFIRMED", ![w].ticket = given]
            /\ tickets' = Insert(revoked, w, [id |-> given, status |-> "ISSUED"])
    /\ UNCHANGED <<account, owned, events, notices, payments, stage, left, seeds>>

\* ensureTicketForRegistration: the ticket that the row names, or else the one that is the
\* row's, gets the status; where there is none it is made.  A row that names no ticket is
\* given a new id, even if it has a ticket.
EnsureTicket(r, status) ==
    LET named == {t \in DOMAIN tickets : tickets[t].id = rows[r].ticket}
        found == IF named # {} THEN named ELSE {r} \cap DOMAIN tickets
        id == IF rows[r].ticket = 0 THEN 100 + changes' ELSE rows[r].ticket
    IN  /\ rows' = [rows EXCEPT ![r].ticket = id]
        /\ tickets' = IF found = {} THEN Insert(tickets, r, [id |-> id, status |-> status])
                      ELSE [t \in DOMAIN tickets |->
                                IF t \in found THEN [tickets[t] EXCEPT !.status = status]
                                ELSE tickets[t]]

\* The holder of a seat opens a payment session.
OpenPayment(r) ==
    /\ Change
    /\ rows[r].holder \in Ids
    /\ rows[r].status = "CONFIRMED"
    /\ EnsureTicket(r, "PENDING")
    /\ payments' = Insert(payments, 100 + changes', Payment(r, rows[r].holder, "PENDING"))
    /\ UNCHANGED <<account, owned, events, notices, stage, left, seeds>>

\* The provider reports on a payment; after a success it only counts again.
PaymentReported(p, status) ==
    LET row == payments[p].row IN
    /\ Change
    /\ payments[p].status = "SUCCEEDED" => status = "SUCCEEDED"
    /\ payments' = [payments EXCEPT ![p].status = status]
    /\ CASE status = "SUCCEEDED" -> EnsureTicket(row, "ISSUED")
         [] status \in {"FAILED", "CANCELLED"} -> EnsureTicket(row, "CANCELLED")
         [] status = "PENDING" -> UNCHANGED <<rows, tickets>>
    /\ UNCHANGED <<account, owned, events, notices, stage, left, seeds>>

\* The organizer, or an administrator, cancels an event or deletes a draft.
EndEvent(e) ==
    /\ Change
    /\ events[e].status \in {"DRAFT", "PUBLISHED"}
    /\ events[e].organizer \in Ids \/ account[101] # 0
    /\ events' = [events EXCEPT ![e].status = IF @ = "DRAFT" THEN "DELETED" ELSE "CANCELLED"]
    /\ UNCHANGED <<account, owned, rows, tickets, notices, payments, stage, left, seeds>>

-----------------------------------------------------------------------------
(***************************************************************************)
(* npm run seed:demo                                                       *)
(***************************************************************************)

\* The services in the order of the command.
NextStage == [identity |-> "events", events |-> "registration", registration |-> ""]

StartDemo ==
    /\ stage = ""
    /\ seeds < MaxSeeds
    /\ seeds' = seeds + 1
    /\ stage' = "identity"
    /\ UNCHANGED <<account, owned, events, rows, tickets, notices, payments, left, changes>>

\* A bug: the rows that belong to a user are given the id of the data.
StoredFixed(u) == u

\* upsertUser: an email that is registered already keeps its id.
Stored(u) == IF account[u] = 0 THEN u ELSE account[u]

SeedIdentity ==
    /\ stage = "identity"
    /\ account' = [u \in Users |-> IF account[u] = 0 THEN u ELSE account[u]]
    /\ owned' = [o \in DOMAIN OwnedBy |-> Stored(OwnedBy[o])]
    /\ stage' = NextStage[stage]
    /\ UNCHANGED <<events, rows, tickets, notices, payments, left, changes, seeds>>

\* upsertEvent: whatever became of an event, it is the demo event again.
SeedEvents ==
    /\ stage = "events"
    /\ events' = Upsert(DemoEvents, events)
    /\ stage' = NextStage[stage]
    /\ UNCHANGED <<account, owned, rows, tickets, notices, payments, left, changes, seeds>>

\* The unique index on active registrations refuses a row that is to be active again
\* while its holder has registered anew.
Refused ==
    \E r \in DOMAIN DemoRows, s \in DOMAIN rows \ DOMAIN DemoRows :
        /\ Active(DemoRows[r]) /\ Active(rows[s])
        /\ rows[s].event = DemoRows[r].event /\ rows[s].holder = DemoRows[r].holder

\* upsertTicket: a ticket that is there keeps its id, and is issued again.
UpsertTicket(r) ==
    [id |-> IF r \in DOMAIN tickets THEN tickets[r].id ELSE DemoRows[r].ticket,
     status |-> "ISSUED"]

\* One transaction for the four tables.
SeedRegistrations ==
    /\ stage = "registration"
    /\ ~Refused
    /\ rows' = Upsert(DemoRows, rows)
    /\ tickets' = Upsert([r \in Ticketed |-> UpsertTicket(r)], tickets)
    /\ notices' = DemoNotices
    /\ payments' = Upsert(DemoPayments, payments)
    /\ stage' = NextStage[stage]
    /\ UNCHANGED <<account, owned, events, left, changes, seeds>>

\* A bug: the command goes on after a failure.
AfterFailureOn == NextStage[stage]

\* What is run after a script that has failed: nothing.
AfterFailure == ""

\* The transaction of a script is refused or fails, and is rolled back.
SeedFails ==
    /\ stage # ""
    /\ stage' = AfterFailure
    /\ UNCHANGED <<account, owned, events, rows, tickets, notices, payments, left, changes, seeds>>

-----------------------------------------------------------------------------
(***************************************************************************)
(* node src/seed.js of the event service                                   *)
(***************************************************************************)

StartCatalogue ==
    /\ left = {}
    /\ seeds < MaxSeeds
    /\ seeds' = seeds + 1
    /\ left' = Catalogue
    /\ UNCHANGED <<account, owned, events, rows, tickets, notices, payments, stage, changes>>

\* One statement for every event, each committed by itself; of an event that is there,
\* only the price and the picture are written.
InsertCatalogueEvent(e) ==
    /\ e \in left /\ \A d \in left : e <= d
    /\ left' = left \ {e}
    /\ events' = Insert(events, e, CatalogueEvent)
    /\ UNCHANGED <<account, owned, rows, tickets, notices, payments, stage, changes, seeds>>

CatalogueFails ==
    /\ left # {}
    /\ left' = {}
    /\ UNCHANGED <<account, owned, events, rows, tickets, notices, payments, stage, changes, seeds>>

Next ==
    \/ \E u \in Users : SignUp(u)
    \/ \E id \in Ids, e \in DOMAIN events : Register(id, e)
    \/ \E r \in DOMAIN rows : Cancel(r) \/ OpenPayment(r)
    \/ \E p \in DOMAIN payments, status \in PaymentStatuses : PaymentReported(p, status)
    \/ \E e \in DOMAIN events : EndEvent(e)
    \/ StartDemo \/ SeedIdentity \/ SeedEvents \/ SeedRegistrations \/ SeedFails
    \/ StartCatalogue \/ CatalogueFails
    \/ \E e \in Catalogue : InsertCatalogueEvent(e)

Spec == Init /\ [][Next]_vars

-----------------------------------------------------------------------------
(***************************************************************************)
(* Properties                                                              *)
(***************************************************************************)

UserOf(id) == IF id > 200 THEN id - 100 ELSE id

\* The payments of a row that have not succeeded.
Unpaid(r) == {p \in DOMAIN payments : payments[p].row = r /\ payments[p].status # "SUCCEEDED"}

\* However often the scripts are run, fail half way and meet data that people work with,
\* the three databases fit together: a registration has its event, its holder an account
\* (under another id if that person had signed up before the first seed) and at most one
\* active registration of an event; a confirmed one has its ticket, under the id that it
\* names, which is issued unless a payment of that registration accounts for it: it is
\* pending only while one is, and cancelled only while one has not succeeded; sessions,
\* reset tokens and audit entries belong to the account that the email is registered under;
\* a payment is that of the holder.
DemoConnected ==
    /\ \A r \in DOMAIN rows :
        /\ rows[r].event \in DOMAIN events
        /\ account[UserOf(rows[r].holder)] # 0
        /\ rows[r].status = "CONFIRMED" =>
            /\ r \in DOMAIN tickets /\ tickets[r].id = rows[r].ticket
            /\ tickets[r].status = "PENDING" => \E p \in Unpaid(r) : payments[p].status = "PENDING"
            /\ tickets[r].status = "CANCELLED" => Unpaid(r) # {}
    /\ \A r, s \in DOMAIN rows :
        Active(rows[r]) /\ Active(rows[s]) /\ r # s =>
            <<rows[r].event, rows[r].holder>> # <<rows[s].event, rows[s].holder>>
    /\ \A o \in DOMAIN owned : owned[o] = account[OwnedBy[o]]
    /\ \A p \in DOMAIN payments :
        payments[p].row \in DOMAIN rows /\ rows[payments[p].row].holder = payments[p].payer
    /\ \A n \in DOMAIN notices : notices[n].row \in DOMAIN rows \cup {0}
=============================================================================
