------------------------- MODULE RegistrationTables -------------------------
(***************************************************************************)
(* The rows the registration service keeps for one event, and the SQL      *)
(* statements of registrationRepository.js as operators on them.  Every    *)
(* operator is one statement or one transaction: what PostgreSQL does      *)
(* atomically.  The handlers that chain them are in Registration.tla.      *)
(*                                                                         *)
(* A registration is identified by the request that creates it: the        *)
(* handler draws a fresh randomUUID() for every insert.  `rows' is the     *)
(* registrations table and `tickets' the tickets table, which holds at     *)
(* most one ticket per registration (registration_id is UNIQUE), so both   *)
(* are functions of the registration.                                      *)
(***************************************************************************)
EXTENDS Integers, FiniteSets

CONSTANTS
    Participants,   \* the people who register
    Registers,      \* the POST /registrations requests, and the ids of the rows they insert
    Owner           \* Owner[r] is the participant who sends request r

ASSUME RegistersAssumption ==
    /\ IsFiniteSet(Registers)
    /\ Owner \in [Registers -> Participants]

RowStatuses == {"ABSENT", "CONFIRMED", "WAITLISTED", "CANCELLED"}

TicketStatuses == {"NONE", "PENDING", "ISSUED", "CANCELLED"}

\* position is waitlist_position (0 is NULL), stamp is created_at, ticketed says
\* that ticket_id is set, promoted that promoted_at is.
Row == [status : RowStatuses, position : Nat, stamp : Nat,
        ticketed : BOOLEAN, promoted : BOOLEAN]

AbsentRow == [status |-> "ABSENT", position |-> 0, stamp |-> 0,
              ticketed |-> FALSE, promoted |-> FALSE]

\* The payload POST /registrations inserts: a confirmed row comes with a ticket,
\* a waitlisted one with a position.
NewRow(status, position, stamp) ==
    [status   |-> status,
     position |-> IF status = "WAITLISTED" THEN position ELSE 0,
     stamp    |-> stamp,
     ticketed |-> status = "CONFIRMED",
     promoted |-> FALSE]

RowsWith(rows, status) == {r \in Registers : rows[r].status = status}

CountConfirmed(rows) == Cardinality(RowsWith(rows, "CONFIRMED"))

CountWaitlisted(rows) == Cardinality(RowsWith(rows, "WAITLISTED"))

Active(row) == row.status \in {"CONFIRMED", "WAITLISTED"}

\* findActiveByEventAndParticipant, and the rows the partial unique index
\* idx_registrations_active_event_participant compares an insert with.
ActiveRowsOf(rows, participant) ==
    {r \in Registers : Owner[r] = participant /\ Active(rows[r])}

\* cancelRegistration: the WHERE clause names the id only, whatever the status.
CancelledRow(row) == [row EXCEPT !.status = "CANCELLED", !.position = 0]

\* Mutant: the promotion does not store the ticket id.
PromotedRowUnticketed(row) ==
    [row EXCEPT !.status = "CONFIRMED", !.position = 0, !.promoted = TRUE]

\* The UPDATE of promoteNextWaitlistedWithTicket.
PromotedRow(row) ==
    [row EXCEPT !.status = "CONFIRMED", !.position = 0,
                !.ticketed = TRUE, !.promoted = TRUE]

\* ORDER BY waitlist_position, created_at
Precedes(a, b) ==
    \/ a.position < b.position
    \/ a.position = b.position /\ a.stamp <= b.stamp

\* The SELECT ... FOR UPDATE SKIP LOCKED LIMIT 1 of a promotion: any row that comes
\* first among the waitlisted rows no other transaction has locked.
FirstInLine(rows, locked) ==
    LET waiting == RowsWith(rows, "WAITLISTED") \ locked
    IN  {r \in waiting : \A q \in waiting : Precedes(rows[r], rows[q])}
=============================================================================
