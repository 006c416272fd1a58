------------------------------ MODULE TicketDesk ------------------------------
(***************************************************************************)
(* One payment with its registration and its ticket, as the modules of     *)
(* src/services/shared decide on them: the propagation of the payment to   *)
(* the registration, the gating of the ticket, the issue of its artifact,  *)
(* and the manual reconciliation with its audit trail.                     *)
(*                                                                         *)
(* Each module is a function from what is stored to what shall be stored.  *)
(* The host that stores it is external: it applies the answer of a         *)
(* function to the rows the function was given, in one transaction.  So    *)
(* is the payment provider, which may report any status at any time, and   *)
(* the participant who withdraws.                                          *)
(***************************************************************************)
EXTENDS Naturals, Sequences

CONSTANTS
    MaxEntries,     \* the entries an audit trail keeps
    MaxReports,     \* bound: reports of the provider
    MaxOrders       \* bound: orders of the administrators

ASSUME TicketDeskAssumption ==
    MaxEntries \in Nat \ {0} /\ MaxReports \in Nat /\ MaxOrders \in Nat

Statuses == {"PENDING", "PAID", "FAILED", "CANCELLED", "REFUNDED"}
Reconciliations == {"NONE", "NEEDS_REVIEW", "IN_PROGRESS", "RESOLVED", "IRRECOVERABLE"}
RegistrationStatuses ==
    {"PENDING_PAYMENT", "CONFIRMED", "REFUND_PENDING", "CANCELLED", "REFUNDED"}
TicketStatuses == {"NOT_ISSUED", "ISSUED", "VOIDED"}
Orders == {"ANNOTATE_CASE", "RETRY_PROVIDER_CHECK", "MARK_RESOLVED_PAID",
           "MARK_RESOLVED_FAILED", "MARK_IRRECOVERABLE"}

VARIABLES
    transaction,    \* the payment: its status, its reconciliation, and what is left to do
    registration,   \* the status of the registration
    ticket,         \* the status of the ticket
    trail,          \* the audit trail of the payment
    answer,         \* what the last order was answered; RESOLVED: applied, the case resolved
    moved,          \* history: what has changed since the trail last told of it
    reports,
    orders

vars == <<transaction, registration, ticket, trail, answer, moved, reports, orders>>

\* What an entry tells: that an order was given, or a change of one status.
Fields == {"payment", "reconciliation", "registration", "ticket"}
Values == Statuses \cup Reconciliations \cup RegistrationStatuses \cup TicketStatuses
Entry == [about : Fields \cup {"order"}, from : Values \cup {""}, to : Values \cup {""}]

TypeOK ==
    /\ transaction \in [status : Statuses, reconciliation : Reconciliations,
                        required : BOOLEAN, attempts : Nat]
    /\ registration \in RegistrationStatuses
    /\ ticket \in TicketStatuses
    /\ trail \in Seq(Entry)
    /\ answer \in {"", "APPLIED", "RESOLVED", "REJECT"}
    /\ moved \subseteq Fields
    /\ reports \in 0 .. MaxReports
    /\ orders \in 0 .. MaxOrders

Init ==
    /\ transaction = [status |-> "PENDING", reconciliation |-> "NONE",
                      required |-> FALSE, attempts |-> 0]
    /\ registration = "PENDING_PAYMENT"
    /\ ticket = "NOT_ISSUED"
    /\ trail = <<>>
    /\ answer = ""
    /\ moved = {}
    /\ reports = 0
    /\ orders = 0

-----------------------------------------------------------------------------
(***************************************************************************)
(* The decisions                                                           *)
(***************************************************************************)

\* PAYMENT_TO_REGISTRATION_TARGET
Target == [PAID |-> "CONFIRMED", FAILED |-> "CANCELLED", CANCELLED |-> "CANCELLED",
           REFUNDED |-> "REFUNDED"]

\* ALLOWED_REGISTRATION_TRANSITIONS
RegistrationMoves ==
    [PENDING_PAYMENT |-> {"CONFIRMED", "CANCELLED"}, REFUND_PENDING |-> {"REFUNDED"},
     CONFIRMED |-> {"REFUNDED"}, CANCELLED |-> {}, REFUNDED |-> {}]

\* A payment with status s cannot be carried over to a registration with status r.
RegistrationRejects(s, r) ==
    s # "PENDING" /\ Target[s] \notin RegistrationMoves[r] \cup {r}

NextRegistration(s, r) ==
    IF s = "PENDING" \/ RegistrationRejects(s, r) THEN r ELSE Target[s]

\* ALLOWED_TICKET_TRANSITIONS
TicketMoves == [NOT_ISSUED |-> {"ISSUED", "VOIDED"}, ISSUED |-> {"VOIDED"}, VOIDED |-> {}]

\* A bug: a ticket stays issued while its registration is confirmed.
ConfirmedKeepsTicket(s, r, t) ==
    IF r = "REFUNDED" THEN "VOIDED"
    ELSE IF r = "CONFIRMED" THEN IF s = "PAID" THEN "ISSUED" ELSE t
    ELSE IF t = "ISSUED" THEN "VOIDED" ELSE "NOT_ISSUED"

\* The ticket that a payment and a registration call for.
TicketTarget(s, r, t) ==
    IF r = "REFUNDED" THEN "VOIDED"
    ELSE IF r = "CONFIRMED" /\ s = "PAID" THEN "ISSUED"
    ELSE IF t = "ISSUED" THEN "VOIDED" ELSE "NOT_ISSUED"

TicketRejects(s, r, t) == TicketTarget(s, r, t) \notin TicketMoves[t] \cup {t}

NextTicket(s, r, t) == IF TicketRejects(s, r, t) THEN t ELSE TicketTarget(s, r, t)

\* Neither of the two has anything left to do.
Settled(s, r, t) == NextRegistration(s, r) = r /\ NextTicket(s, r, t) = t

-----------------------------------------------------------------------------
(***************************************************************************)
(* The provider, the participant and the services                          *)
(***************************************************************************)

\* The provider reports what became of the payment.
Report(s) ==
    /\ reports < MaxReports
    /\ reports' = reports + 1
    /\ transaction' = [transaction EXCEPT !.status = s]
    /\ moved' = moved \cup {"payment"}
    /\ UNCHANGED <<registration, ticket, trail, answer, orders>>

\* The participant withdraws, before paying or after.
Withdraw ==
    /\ \/ registration = "PENDING_PAYMENT" /\ registration' = "CANCELLED"
       \/ registration = "CONFIRMED" /\ registration' = "REFUND_PENDING"
    /\ moved' = moved \cup {"registration"}
    /\ UNCHANGED <<transaction, ticket, trail, answer, reports, orders>>

\* The registration follows the payment.
Propagate ==
    /\ registration' = NextRegistration(transaction.status, registration)
    /\ registration' # registration
    /\ moved' = moved \cup {"registration"}
    /\ UNCHANGED <<transaction, ticket, trail, answer, reports, orders>>

\* The ticket follows the payment and the registration.
Gate ==
    /\ ticket' = NextTicket(transaction.status, registration, ticket)
    /\ ticket' # ticket
    /\ moved' = moved \cup {"ticket"}
    /\ UNCHANGED <<transaction, registration, trail, answer, reports, orders>>

\* A bug: a ticket that has been voided is issued again.
IssueAgain ==
    /\ registration = "CONFIRMED"
    /\ ticket # "ISSUED"
    /\ ticket' = "ISSUED"
    /\ moved' = moved \cup {"ticket"}
    /\ UNCHANGED <<transaction, registration, trail, answer, reports, orders>>

\* The artifact of a confirmed registration is asked for; the payment is not looked
\* at.  Of a ticket that is issued already, the artifact is given again.
IssueArtifact ==
    /\ registration = "CONFIRMED"
    /\ ticket = "NOT_ISSUED"
    /\ ticket' = "ISSUED"
    /\ moved' = moved \cup {"ticket"}
    /\ UNCHANGED <<transaction, registration, trail, answer, reports, orders>>

-----------------------------------------------------------------------------
(***************************************************************************)
(* Manual reconciliation                                                   *)
(***************************************************************************)

Available ==
    LET status == transaction.status  state == transaction.reconciliation IN
    {"ANNOTATE_CASE"}
    \cup {o \in {"MARK_IRRECOVERABLE"} : state \notin {"RESOLVED", "IRRECOVERABLE"}}
    \cup {o \in {"RETRY_PROVIDER_CHECK"} : state \in {"NEEDS_REVIEW", "IN_PROGRESS"}}
    \cup {o \in {"MARK_RESOLVED_PAID", "MARK_RESOLVED_FAILED"} :
            status \in {"PENDING", "FAILED", "CANCELLED"} /\ state # "IRRECOVERABLE"}

Told == [about |-> "order", from |-> "", to |-> ""]

\* The entry for one status, where it changes.
Change(field, from, to) ==
    IF from = to THEN <<>> ELSE <<[about |-> field, from |-> from, to |-> to]>>

\* The entries of an order that turns the three rows into tx, r and t.
Changes(tx, r, t) ==
    Change("payment", transaction.status, tx.status)
    \o Change("reconciliation", transaction.reconciliation, tx.reconciliation)
    \o Change("registration", registration, r)
    \o Change("ticket", ticket, t)

\* A bug: a full trail gives up its newest entries.
KeepOldest(old, new) ==
    LET all == old \o new IN
    IF Len(all) <= MaxEntries THEN all ELSE SubSeq(all, 1, MaxEntries)

\* appendAuditEntries
Keep(old, new) ==
    LET all == old \o new IN
    IF Len(all) <= MaxEntries THEN all ELSE SubSeq(all, Len(all) - MaxEntries + 1, Len(all))

\* The order is carried out: the three rows and the trail are written together.  The
\* last entry is the one that is particular to the order.
Carry(tx, r, t, last, result) ==
    LET new == <<Told>> \o Changes(tx, r, t) \o <<last>> IN
    /\ transaction' = tx
    /\ registration' = r
    /\ ticket' = t
    /\ trail' = Keep(trail, new)
    /\ moved' = moved \ {new[i].about : i \in DOMAIN new}
    /\ answer' = result

Refuse ==
    /\ trail' = Keep(trail, <<Told>>)
    /\ answer' = "REJECT"
    /\ UNCHANGED <<transaction, registration, ticket, moved>>

Annotate ==
    Carry([transaction EXCEPT !.reconciliation = IF @ = "NONE" THEN "NEEDS_REVIEW" ELSE @,
                              !.required = TRUE],
          registration, ticket, Told, "APPLIED")

RetryCheck ==
    Carry([transaction EXCEPT !.reconciliation = "IN_PROGRESS", !.required = FALSE,
                              !.attempts = @ + 1],
          registration, ticket, Told, "APPLIED")

MarkIrrecoverable ==
    Carry([transaction EXCEPT !.reconciliation = "IRRECOVERABLE", !.required = FALSE],
          registration, ticket, Told, "APPLIED")

\* A bug: the ticket follows the registration as it was before.
ResolveFromBefore(s) ==
    LET r == registration IN
    IF RegistrationRejects(s, r) \/ TicketRejects(s, r, ticket)
    THEN Refuse
    ELSE Carry([transaction EXCEPT !.status = s, !.reconciliation = "RESOLVED",
                                   !.required = FALSE],
               NextRegistration(s, r), NextTicket(s, r, ticket),
               [about |-> "payment", from |-> transaction.status, to |-> s], "RESOLVED")

\* The payment is given the status s, and the registration and the ticket follow at
\* once; where one of them cannot, nothing is done.
Resolve(s) ==
    LET r == NextRegistration(s, registration) IN
    IF RegistrationRejects(s, registration) \/ TicketRejects(s, r, ticket)
    THEN Refuse
    ELSE Carry([transaction EXCEPT !.status = s, !.reconciliation = "RESOLVED",
                                   !.required = FALSE],
               r, NextTicket(s, r, ticket),
               [about |-> "payment", from |-> transaction.status, to |-> s], "RESOLVED")

\* An administrator gives an order, with a note or without.
Order(o, noted) ==
    /\ orders < MaxOrders
    /\ orders' = orders + 1
    /\ IF o \notin Available \/ (o \in {"ANNOTATE_CASE", "MARK_IRRECOVERABLE"} /\ ~noted)
       THEN Refuse
       ELSE \/ o = "ANNOTATE_CASE" /\ Annotate
            \/ o = "RETRY_PROVIDER_CHECK" /\ RetryCheck
            \/ o = "MARK_IRRECOVERABLE" /\ MarkIrrecoverable
            \/ o = "MARK_RESOLVED_PAID" /\ Resolve("PAID")
            \/ o = "MARK_RESOLVED_FAILED" /\ Resolve("FAILED")
    /\ UNCHANGED reports

Next ==
    \/ \E s \in Statuses \ {"PENDING"} : Report(s)
    \/ Withdraw
    \/ Propagate
    \/ Gate
    \/ IssueArtifact
    \/ \E o \in Orders, noted \in BOOLEAN : Order(o, noted)

\* The services carry every change on; nothing is assumed of the provider, of the
\* participants and of the administrators.
Fairness == WF_vars(Propagate) /\ WF_vars(Gate)

Spec == Init /\ [][Next]_vars /\ Fairness

-----------------------------------------------------------------------------
(***************************************************************************)
(* Properties                                                              *)
(***************************************************************************)

Current(field) ==
    [payment |-> transaction.status, reconciliation |-> transaction.reconciliation,
     registration |-> registration, ticket |-> ticket][field]

\* What the trail last tells of a status is its value, unless the provider, the
\* participant or a service has changed it since: an order leaves an entry for each
\* status it changes, with what came out of it, and it is the oldest entries that a
\* full trail gives up (paymentAuditTrail.js).
TrailIsCurrent ==
    \A i \in DOMAIN trail :
        \/ trail[i].about \in moved \cup {"order"}
        \/ \E j \in DOMAIN trail : j > i /\ trail[j].about = trail[i].about
        \/ trail[i].to = Current(trail[i].about)

\* No sequence of reports, withdrawals and orders brings back a ticket that has been
\* voided or a registration that has been cancelled or refunded, whichever of the
\* propagation, the gating, the issue and the reconciliation sees it.
FinalStaysFinal ==
    [][/\ ticket = "VOIDED" => ticket' = "VOIDED"
       /\ registration \in {"CANCELLED", "REFUNDED"} => registration' = registration]_vars

\* An administrator who settles a payment settles its registration and its ticket with
\* it: the services have nothing left to change, and what they would have changed has
\* been done in the right order.
ResolvedIsSettled ==
    [][orders' # orders /\ answer' = "RESOLVED" =>
        Settled(transaction'.status, registration', ticket')]_vars

\* A ticket that is issued without a payment, or whose payment or registration is
\* lost, is voided in the end; and a registration that waits for a payment which has
\* come gets its ticket in the end, unless one of them changes first.
Grounded == transaction.status = "PAID" /\ registration = "CONFIRMED"
TicketFollows ==
    /\ (ticket = "ISSUED" /\ ~Grounded) ~> (ticket = "VOIDED" \/ Grounded)
    /\ (transaction.status = "PAID" /\ registration = "PENDING_PAYMENT" /\ ticket = "NOT_ISSUED")
         ~> (ticket = "ISSUED" \/ transaction.status # "PAID"
             \/ registration \notin {"PENDING_PAYMENT", "CONFIRMED"})
=============================================================================
