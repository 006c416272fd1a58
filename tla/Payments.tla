------------------------------ MODULE Payments ------------------------------
(***************************************************************************)
(* The payment facade of the registration service: POST /payments/session  *)
(* and POST /payments/webhook for one registration that was confirmed with *)
(* a valid ticket, together with the cancellation of that registration.    *)
(* The three handlers write the same ticket row.                           *)
(*                                                                         *)
(* As in Registration, an action is what one handler does from one await   *)
(* to the next.  ensureTicketForRegistration is shared by two handlers: a  *)
(* payment exists only for a row that was confirmed, and a confirmed row   *)
(* has its ticket (TicketsMatchRows of Registration), so the function      *)
(* finds the ticket and brings it to the status it was asked for.          *)
(***************************************************************************)
EXTENDS Integers, FiniteSets

CONSTANTS
    Sessions,       \* the POST /payments/session requests, and the payments they create
    Messages,       \* the webhook messages of the provider, by their webhookId
    About,          \* About[m] is the payment that message m is about
    Says,           \* Says[m] is the status it reports
    Deliveries,     \* the webhook calls that can be served at a time
    Cancels,        \* the requests that cancel the registration
    Loads,          \* bounds: how many requests may be in flight at a time
    MaxCrashes,     \* bound: crashes of the service process
    None            \* no webhook message

Handlers == Sessions \cup Deliveries \cup Cancels

PaymentStatuses == {"PENDING", "SUCCEEDED", "FAILED", "CANCELLED"}

TicketStatuses == {"PENDING", "ISSUED", "CANCELLED"}

ASSUME MessagesAssumption ==
    /\ About \in [Messages -> Sessions]
    /\ Says \in [Messages -> PaymentStatuses]
    /\ None \notin Messages

ASSUME HandlersAssumption ==
    /\ Sessions \cap Deliveries = {}
    /\ Sessions \cap Cancels = {}
    /\ Deliveries \cap Cancels = {}
    /\ IsFiniteSet(Handlers)

ASSUME BoundsAssumption == Loads \subseteq Nat \ {0} /\ MaxCrashes \in Nat

VARIABLES
    registration,   \* registration_status
    ticket,         \* ticket_status
    payments,       \* the payments table
    sent,           \* the messages the provider has sent at least once
    acked,          \* those it has got a 200 for
    crashes,        \* crashes so far
    limit,          \* how many requests are in flight at most, in this behaviour
    pc,             \* where each handler is
    handling        \* the message a webhook handler is working on

payLocals == <<pc, handling>>
vars == <<registration, ticket, payments, sent, acked, crashes, limit, pc, handling>>

NoPayment == [status |-> "NONE", last |-> None]

\* last is last_webhook_id
Payment == [status : PaymentStatuses \cup {"NONE"}, last : Messages \cup {None}]

PCs == {"idle", "done", "dropped", "readTicket", "updateTicket",
        "insertPayment", "updatePayment", "cancelRow", "cancelTicket"}

TypeOK ==
    /\ registration \in {"CONFIRMED", "CANCELLED"}
    /\ ticket \in TicketStatuses
    /\ payments \in [Sessions -> Payment]
    /\ sent \subseteq Messages
    /\ acked \subseteq sent
    /\ crashes \in 0 .. MaxCrashes
    /\ limit \in Loads
    /\ pc \in [Handlers -> PCs]
    /\ handling \in [Deliveries -> Messages \cup {None}]

Init ==
    /\ registration = "CONFIRMED"
    /\ ticket = "ISSUED"
    /\ payments = [s \in Sessions |-> NoPayment]
    /\ sent = {}
    /\ acked = {}
    /\ crashes = 0
    /\ limit \in Loads
    /\ pc = [h \in Handlers |-> "idle"]
    /\ handling = [d \in Deliveries |-> None]

-----------------------------------------------------------------------------
Running(h) == pc[h] \notin {"idle", "done", "dropped"}

InFlight == {h \in Handlers : Running(h)}

Admitted == Cardinality(InFlight) < limit

Goto(h, from, to) ==
    /\ pc[h] = from
    /\ pc' = [pc EXCEPT ![h] = to]

-----------------------------------------------------------------------------
(***************************************************************************)
(* POST /payments/session                                                  *)
(***************************************************************************)

\* Only a confirmed registration is payable: 409 otherwise.
SessionFind(s) ==
    /\ Admitted
    /\ Goto(s, "idle", IF registration = "CONFIRMED" THEN "readTicket" ELSE "done")
    /\ UNCHANGED <<registration, ticket, payments, sent, acked, crashes, limit, handling>>

\* ensureTicketForRegistration, called with PENDING: the read of the ticket.
SessionReadTicket(s) ==
    /\ Goto(s, "readTicket", IF ticket = "PENDING" THEN "insertPayment" ELSE "updateTicket")
    /\ UNCHANGED <<registration, ticket, payments, sent, acked, crashes, limit, handling>>

SessionUpdateTicket(s) ==
    /\ Goto(s, "updateTicket", "insertPayment")
    /\ ticket' = "PENDING"
    /\ UNCHANGED <<registration, payments, sent, acked, crashes, limit, handling>>

SessionInsertPayment(s) ==
    /\ Goto(s, "insertPayment", "done")
    /\ payments' = [payments EXCEPT ![s].status = "PENDING"]
    /\ UNCHANGED <<registration, ticket, sent, acked, crashes, limit, handling>>

SessionStep(s) ==
    \/ SessionReadTicket(s)
    \/ SessionUpdateTicket(s)
    \/ SessionInsertPayment(s)

-----------------------------------------------------------------------------
(***************************************************************************)
(* POST /payments/webhook                                                  *)
(***************************************************************************)

Answer(d) ==
    /\ acked' = acked \cup {handling[d]}
    /\ handling' = [handling EXCEPT ![d] = None]

\* Mutant: a failure is final too.
SupersededByAny(m) ==
    /\ payments[About[m]].status \in {"SUCCEEDED", "FAILED"}
    /\ Says[m] # payments[About[m]].status

\* A payment that has succeeded is not told otherwise: 200, marked idempotent.
Superseded(m) == payments[About[m]].status = "SUCCEEDED" /\ Says[m] # "SUCCEEDED"

\* The call arrives and the payment is read.  The provider sends a message as often
\* as it likes, in any order, also after it was acknowledged.
WebhookFind(d, m) ==
    /\ Admitted
    /\ m \in sent
    /\ IF Superseded(m)
       THEN /\ pc[d] = "idle"
            /\ acked' = acked \cup {m}
            /\ UNCHANGED payLocals
       ELSE /\ Goto(d, "idle", "updatePayment")
            /\ handling' = [handling EXCEPT ![d] = m]
            /\ UNCHANGED acked
    /\ UNCHANGED <<registration, ticket, payments, sent, crashes, limit>>

\* Mutant: a pending payment has its ticket touched too.
TouchesTicketAlways(m) == TRUE

TouchesTicket(m) == Says[m] \in {"SUCCEEDED", "FAILED", "CANCELLED"}

TicketFor(m) == IF Says[m] \in {"FAILED", "CANCELLED"} THEN "CANCELLED" ELSE "ISSUED"

\* Mutant: a message that was stored before needs nothing else.
ContinuesIfNew(m) == payments[About[m]].last # m /\ TouchesTicket(m)

\* The ticket is looked at whether or not the UPDATE has matched the payment.
Continues(m) == TouchesTicket(m)

\* updatePaymentStatus leaves the row alone when it stored this very message last.
WebhookUpdatePayment(d) ==
    LET m == handling[d]
        s == About[m]
    IN  /\ Goto(d, "updatePayment", IF Continues(m) THEN "readTicket" ELSE "idle")
        /\ payments' = IF payments[s].last = m THEN payments
                       ELSE [payments EXCEPT ![s] = [status |-> Says[m], last |-> m]]
        /\ IF Continues(m) THEN UNCHANGED <<acked, handling>> ELSE Answer(d)
        /\ UNCHANGED <<registration, ticket, sent, crashes, limit>>

\* findById of the registration, whatever its status, and the read of the ticket.
WebhookReadTicket(d) ==
    /\ Goto(d, "readTicket", IF ticket = TicketFor(handling[d]) THEN "idle" ELSE "updateTicket")
    /\ IF ticket = TicketFor(handling[d]) THEN Answer(d) ELSE UNCHANGED <<acked, handling>>
    /\ UNCHANGED <<registration, ticket, payments, sent, crashes, limit>>

WebhookUpdateTicket(d) ==
    /\ Goto(d, "updateTicket", "idle")
    /\ ticket' = TicketFor(handling[d])
    /\ Answer(d)
    /\ UNCHANGED <<registration, payments, sent, crashes, limit>>

WebhookStep(d) ==
    \/ WebhookUpdatePayment(d)
    \/ WebhookReadTicket(d)
    \/ WebhookUpdateTicket(d)

-----------------------------------------------------------------------------
(***************************************************************************)
(* POST /registrations/:registrationId/cancel, on this registration        *)
(***************************************************************************)
CancelFind(c) ==
    /\ Admitted
    /\ Goto(c, "idle", IF registration # "CANCELLED" THEN "cancelRow" ELSE "done")
    /\ UNCHANGED <<registration, ticket, payments, sent, acked, crashes, limit, handling>>

CancelRow(c) ==
    /\ Goto(c, "cancelRow", "cancelTicket")
    /\ registration' = "CANCELLED"
    /\ UNCHANGED <<ticket, payments, sent, acked, crashes, limit, handling>>

\* Mutant: only a ticket that waits for its payment is cancelled.
RevokedIfPending(status) == IF status = "PENDING" THEN "CANCELLED" ELSE status

\* updateTicketStatus, whatever the ticket has become.
Revoked(status) == "CANCELLED"

CancelTicket(c) ==
    /\ Goto(c, "cancelTicket", "done")
    /\ ticket' = Revoked(ticket)
    /\ UNCHANGED <<registration, payments, sent, acked, crashes, limit, handling>>

CancelStep(c) == CancelRow(c) \/ CancelTicket(c)

-----------------------------------------------------------------------------
(***************************************************************************)
(* The provider, which is not part of the repository, and the process      *)
(***************************************************************************)

\* Nothing follows a message that closes the payment; a failed attempt can be
\* followed by a better one.
Closes(m) == Says[m] \in {"SUCCEEDED", "CANCELLED"}

ProviderSend(m) ==
    /\ m \notin sent
    /\ payments[About[m]].status # "NONE"
    /\ ~\E n \in sent : About[n] = About[m] /\ Closes(n)
    /\ sent' = sent \cup {m}
    /\ UNCHANGED <<registration, ticket, payments, acked, crashes, limit, payLocals>>

\* The process is restarted: its handlers are gone.  A request of a client is lost
\* with its handler, a message that was not acknowledged is sent again.
Crash ==
    /\ crashes < MaxCrashes
    /\ InFlight # {}
    /\ crashes' = crashes + 1
    /\ pc' = [h \in Handlers |->
                IF ~Running(h) THEN pc[h] ELSE IF h \in Deliveries THEN "idle" ELSE "dropped"]
    /\ handling' = [d \in Deliveries |-> None]
    /\ UNCHANGED <<registration, ticket, payments, sent, acked, limit>>

Next ==
    \/ \E s \in Sessions : SessionFind(s) \/ SessionStep(s)
    \/ \E d \in Deliveries : WebhookStep(d) \/ \E m \in Messages : WebhookFind(d, m)
    \/ \E c \in Cancels : CancelFind(c) \/ CancelStep(c)
    \/ \E m \in Messages : ProviderSend(m)
    \/ Crash

Redeliver(m) == m \notin acked /\ \E d \in Deliveries : WebhookFind(d, m)

\* PostgreSQL answers every statement.  The provider tries a message again until it
\* is acknowledged, and some attempt finds the service free to serve it.
Fairness ==
    /\ \A s \in Sessions : WF_vars(SessionStep(s))
    /\ \A d \in Deliveries : WF_vars(WebhookStep(d))
    /\ \A c \in Cancels : WF_vars(CancelStep(c))
    /\ \A m \in Messages : SF_vars(Redeliver(m))

Spec == Init /\ [][Next]_vars /\ Fairness

-----------------------------------------------------------------------------
(***************************************************************************)
(* Properties                                                              *)
(***************************************************************************)
SuccessReported == \E m \in sent : Says[m] = "SUCCEEDED"

\* Once a payment session is open, the ticket is valid only if the provider has
\* reported a success: in every interleaving of sessions, webhooks, cancellations
\* and crashes.
NoTicketWithoutPayment ==
    ticket = "ISSUED" /\ (\E s \in Sessions : payments[s].status # "NONE")
        => SuccessReported

\* While no success is reported, the ticket of a cancelled registration is valid only
\* as long as its cancel handler is on its way to revoke it: no session and no
\* message that was read before brings it back.
CancellationRevokes ==
    registration = "CANCELLED" /\ ticket = "ISSUED" /\ crashes = 0 /\ ~SuccessReported
        => \E c \in Cancels : pc[c] = "cancelTicket"

\* The clients and the provider wait for each answer before they send the next request.
Serial == limit = 1

\* When all the payments have succeeded, the provider has been told so and nothing is
\* in progress, the holder has a valid ticket, also if the service has crashed
\* between the payment and the ticket: the retry repairs it.  What a crash of
\* a session or of a cancellation has left behind is not repaired.
PaidMeansTicket ==
    /\ Serial
    /\ InFlight = {}
    /\ registration = "CONFIRMED"
    /\ \A s \in Sessions : pc[s] # "dropped"
    /\ \E s \in Sessions : payments[s].status # "NONE"
    /\ \A s \in Sessions : payments[s].status # "NONE" =>
          \E m \in acked : About[m] = s /\ Says[m] = "SUCCEEDED"
    => ticket = "ISSUED"

\* A success that the provider reports is stored in the end, whatever failed attempts
\* were reported before it and wherever the service crashes, when the messages are
\* served one after the other.
PaymentSettles ==
    \A m \in Messages :
        Serial /\ m \in sent /\ Says[m] = "SUCCEEDED" ~> payments[About[m]].status = "SUCCEEDED"
=============================================================================
