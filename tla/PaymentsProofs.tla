--------------------------- MODULE PaymentsProofs ---------------------------
(***************************************************************************)
(* What TLAPS proves of Payments, for any number of sessions, messages,    *)
(* webhook calls, cancellations and crashes, in every interleaving.        *)
(***************************************************************************)
EXTENDS Payments, FiniteSetTheorems, TLAPS

-----------------------------------------------------------------------------
(***************************************************************************)
(* Types                                                                   *)
(***************************************************************************)
LEMMA InitType == Init => TypeOK
<1> SUFFICES ASSUME Init PROVE TypeOK
    OBVIOUS
<1>1. NoPayment \in Payment
    BY DEF NoPayment, Payment
<1>2. QED
    BY <1>1, BoundsAssumption DEF Init, TypeOK, TicketStatuses, PCs

\* A delivery that is being served works on a message.
Busy == \A d \in Deliveries : Running(d) => handling[d] \in sent

LEMMA HandlerSorts ==
    /\ \A s \in Sessions : s \in Handlers /\ s \notin Deliveries /\ s \notin Cancels
    /\ \A d \in Deliveries : d \in Handlers /\ d \notin Sessions /\ d \notin Cancels
    /\ \A c \in Cancels : c \in Handlers /\ c \notin Sessions /\ c \notin Deliveries
BY HandlersAssumption DEF Handlers

LEMMA NextType == TypeOK /\ Busy /\ [Next]_vars => TypeOK' /\ Busy'
<1> SUFFICES ASSUME TypeOK, Busy, [Next]_vars PROVE TypeOK' /\ Busy'
    OBVIOUS
<1> USE DEF TypeOK, Busy, Running, Goto
<1>1. ASSUME NEW s \in Sessions, SessionFind(s) \/ SessionReadTicket(s) \/ SessionUpdateTicket(s)
      PROVE  TypeOK' /\ Busy'
    BY <1>1, HandlerSorts
    DEF SessionFind, SessionReadTicket, SessionUpdateTicket, PCs, TicketStatuses
<1>2. ASSUME NEW s \in Sessions, SessionInsertPayment(s) PROVE TypeOK' /\ Busy'
    <2>1. payments' \in [Sessions -> Payment]
        BY <1>2 DEF SessionInsertPayment, Payment, PaymentStatuses
    <2>2. QED
        BY <1>2, <2>1, HandlerSorts DEF SessionInsertPayment, PCs
<1>3. ASSUME NEW d \in Deliveries, NEW m \in Messages, WebhookFind(d, m) PROVE TypeOK' /\ Busy'
    BY <1>3, HandlerSorts DEF WebhookFind, payLocals, PCs
<1>4. ASSUME NEW d \in Deliveries, WebhookUpdatePayment(d) PROVE TypeOK' /\ Busy'
    <2>1. handling[d] \in sent /\ handling[d] \in Messages
        BY <1>4, HandlerSorts DEF WebhookUpdatePayment
    <2>2. payments' \in [Sessions -> Payment]
        BY <1>4, <2>1, MessagesAssumption DEF WebhookUpdatePayment, Payment
    <2>3. pc' \in [Handlers -> PCs] /\ pc'[d] \in {"readTicket", "idle"}
        BY <1>4, HandlerSorts DEF WebhookUpdatePayment, PCs
    <2>4. QED
        BY <1>4, <2>1, <2>2, <2>3, HandlerSorts DEF WebhookUpdatePayment, Answer
<1>5. ASSUME NEW d \in Deliveries, WebhookReadTicket(d) \/ WebhookUpdateTicket(d)
      PROVE  TypeOK' /\ Busy'
    <2>1. handling[d] \in sent
        BY <1>5, HandlerSorts DEF WebhookReadTicket, WebhookUpdateTicket
    <2>2. pc' \in [Handlers -> PCs]
        BY <1>5, HandlerSorts DEF WebhookReadTicket, WebhookUpdateTicket, PCs
    <2>3. QED
        BY <1>5, <2>1, <2>2, HandlerSorts
        DEF WebhookReadTicket, WebhookUpdateTicket, Answer, TicketFor, TicketStatuses
<1>6. ASSUME NEW c \in Cancels, CancelFind(c) \/ CancelStep(c) PROVE TypeOK' /\ Busy'
    BY <1>6, HandlerSorts
    DEF CancelFind, CancelStep, CancelRow, CancelTicket, Revoked, PCs, TicketStatuses
<1>7. ASSUME NEW m \in Messages, ProviderSend(m) PROVE TypeOK' /\ Busy'
    BY <1>7 DEF ProviderSend, payLocals
<1>8. CASE Crash
    BY <1>8, HandlerSorts, BoundsAssumption DEF Crash, PCs
<1>9. CASE UNCHANGED vars
    BY <1>9 DEF vars
<1>10. QED
    BY <1>1, <1>2, <1>3, <1>4, <1>5, <1>6, <1>7, <1>8, <1>9
    DEF Next, SessionStep, WebhookStep

\* The variables keep their types.
THEOREM TypeCorrect == Spec => []TypeOK
<1>1. Init => Busy
    BY HandlerSorts DEF Init, Busy, Running
<1>2. QED
    BY <1>1, InitType, NextType, PTL DEF Spec

-----------------------------------------------------------------------------
(***************************************************************************)
(* No valid ticket before a success                                        *)
(***************************************************************************)

\* A handler that is about to write a ticket has a message that asks for it.
AboutTickets ==
    \A d \in Deliveries : pc[d] \in {"readTicket", "updateTicket"} => TouchesTicket(handling[d])

\* A session takes the ticket back before it opens the payment.
OpenedAfter ==
    \A s \in Sessions :
        pc[s] = "insertPayment" \/ payments[s].status # "NONE" => ticket # "ISSUED"

\* The provider has messages only about payments that exist.
SentAfterOpen == \A m \in sent : payments[About[m]].status # "NONE"

TicketInv ==
    /\ TypeOK
    /\ Busy
    /\ AboutTickets
    /\ SentAfterOpen
    /\ SuccessReported \/ OpenedAfter

LEMMA AboutTicketsStep ==
    ASSUME TypeOK, Busy, AboutTickets, [Next]_vars
    PROVE  AboutTickets'
<1> USE DEF TypeOK, AboutTickets, Goto
<1>1. ASSUME NEW h \in Sessions \cup Cancels,
             UNCHANGED handling, \A d \in Deliveries : d # h => pc'[d] = pc[d]
      PROVE  AboutTickets'
    BY <1>1, HandlerSorts DEF TouchesTicket
<1>2. ASSUME NEW s \in Sessions, SessionFind(s) \/ SessionStep(s) PROVE AboutTickets'
    BY <1>1, <1>2, HandlerSorts
    DEF SessionFind, SessionStep, SessionReadTicket, SessionUpdateTicket, SessionInsertPayment
<1>3. ASSUME NEW c \in Cancels, CancelFind(c) \/ CancelStep(c) PROVE AboutTickets'
    BY <1>1, <1>3, HandlerSorts DEF CancelFind, CancelStep, CancelRow, CancelTicket
<1>4. ASSUME NEW d \in Deliveries, WebhookStep(d) \/ \E m \in Messages : WebhookFind(d, m)
      PROVE  AboutTickets'
    <2>1. \A e \in Deliveries \ {d} : pc'[e] = pc[e] /\ handling'[e] = handling[e]
        BY <1>4, HandlerSorts
        DEF WebhookStep, WebhookFind, WebhookUpdatePayment, WebhookReadTicket, WebhookUpdateTicket,
            Answer, payLocals
    <2>2. pc'[d] \in {"readTicket", "updateTicket"} => TouchesTicket(handling'[d])
        BY <1>4, HandlerSorts
        DEF WebhookStep, WebhookFind, WebhookUpdatePayment, WebhookReadTicket, WebhookUpdateTicket,
            Continues, payLocals
    <2>3. QED
        BY <2>1, <2>2 DEF TouchesTicket
<1>5. CASE Crash
    BY <1>5, HandlerSorts DEF Crash, Running
<1>6. CASE UNCHANGED vars \/ \E m \in Messages : ProviderSend(m)
    BY <1>6 DEF vars, ProviderSend, payLocals, TouchesTicket
<1>7. QED
    BY <1>2, <1>3, <1>4, <1>5, <1>6 DEF Next

\* What a step does to the payments: a session inserts its own, a webhook stores the
\* status of a message that was sent.
LEMMA PaymentStep ==
    ASSUME TypeOK, Busy, SentAfterOpen, [Next]_vars, NEW s \in Sessions
    PROVE  /\ payments[s].status # "NONE" => payments'[s].status # "NONE"
           /\ payments[s].status = "NONE" /\ payments'[s].status # "NONE"
              => pc[s] = "insertPayment"
<1>1. CASE UNCHANGED payments
    BY <1>1
<1>2. ASSUME NEW t \in Sessions, SessionInsertPayment(t)
      PROVE  /\ payments[s].status # "NONE" => payments'[s].status # "NONE"
             /\ payments[s].status = "NONE" /\ payments'[s].status # "NONE"
                => pc[s] = "insertPayment"
    <2>1. CASE s = t
        BY <1>2, <2>1 DEF SessionInsertPayment, Goto, TypeOK, Payment
    <2>2. CASE s # t
        BY <1>2, <2>2 DEF SessionInsertPayment, TypeOK
    <2>3. QED
        BY <2>1, <2>2
<1>3. ASSUME NEW d \in Deliveries, WebhookUpdatePayment(d)
      PROVE  payments[s].status = "NONE" <=> payments'[s].status = "NONE"
    <2> DEFINE m == handling[d]
    <2>1. /\ m \in sent
          /\ m \in Messages
          /\ payments[About[m]].status # "NONE"
          /\ Says[m] # "NONE"
        BY <1>3, MessagesAssumption
        DEF WebhookUpdatePayment, Goto, Busy, Running, SentAfterOpen, TypeOK, PaymentStatuses
    <2>2. CASE s = About[m]
        BY <1>3, <2>1, <2>2 DEF WebhookUpdatePayment, TypeOK
    <2>3. CASE s # About[m]
        BY <1>3, <2>3 DEF WebhookUpdatePayment, TypeOK
    <2>4. QED
        BY <2>2, <2>3
<1>4. QED
    BY <1>1, <1>2, <1>3
    DEF Next, vars, payLocals, SessionFind, SessionStep, SessionReadTicket, SessionUpdateTicket,
        WebhookFind, WebhookStep, WebhookReadTicket, WebhookUpdateTicket, CancelFind, CancelStep,
        CancelRow, CancelTicket, ProviderSend, Crash

LEMMA SentStep ==
    ASSUME TypeOK, Busy, SentAfterOpen, [Next]_vars
    PROVE  SentAfterOpen'
<1>1. ASSUME NEW m \in sent' PROVE payments'[About[m]].status # "NONE"
    <2>1. m \in sent \/ ProviderSend(m)
        BY <1>1
        DEF Next, vars, SessionFind, SessionStep, SessionReadTicket, SessionUpdateTicket,
            SessionInsertPayment, WebhookFind, WebhookStep, WebhookUpdatePayment,
            WebhookReadTicket, WebhookUpdateTicket, CancelFind, CancelStep, CancelRow,
            CancelTicket, ProviderSend, Crash
    <2>2. payments[About[m]].status # "NONE"
        BY <2>1 DEF SentAfterOpen, ProviderSend
    <2>3. m \in Messages /\ About[m] \in Sessions
        BY <1>1, NextType, MessagesAssumption DEF TypeOK
    <2>4. QED
        BY <2>2, <2>3, PaymentStep
<1>2. QED
    BY <1>1 DEF SentAfterOpen

\* The provider takes no message back.
LEMMA SuccessStays == [Next]_vars /\ SuccessReported => SuccessReported'
BY DEF Next, vars, payLocals, SuccessReported, SessionFind, SessionStep, SessionReadTicket,
       SessionUpdateTicket, SessionInsertPayment, WebhookFind, WebhookStep, WebhookUpdatePayment,
       WebhookReadTicket, WebhookUpdateTicket, CancelFind, CancelStep, CancelRow, CancelTicket,
       ProviderSend, Crash

\* Only a message of success makes a ticket valid.
LEMMA IssuedByMessage ==
    ASSUME TypeOK, Busy, AboutTickets, [Next]_vars, ticket' = "ISSUED", ticket # "ISSUED"
    PROVE  SuccessReported
<1>1. PICK d \in Deliveries : WebhookUpdateTicket(d)
    BY DEF Next, vars, payLocals, SessionFind, SessionStep, SessionReadTicket,
           SessionUpdateTicket, SessionInsertPayment, WebhookFind, WebhookStep,
           WebhookUpdatePayment, WebhookReadTicket, CancelFind, CancelStep, CancelRow,
           CancelTicket, Revoked, ProviderSend, Crash
<1>2. /\ handling[d] \in sent
      /\ TouchesTicket(handling[d])
      /\ TicketFor(handling[d]) = "ISSUED"
    BY <1>1 DEF WebhookUpdateTicket, Goto, Busy, Running, AboutTickets
<1>3. QED
    BY <1>2 DEF TouchesTicket, TicketFor, SuccessReported

LEMMA NextTicket == TicketInv /\ [Next]_vars => TicketInv'
<1> SUFFICES ASSUME TicketInv, [Next]_vars PROVE TicketInv'
    OBVIOUS
<1>1. TypeOK /\ Busy /\ AboutTickets /\ SentAfterOpen
    BY DEF TicketInv
<1>2. TypeOK' /\ Busy' /\ AboutTickets' /\ SentAfterOpen'
    BY <1>1, NextType, AboutTicketsStep, SentStep
<1>3. CASE SuccessReported
    BY <1>2, <1>3, SuccessStays DEF TicketInv
<1>4. CASE ~SuccessReported
    <2>1. OpenedAfter
        BY <1>4 DEF TicketInv
    <2>2. ticket' = "ISSUED" => ticket = "ISSUED"
        BY <1>1, <1>4, IssuedByMessage
    <2>3. ASSUME NEW s \in Sessions, ticket' = "ISSUED"
          PROVE  pc'[s] # "insertPayment" /\ payments'[s].status = "NONE"
        <3>1. pc[s] # "insertPayment" /\ payments[s].status = "NONE"
            BY <2>1, <2>2, <2>3 DEF OpenedAfter
        <3>2. pc'[s] = "insertPayment" => pc[s] = "insertPayment"
            BY <1>1, <2>2, <2>3, HandlerSorts
            DEF TypeOK, Goto, Next, vars, payLocals, SessionFind, SessionStep, SessionReadTicket,
                SessionUpdateTicket, SessionInsertPayment, WebhookFind, WebhookStep,
                WebhookUpdatePayment, WebhookReadTicket, WebhookUpdateTicket, CancelFind,
                CancelStep, CancelRow, CancelTicket, ProviderSend, Crash
        <3>3. QED
            BY <1>1, <3>1, <3>2, PaymentStep
    <2>4. QED
        BY <1>2, <2>3 DEF TicketInv, OpenedAfter
<1>5. QED
    BY <1>3, <1>4

\* Once a session is open the ticket is valid only after a success.
THEOREM NoTicketBeforePayment == Spec => []NoTicketWithoutPayment
<1>1. Init => TicketInv
    BY InitType, HandlerSorts
    DEF Init, TicketInv, Busy, Running, AboutTickets, SentAfterOpen, OpenedAfter, NoPayment
<1>2. TicketInv => NoTicketWithoutPayment
    BY DEF TicketInv, OpenedAfter, NoTicketWithoutPayment
<1>3. QED
    BY <1>1, <1>2, NextTicket, PTL DEF Spec

-----------------------------------------------------------------------------
(***************************************************************************)
(* A cancellation takes the ticket back                                    *)
(***************************************************************************)
LEMMA NextRevokes == TicketInv /\ CancellationRevokes /\ [Next]_vars => CancellationRevokes'
<1> SUFFICES ASSUME TicketInv, CancellationRevokes, [Next]_vars,
                    registration' = "CANCELLED", ticket' = "ISSUED", crashes' = 0,
                    ~SuccessReported'
             PROVE  \E c \in Cancels : pc'[c] = "cancelTicket"
    BY DEF CancellationRevokes
<1>1. TypeOK /\ Busy /\ AboutTickets
    BY DEF TicketInv
<1>2. ~SuccessReported
    BY SuccessStays
<1>3. ticket = "ISSUED"
    BY <1>1, <1>2, IssuedByMessage
<1>4. ~Crash
    <2>1. crashes \in Nat
        BY <1>1, BoundsAssumption DEF TypeOK
    <2>2. QED
        BY <2>1 DEF Crash
<1>5. crashes = 0
    BY <1>4
    DEF Next, vars, SessionFind, SessionStep, SessionReadTicket, SessionUpdateTicket,
        SessionInsertPayment, WebhookFind, WebhookStep, WebhookUpdatePayment, WebhookReadTicket,
        WebhookUpdateTicket, CancelFind, CancelStep, CancelRow, CancelTicket, ProviderSend
<1>6. CASE registration = "CANCELLED"
    <2>1. PICK c \in Cancels : pc[c] = "cancelTicket"
        BY <1>2, <1>3, <1>5, <1>6 DEF CancellationRevokes
    <2>2. pc'[c] = pc[c]
        BY <1>1, <1>4, <2>1, HandlerSorts
        DEF TypeOK, Goto, Next, vars, payLocals, SessionFind, SessionStep, SessionReadTicket,
            SessionUpdateTicket, SessionInsertPayment, WebhookFind, WebhookStep,
            WebhookUpdatePayment, WebhookReadTicket, WebhookUpdateTicket, CancelFind, CancelStep,
            CancelRow, CancelTicket, Revoked, ProviderSend
    <2>3. QED
        BY <2>1, <2>2
<1>7. CASE registration # "CANCELLED"
    <2>1. PICK c \in Cancels : CancelRow(c)
        BY <1>4, <1>7
        DEF Next, vars, SessionFind, SessionStep, SessionReadTicket, SessionUpdateTicket,
            SessionInsertPayment, WebhookFind, WebhookStep, WebhookUpdatePayment,
            WebhookReadTicket, WebhookUpdateTicket, CancelFind, CancelStep, CancelTicket,
            ProviderSend
    <2>2. pc'[c] = "cancelTicket"
        BY <1>1, <2>1, HandlerSorts DEF CancelRow, Goto, TypeOK
    <2>3. QED
        BY <2>2
<1>8. QED
    BY <1>6, <1>7

\* While no success is reported, nothing restores the ticket of a cancelled
\* registration, whatever sessions and messages its cancellation races with.
THEOREM CancellationAlwaysRevokes == Spec => []CancellationRevokes
<1>1. Init => TicketInv
    BY InitType, HandlerSorts
    DEF Init, TicketInv, Busy, Running, AboutTickets, SentAfterOpen, OpenedAfter, NoPayment
<1>2. Init => CancellationRevokes
    BY DEF Init, CancellationRevokes
<1>3. QED
    BY <1>1, <1>2, NextTicket, NextRevokes, PTL DEF Spec

-----------------------------------------------------------------------------
(***************************************************************************)
(* A payment leads to a ticket, when requests do not overlap               *)
(***************************************************************************)

\* A session has no payment before it inserts it; a cancellation has cancelled the row
\* when it turns to the ticket; what a payment says is what its last message said.
LedgerInv ==
    /\ \A s \in Sessions :
          pc[s] \in {"idle", "readTicket", "updateTicket", "insertPayment"}
              => payments[s] = NoPayment
    /\ \A d \in Deliveries : pc[d] \in {"idle", "updatePayment", "readTicket", "updateTicket"}
    /\ \A c \in Cancels : pc[c] = "cancelTicket" => registration = "CANCELLED"
    /\ \A s \in Sessions :
          payments[s].last # None => payments[s].status = Says[payments[s].last]

LEMMA InitLedger == Init => LedgerInv
BY HandlerSorts DEF Init, LedgerInv, NoPayment

LEMMA NextLedger == TicketInv /\ LedgerInv /\ [Next]_vars => LedgerInv'
<1> SUFFICES ASSUME TicketInv, LedgerInv, [Next]_vars PROVE LedgerInv'
    OBVIOUS
<1>1. TypeOK /\ Busy
    BY DEF TicketInv
<1>2. ASSUME NEW s \in Sessions, SessionFind(s) \/ SessionReadTicket(s) \/ SessionUpdateTicket(s)
      PROVE  LedgerInv'
    BY <1>1, <1>2, HandlerSorts
    DEF TypeOK, LedgerInv, Goto, SessionFind, SessionReadTicket, SessionUpdateTicket
<1>3. ASSUME NEW s \in Sessions, SessionInsertPayment(s) PROVE LedgerInv'
    <2>1. /\ pc[s] = "insertPayment" /\ pc'[s] = "done"
          /\ \A h \in Handlers \ {s} : pc'[h] = pc[h]
          /\ payments' = [payments EXCEPT ![s].status = "PENDING"]
          /\ UNCHANGED registration
        BY <1>1, <1>3, HandlerSorts DEF TypeOK, Goto, SessionInsertPayment
    <2>2. payments[s] = NoPayment
        BY <2>1 DEF LedgerInv
    <2>3. /\ payments'[s].last = None
          /\ \A t \in Sessions \ {s} : payments'[t] = payments[t]
        BY <1>1, <2>1, <2>2 DEF TypeOK, NoPayment
    <2>4. QED
        BY <2>1, <2>3, HandlerSorts DEF LedgerInv
<1>4. ASSUME NEW d \in Deliveries, WebhookUpdatePayment(d) PROVE LedgerInv'
    <2>0. PICK m : m = handling[d]
        OBVIOUS
    <2>1. /\ pc[d] = "updatePayment" /\ pc'[d] \in {"readTicket", "idle"}
          /\ \A h \in Handlers \ {d} : pc'[h] = pc[h]
          /\ payments' = IF payments[About[m]].last = m THEN payments
                         ELSE [payments EXCEPT ![About[m]] = [status |-> Says[m], last |-> m]]
          /\ UNCHANGED registration
        BY <1>1, <1>4, <2>0, HandlerSorts DEF TypeOK, Goto, WebhookUpdatePayment
    <2>2. m \in sent
        BY <1>1, <2>0, <2>1 DEF Busy, Running
    <2>3. m \in Messages /\ About[m] \in Sessions /\ payments[About[m]].status # "NONE"
        BY <1>1, <2>2, MessagesAssumption DEF TypeOK, TicketInv, SentAfterOpen
    <2>4. \A s \in Sessions :
             payments'[s] = payments[s] \/ (s = About[m] /\ payments'[s] = [status |-> Says[m], last |-> m])
        BY <1>1, <2>1, <2>3 DEF TypeOK
    <2>5. NoPayment.status = "NONE"
        BY DEF NoPayment
    <2>6. ASSUME NEW s \in Sessions PROVE
             /\ payments[s] = NoPayment => payments'[s] = NoPayment
             /\ payments'[s].last # None => payments'[s].status = Says[payments'[s].last]
        <3>1. CASE payments'[s] = payments[s]
            BY <3>1 DEF LedgerInv
        <3>2. CASE s = About[m] /\ payments'[s] = [status |-> Says[m], last |-> m]
            BY <2>3, <2>5, <3>2
        <3>3. QED
            BY <2>4, <3>1, <3>2
    <2>7. QED
        BY <2>1, <2>6, HandlerSorts DEF LedgerInv
<1>5. ASSUME NEW d \in Deliveries,
             \/ \E m \in Messages : WebhookFind(d, m)
             \/ WebhookReadTicket(d) \/ WebhookUpdateTicket(d)
      PROVE  LedgerInv'
    BY <1>1, <1>5, HandlerSorts
    DEF TypeOK, LedgerInv, Goto, payLocals, WebhookFind, WebhookReadTicket, WebhookUpdateTicket
<1>6. ASSUME NEW c \in Cancels, CancelFind(c) \/ CancelRow(c) \/ CancelTicket(c)
      PROVE  LedgerInv'
    BY <1>1, <1>6, HandlerSorts
    DEF TypeOK, LedgerInv, Goto, CancelFind, CancelRow, CancelTicket
<1>7. CASE Crash
    BY <1>1, <1>7, HandlerSorts DEF TypeOK, LedgerInv, Crash, Running
<1>8. CASE UNCHANGED vars \/ \E m \in Messages : ProviderSend(m)
    BY <1>8 DEF vars, LedgerInv, ProviderSend, payLocals
<1>9. QED
    BY <1>2, <1>3, <1>4, <1>5, <1>6, <1>7, <1>8 DEF Next, SessionStep, WebhookStep, CancelStep

OneAtATime == \A g, h \in Handlers : Running(g) /\ Running(h) => g = h

\* A success that was acknowledged is stored; a message that is being served was not
\* superseded, and once it is stored the payment says what it says.
SuccessKept ==
    /\ \A m \in acked : Says[m] = "SUCCEEDED" => payments[About[m]].status = "SUCCEEDED"
    /\ \A d \in Deliveries :
          /\ pc[d] = "updatePayment" =>
                (payments[About[handling[d]]].status = "SUCCEEDED" => Says[handling[d]] = "SUCCEEDED")
          /\ pc[d] \in {"readTicket", "updateTicket"} =>
                payments[About[handling[d]]].status = Says[handling[d]]

\* Every payment has succeeded, and the provider was told so.
AllPaid ==
    /\ \E s \in Sessions : payments[s].status # "NONE"
    /\ \A s \in Sessions : payments[s].status # "NONE" =>
          \E m \in acked : About[m] = s /\ Says[m] = "SUCCEEDED"

\* PaidMeansTicket, of states in which requests may be under way.
PaidSettled ==
    /\ registration = "CONFIRMED"
    /\ \A s \in Sessions : pc[s] \notin {"dropped", "insertPayment"}
    /\ AllPaid
    => ticket = "ISSUED"

SerialInv == OneAtATime /\ SuccessKept /\ PaidSettled

\* A request is admitted only when no other is being served.
LEMMA AdmittedAlone ==
    ASSUME limit = 1, Admitted
    PROVE  \A h \in Handlers : ~Running(h)
<1>1. InFlight \in SUBSET Handlers
    BY DEF InFlight
<1>2. IsFiniteSet(InFlight)
    BY <1>1, HandlersAssumption, FS_Subset
<1>3. Cardinality(InFlight) \in Nat
    BY <1>2, FS_CardinalityType
<1>4. Cardinality(InFlight) = 0
    BY <1>3 DEF Admitted
<1>5. InFlight = {}
    BY <1>2, <1>4, FS_EmptySet
<1>6. QED
    BY <1>5 DEF InFlight

LEMMA SessionSerial ==
    ASSUME TicketInv, LedgerInv, limit = 1, SerialInv, NEW s \in Sessions,
           SessionFind(s) \/ SessionStep(s)
    PROVE  SerialInv'
<1>1. TypeOK
    BY DEF TicketInv
<1>2. /\ pc[s] # pc'[s]
      /\ \A h \in Handlers \ {s} : pc'[h] = pc[h] /\ ~Running(h)
      /\ UNCHANGED <<registration, acked, handling>>
      /\ pc'[s] # "dropped"
    BY <1>1, AdmittedAlone, HandlerSorts
    DEF TypeOK, Goto, Running, SerialInv, OneAtATime, SessionFind, SessionStep, SessionReadTicket,
        SessionUpdateTicket, SessionInsertPayment
<1>3. OneAtATime'
    BY <1>2 DEF OneAtATime, Running
<1>4. \A d \in Deliveries : pc'[d] \notin {"updatePayment", "readTicket", "updateTicket"}
    BY <1>2, HandlerSorts DEF Running
<1>5. CASE SessionInsertPayment(s)
    <2>1. /\ pc[s] = "insertPayment" /\ ticket' = ticket
          /\ payments'[s].status = "PENDING"
          /\ \A t \in Sessions \ {s} : payments'[t] = payments[t]
        BY <1>1, <1>5 DEF TypeOK, Goto, SessionInsertPayment, Payment
    <2>2. payments[s].status = "NONE"
        BY <2>1 DEF LedgerInv, NoPayment
    <2>3. \A m \in acked : m \in Messages /\ About[m] \in Sessions /\ About[m] # s
        BY <1>1, <2>2, MessagesAssumption DEF TypeOK, TicketInv, SentAfterOpen
    <2>4. SuccessKept'
        BY <1>2, <1>4, <2>1, <2>3 DEF SerialInv, SuccessKept
    <2>5. PaidSettled'
        BY <1>2, <2>1, <2>3 DEF PaidSettled, AllPaid
    <2>6. QED
        BY <1>3, <2>4, <2>5 DEF SerialInv
<1>6. CASE SessionFind(s) \/ SessionReadTicket(s) \/ SessionUpdateTicket(s)
    <2>1. /\ payments' = payments
          /\ pc'[s] = "insertPayment" \/ ticket' = ticket
          /\ pc[s] \notin {"dropped", "insertPayment"}
        BY <1>1, <1>6, HandlerSorts
        DEF TypeOK, Goto, SessionFind, SessionReadTicket, SessionUpdateTicket
    <2>2. SuccessKept'
        BY <1>2, <1>4, <2>1 DEF SerialInv, SuccessKept
    <2>3. PaidSettled'
        BY <1>2, <2>1, HandlerSorts DEF SerialInv, PaidSettled, AllPaid
    <2>4. QED
        BY <1>3, <2>2, <2>3 DEF SerialInv
<1>7. QED
    BY <1>5, <1>6 DEF SessionStep

LEMMA WebhookSerial ==
    ASSUME TicketInv, LedgerInv, limit = 1, SerialInv, NEW d \in Deliveries,
           WebhookStep(d) \/ \E m \in Messages : WebhookFind(d, m)
    PROVE  SerialInv'
<1>1. TypeOK
    BY DEF TicketInv
<1>2. /\ \A h \in Handlers \ {d} : pc'[h] = pc[h] /\ ~Running(h)
      /\ \A e \in Deliveries \ {d} : handling'[e] = handling[e]
      /\ UNCHANGED registration
    BY <1>1, AdmittedAlone, HandlerSorts
    DEF TypeOK, Goto, Running, SerialInv, OneAtATime, payLocals, Answer, WebhookFind, WebhookStep,
        WebhookUpdatePayment, WebhookReadTicket, WebhookUpdateTicket
<1>3. OneAtATime'
    BY <1>2 DEF OneAtATime, Running
<1>4. /\ \A e \in Deliveries \ {d} : pc'[e] \notin {"updatePayment", "readTicket", "updateTicket"}
      /\ \A s \in Sessions : pc'[s] = pc[s]
    BY <1>2, HandlerSorts DEF Running
<1>5. ASSUME payments' = payments, ticket' = ticket, NEW m,
             acked' = acked \/ (acked' = acked \cup {m} /\ (Says[m] # "SUCCEEDED" \/ ticket = "ISSUED"))
      PROVE  PaidSettled'
    BY <1>2, <1>4, <1>5 DEF SerialInv, PaidSettled, AllPaid
<1>6. ASSUME NEW m \in Messages, WebhookFind(d, m) PROVE SerialInv'
    <2>1. /\ UNCHANGED <<payments, ticket>>
          /\ \/ /\ Superseded(m) /\ acked' = acked \cup {m} /\ UNCHANGED <<pc, handling>>
                /\ pc[d] = "idle"
             \/ /\ ~Superseded(m) /\ acked' = acked /\ handling'[d] = m /\ pc'[d] = "updatePayment"
        BY <1>1, <1>6, HandlerSorts DEF TypeOK, Goto, WebhookFind, payLocals
    <2>2. SuccessKept'
        BY <1>2, <1>4, <2>1 DEF SerialInv, SuccessKept, Superseded
    <2>3. PaidSettled'
        BY <1>5, <2>1 DEF Superseded
    <2>4. QED
        BY <1>3, <2>2, <2>3 DEF SerialInv
<1>7. ASSUME WebhookStep(d) PROVE SerialInv'
    <2>0. PICK m : m = handling[d]
        OBVIOUS
    <2>1. /\ m \in sent /\ m \in Messages /\ About[m] \in Sessions
          /\ payments[About[m]].status # "NONE"
        <3>1. Running(d)
            BY <1>7
            DEF WebhookStep, WebhookUpdatePayment, WebhookReadTicket, WebhookUpdateTicket, Goto,
                Running
        <3>2. QED
            BY <1>1, <2>0, <3>1, MessagesAssumption DEF TypeOK, TicketInv, Busy, SentAfterOpen
    <2>2. \A n \in acked : n \in Messages /\ About[n] \in Sessions
        BY <1>1, MessagesAssumption DEF TypeOK
    <2>3. CASE WebhookUpdatePayment(d)
        <3>1. /\ pc[d] = "updatePayment" /\ ticket' = ticket
              /\ \/ pc'[d] = "idle" /\ ~Continues(m) /\ acked' = acked \cup {m}
                 \/ pc'[d] = "readTicket" /\ acked' = acked /\ handling'[d] = m
              /\ payments' = IF payments[About[m]].last = m THEN payments
                             ELSE [payments EXCEPT ![About[m]] = [status |-> Says[m], last |-> m]]
            BY <1>1, <2>0, <2>3, HandlerSorts DEF TypeOK, Goto, WebhookUpdatePayment, Answer
        <3>2. /\ payments'[About[m]].status = Says[m]
              /\ \A s \in Sessions \ {About[m]} : payments'[s] = payments[s]
            <4>1. CASE payments[About[m]].last = m
                BY <2>1, <3>1, <4>1, MessagesAssumption DEF LedgerInv
            <4>2. CASE payments[About[m]].last # m
                BY <1>1, <2>1, <3>1, <4>2 DEF TypeOK
            <4>3. QED
                BY <4>1, <4>2
        <3>3. payments[About[m]].status = "SUCCEEDED" => Says[m] = "SUCCEEDED"
            BY <2>0, <3>1 DEF SerialInv, SuccessKept
        <3>4. ~Continues(m) => Says[m] # "SUCCEEDED"
            BY DEF Continues, TouchesTicket
        <3>5. SuccessKept'
            <4>1. \A n \in acked' : Says[n] = "SUCCEEDED" => payments'[About[n]].status = "SUCCEEDED"
                BY <2>2, <3>1, <3>2, <3>3, <3>4 DEF SerialInv, SuccessKept
            <4>2. QED
                BY <1>4, <3>1, <3>2, <4>1 DEF SuccessKept
        <3>6. AllPaid' => AllPaid
            <4>1. Says[m] # "NONE"
                BY <2>1, MessagesAssumption DEF PaymentStatuses
            <4>2. \A s \in Sessions : payments'[s].status # "NONE" <=> payments[s].status # "NONE"
                BY <2>1, <3>2, <4>1
            <4>3. QED
                BY <3>1, <3>4, <4>2 DEF AllPaid
        <3>7. PaidSettled'
            BY <1>2, <1>4, <3>1, <3>6 DEF SerialInv, PaidSettled
        <3>8. QED
            BY <1>3, <3>5, <3>7 DEF SerialInv
    <2>4. CASE WebhookReadTicket(d) \/ WebhookUpdateTicket(d)
        <3>1. /\ pc[d] \in {"readTicket", "updateTicket"} /\ payments' = payments
              /\ \/ /\ pc'[d] = "idle" /\ acked' = acked \cup {m} /\ ticket' = TicketFor(m)
                 \/ /\ pc'[d] = "updateTicket" /\ acked' = acked /\ handling'[d] = m
                    /\ ticket' = ticket
            BY <1>1, <2>0, <2>4, HandlerSorts
            DEF TypeOK, Goto, WebhookReadTicket, WebhookUpdateTicket, Answer
        <3>2. payments[About[m]].status = Says[m] /\ TouchesTicket(m)
            BY <2>0, <3>1 DEF SerialInv, SuccessKept, TicketInv, AboutTickets
        <3>3. SuccessKept'
            BY <1>4, <3>1, <3>2 DEF SerialInv, SuccessKept
        <3>4. CASE acked' = acked /\ ticket' = ticket
            BY <1>3, <1>5, <3>1, <3>3, <3>4 DEF SerialInv
        <3>5. CASE acked' = acked \cup {m} /\ ticket' = TicketFor(m)
            <4>1. CASE Says[m] = "SUCCEEDED"
                BY <1>3, <3>3, <3>5, <4>1 DEF SerialInv, PaidSettled, TicketFor
            <4>2. CASE Says[m] # "SUCCEEDED"
                <5>1. ~AllPaid'
                    BY <2>1, <3>1, <3>2, <3>5, <4>2 DEF AllPaid, SerialInv, SuccessKept
                <5>2. QED
                    BY <1>3, <3>3, <5>1 DEF SerialInv, PaidSettled
            <4>3. QED
                BY <4>1, <4>2
        <3>6. QED
            BY <3>1, <3>4, <3>5
    <2>5. QED
        BY <1>7, <2>3, <2>4 DEF WebhookStep
<1>8. QED
    BY <1>6, <1>7

LEMMA CancelSerial ==
    ASSUME TicketInv, LedgerInv, limit = 1, SerialInv, NEW c \in Cancels,
           CancelFind(c) \/ CancelStep(c)
    PROVE  SerialInv'
<1>1. TypeOK
    BY DEF TicketInv
<1>2. /\ \A h \in Handlers \ {c} : pc'[h] = pc[h] /\ ~Running(h)
      /\ UNCHANGED <<payments, acked, handling>>
      /\ registration' = "CONFIRMED" => registration = "CONFIRMED" /\ ticket' = ticket
    BY <1>1, AdmittedAlone, HandlerSorts
    DEF TypeOK, Goto, Running, SerialInv, OneAtATime, LedgerInv, CancelFind, CancelStep,
        CancelRow, CancelTicket
<1>3. OneAtATime'
    BY <1>2 DEF OneAtATime, Running
<1>4. SuccessKept' /\ PaidSettled'
    BY <1>2, HandlerSorts DEF SerialInv, SuccessKept, PaidSettled, AllPaid
<1>5. QED
    BY <1>3, <1>4 DEF SerialInv

LEMMA NextSerial ==
    ASSUME TicketInv, LedgerInv, limit = 1, SerialInv, [Next]_vars
    PROVE  SerialInv'
<1>1. CASE UNCHANGED vars \/ \E m \in Messages : ProviderSend(m)
    BY <1>1
    DEF vars, payLocals, ProviderSend, SerialInv, OneAtATime, Running, SuccessKept, PaidSettled,
        AllPaid
<1>2. CASE Crash
    <2>1. /\ UNCHANGED <<registration, ticket, payments, acked>>
          /\ \A h \in Handlers : ~Running(h)'
          /\ \A s \in Sessions : pc'[s] # "dropped" => pc[s] # "dropped" /\ ~Running(s)
        BY <1>2, HandlerSorts DEF Crash, Running
    <2>2. SuccessKept' /\ OneAtATime'
        BY <2>1, HandlerSorts DEF SerialInv, SuccessKept, OneAtATime, Running
    <2>3. PaidSettled'
        BY <2>1 DEF SerialInv, PaidSettled, AllPaid, Running
    <2>4. QED
        BY <2>2, <2>3 DEF SerialInv
<1>3. QED
    BY <1>1, <1>2, SessionSerial, WebhookSerial, CancelSerial DEF Next

\* When requests do not overlap, the last answer to the provider about payments that have
\* all succeeded leaves a valid ticket, whatever failed attempts, retries, sessions and
\* crashes came before it.
THEOREM PaidAlwaysMeansTicket == Spec => []PaidMeansTicket
<1> DEFINE PaidInv == limit = 1 => SerialInv
<1>1. Init => TicketInv /\ LedgerInv /\ PaidInv
    <2>1. Init => TicketInv
        BY InitType, HandlerSorts
        DEF Init, TicketInv, Busy, Running, AboutTickets, SentAfterOpen, OpenedAfter, NoPayment
    <2>2. Init => SerialInv
        BY HandlerSorts
        DEF Init, SerialInv, OneAtATime, Running, SuccessKept, PaidSettled
    <2>3. QED
        BY <2>1, <2>2, InitLedger
<1>2. TicketInv /\ LedgerInv /\ PaidInv /\ [Next]_vars => PaidInv'
    <2>1. [Next]_vars => limit' = limit
        BY DEF Next, vars, SessionFind, SessionStep, SessionReadTicket, SessionUpdateTicket,
            SessionInsertPayment, WebhookFind, WebhookStep, WebhookUpdatePayment,
            WebhookReadTicket, WebhookUpdateTicket, CancelFind, CancelStep, CancelRow,
            CancelTicket, ProviderSend, Crash
    <2>2. QED
        BY <2>1, NextSerial
<1>3. PaidInv => PaidMeansTicket
    BY HandlerSorts DEF SerialInv, PaidSettled, AllPaid, PaidMeansTicket, Serial, InFlight, Running
<1> HIDE DEF PaidInv
<1>4. QED
    BY <1>1, <1>2, <1>3, NextTicket, NextLedger, PTL DEF Spec
=============================================================================
