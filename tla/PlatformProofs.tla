---------------------------- MODULE PlatformProofs ----------------------------
(***************************************************************************)
(* What TLAPS proves of the parts of Platform: of the desk for payments,   *)
(* the procedures, the readiness of the containers, the demonstration      *)
(* data, the alerts and the requests through the gateway; for any number   *)
(* of reports, plans, containers' failures, changes, runs of the seeds,    *)
(* counted calls and requests.                                             *)
(***************************************************************************)
EXTENDS Platform, TLAPS, FiniteSetTheorems, SequenceTheorems, WellFoundedInduction

-----------------------------------------------------------------------------
(***************************************************************************)
(* The parts                                                               *)
(***************************************************************************)

\* A step of the platform is a step of each part, or leaves that part alone: what is proved
\* below of the specification of a part holds of it in the platform.
LEMMA PartsStep ==
    [PNext]_pvars =>
        /\ [Next]_vars
        /\ [Mo!Next]_(Mo!vars)
        /\ [Pr!Next]_(Pr!vars)
        /\ [Re!Next]_(Re!vars)
        /\ [Se!Next]_(Se!vars)
        /\ [Ga!Next]_(Ga!vars)
BY DEF PNext, pvars, vars, monitoring, procedure, platform, data, gateway,
       Mo!vars, Pr!vars, Re!vars, Se!vars, Ga!vars, Ga!data

-----------------------------------------------------------------------------
(***************************************************************************)
(* The decisions                                                           *)
(***************************************************************************)
LEMMA RegistrationDecided ==
    ASSUME NEW s \in Statuses, NEW r \in RegistrationStatuses
    PROVE  /\ NextRegistration(s, r) \in RegistrationStatuses
           /\ r \in {"CANCELLED", "REFUNDED"} => NextRegistration(s, r) = r
           /\ NextRegistration(s, NextRegistration(s, r)) = NextRegistration(s, r)
<1> USE DEF NextRegistration, RegistrationRejects, Statuses, RegistrationStatuses, Target,
            RegistrationMoves
<1>1. CASE r = "PENDING_PAYMENT"
    BY <1>1
<1>2. CASE r = "CONFIRMED"
    BY <1>2
<1>3. CASE r = "REFUND_PENDING"
    BY <1>3
<1>4. CASE r \in {"CANCELLED", "REFUNDED"}
    BY <1>4
<1>5. QED
    BY <1>1, <1>2, <1>3, <1>4

LEMMA TicketDecided ==
    ASSUME NEW s \in Statuses, NEW r \in RegistrationStatuses, NEW t \in TicketStatuses
    PROVE  /\ NextTicket(s, r, t) \in TicketStatuses
           /\ t = "VOIDED" => NextTicket(s, r, t) = t
           /\ NextTicket(s, r, NextTicket(s, r, t)) = NextTicket(s, r, t)
<1>1. TicketTarget(s, r, t) \in {"ISSUED", "VOIDED", "NOT_ISSUED"}
    BY DEF TicketTarget
<1>2. CASE t = "VOIDED"
    BY <1>1, <1>2 DEF NextTicket, TicketRejects, TicketMoves, TicketStatuses
<1>3. CASE t = "ISSUED"
    BY <1>3 DEF NextTicket, TicketRejects, TicketTarget, TicketMoves, TicketStatuses
<1>4. CASE t = "NOT_ISSUED"
    BY <1>4 DEF NextTicket, TicketRejects, TicketTarget, TicketMoves, TicketStatuses
<1>5. QED
    BY <1>2, <1>3, <1>4 DEF TicketStatuses

-----------------------------------------------------------------------------
(***************************************************************************)
(* The entries of an order                                                 *)
(***************************************************************************)
Transaction == [status : Statuses, reconciliation : Reconciliations, required : BOOLEAN,
                attempts : Nat]

\* The four statuses, given the three rows.
StatusesOf(tx, r, t) == [payment |-> tx.status, reconciliation |-> tx.reconciliation,
                         registration |-> r, ticket |-> t]

Now == StatusesOf(transaction, registration, ticket)

\* What the entries of seq say is so by the statuses now.
Tells(seq, now) ==
    \A i \in DOMAIN seq : seq[i].about = "order" \/ seq[i].to = now[seq[i].about]

Abouts(seq) == {seq[i].about : i \in DOMAIN seq}

LEMMA Joined ==
    ASSUME NEW a \in Seq(Entry), NEW b \in Seq(Entry), NEW now,
           Tells(a, now), Tells(b, now)
    PROVE  /\ a \o b \in Seq(Entry)
           /\ Tells(a \o b, now)
           /\ Abouts(a \o b) = Abouts(a) \cup Abouts(b)
<1>1. /\ a \o b \in Seq(Entry)
      /\ Len(a) \in Nat /\ Len(b) \in Nat
      /\ DOMAIN a = 1 .. Len(a) /\ DOMAIN b = 1 .. Len(b)
      /\ DOMAIN (a \o b) = 1 .. (Len(a) + Len(b))
      /\ \A i \in DOMAIN a : (a \o b)[i] = a[i]
      /\ \A i \in DOMAIN b : (a \o b)[Len(a) + i] = b[i]
    OBVIOUS
<1>2. \A i \in DOMAIN (a \o b) :
         \/ i \in DOMAIN a /\ (a \o b)[i] = a[i]
         \/ i - Len(a) \in DOMAIN b /\ (a \o b)[i] = b[i - Len(a)]
    BY <1>1
<1>3. Tells(a \o b, now)
    BY <1>2 DEF Tells
<1>4. Abouts(a \o b) \subseteq Abouts(a) \cup Abouts(b)
    BY <1>2 DEF Abouts
<1>5. \A i \in DOMAIN a : i \in DOMAIN (a \o b)
    BY <1>1
<1>6. \A i \in DOMAIN b : Len(a) + i \in DOMAIN (a \o b)
    BY <1>1
<1>7. Abouts(a) \cup Abouts(b) \subseteq Abouts(a \o b)
    BY <1>1, <1>5, <1>6 DEF Abouts
<1>8. QED
    BY <1>1, <1>3, <1>4, <1>7

LEMMA ChangeTells ==
    ASSUME NEW field \in Fields, NEW from \in Values, NEW now,
           now[field] \in Values
    PROVE  /\ Change(field, from, now[field]) \in Seq(Entry)
           /\ Tells(Change(field, from, now[field]), now)
           /\ from # now[field] => field \in Abouts(Change(field, from, now[field]))
<1>1. [about |-> field, from |-> from, to |-> now[field]] \in Entry
    BY DEF Entry
<1>2. CASE from = now[field]
    BY <1>2 DEF Change, Tells
<1>3. CASE from # now[field]
    <2>1. Change(field, from, now[field])
            = <<[about |-> field, from |-> from, to |-> now[field]]>>
        BY <1>3 DEF Change
    <2>2. QED
        BY <1>1, <2>1 DEF Tells, Abouts
<1>4. QED
    BY <1>2, <1>3

\* The entries of an order, with its last one.
Entries(tx, r, t, last) == <<Told>> \o Changes(tx, r, t) \o <<last>>

Override(s) == [about |-> "payment", from |-> transaction.status, to |-> s]

LEMMA EntriesTell ==
    ASSUME TypeOK, NEW tx \in Transaction, NEW r \in RegistrationStatuses,
           NEW t \in TicketStatuses, NEW last \in {Told, Override(tx.status)}
    PROVE  /\ Entries(tx, r, t, last) \in Seq(Entry)
           /\ Tells(Entries(tx, r, t, last), StatusesOf(tx, r, t))
           /\ \A f \in Fields : Now[f] # StatusesOf(tx, r, t)[f]
                                  => f \in Abouts(Entries(tx, r, t, last))
<1> DEFINE now == StatusesOf(tx, r, t)
           p == Change("payment", transaction.status, tx.status)
           c == Change("reconciliation", transaction.reconciliation, tx.reconciliation)
           g == Change("registration", registration, r)
           k == Change("ticket", ticket, t)
<1>1. /\ now["payment"] = tx.status /\ now["reconciliation"] = tx.reconciliation
      /\ now["registration"] = r /\ now["ticket"] = t
    BY DEF StatusesOf
<1>2. /\ tx.status \in Values /\ tx.reconciliation \in Values /\ r \in Values /\ t \in Values
      /\ transaction.status \in Values /\ transaction.reconciliation \in Values
      /\ registration \in Values /\ ticket \in Values
    BY DEF Values, TypeOK, Transaction
<1>3. {"payment", "reconciliation", "registration", "ticket"} = Fields
    BY DEF Fields
<1> HIDE DEF now
<1>4. p \in Seq(Entry) /\ Tells(p, now) /\ (transaction.status # tx.status => "payment" \in Abouts(p))
    BY <1>1, <1>2, <1>3, ChangeTells
<1>5. c \in Seq(Entry) /\ Tells(c, now)
      /\ (transaction.reconciliation # tx.reconciliation => "reconciliation" \in Abouts(c))
    BY <1>1, <1>2, <1>3, ChangeTells
<1>6. g \in Seq(Entry) /\ Tells(g, now) /\ (registration # r => "registration" \in Abouts(g))
    BY <1>1, <1>2, <1>3, ChangeTells
<1>7. k \in Seq(Entry) /\ Tells(k, now) /\ (ticket # t => "ticket" \in Abouts(k))
    BY <1>1, <1>2, <1>3, ChangeTells
<1>8. /\ <<Told>> \in Seq(Entry) /\ Tells(<<Told>>, now)
      /\ <<last>> \in Seq(Entry) /\ Tells(<<last>>, now)
    <2>1. Told \in Entry /\ Told.about = "order"
        BY DEF Told, Entry
    <2>2. Override(tx.status) \in Entry /\ Override(tx.status).about = "payment"
          /\ Override(tx.status).to = now["payment"]
        BY <1>1, <1>2 DEF Override, Entry, Fields
    <2>3. QED
        BY <2>1, <2>2 DEF Tells
<1> HIDE DEF p, c, g, k
<1>9. p \o c \in Seq(Entry) /\ Tells(p \o c, now) /\ Abouts(p \o c) = Abouts(p) \cup Abouts(c)
    BY <1>4, <1>5, Joined
<1>10. /\ p \o c \o g \in Seq(Entry) /\ Tells(p \o c \o g, now)
       /\ Abouts(p \o c \o g) = Abouts(p \o c) \cup Abouts(g)
    BY <1>6, <1>9, Joined
<1>11. /\ p \o c \o g \o k \in Seq(Entry) /\ Tells(p \o c \o g \o k, now)
       /\ Abouts(p \o c \o g \o k) = Abouts(p \o c \o g) \cup Abouts(k)
    BY <1>7, <1>10, Joined
<1>12. Changes(tx, r, t) = p \o c \o g \o k
    BY DEF Changes, p, c, g, k
<1>13. /\ <<Told>> \o Changes(tx, r, t) \in Seq(Entry) /\ Tells(<<Told>> \o Changes(tx, r, t), now)
       /\ Abouts(<<Told>> \o Changes(tx, r, t)) = Abouts(<<Told>>) \cup Abouts(Changes(tx, r, t))
    <2>1. Changes(tx, r, t) \in Seq(Entry) /\ Tells(Changes(tx, r, t), now)
        BY <1>11, <1>12
    <2>2. QED
        BY <1>8, <2>1, Joined
<1>14. /\ Entries(tx, r, t, last) \in Seq(Entry) /\ Tells(Entries(tx, r, t, last), now)
       /\ Abouts(Entries(tx, r, t, last))
            = Abouts(<<Told>> \o Changes(tx, r, t)) \cup Abouts(<<last>>)
    BY <1>8, <1>13, Joined DEF Entries
<1>15. ASSUME NEW f \in Fields, Now[f] # now[f] PROVE f \in Abouts(Entries(tx, r, t, last))
    <2>1. /\ Now["payment"] = transaction.status
          /\ Now["reconciliation"] = transaction.reconciliation
          /\ Now["registration"] = registration /\ Now["ticket"] = ticket
        BY DEF Now, StatusesOf
    <2>2. f \in Abouts(p) \cup Abouts(c) \cup Abouts(g) \cup Abouts(k)
        BY <1>1, <1>4, <1>5, <1>6, <1>7, <1>15, <2>1 DEF Fields
    <2>3. QED
        BY <2>2, <1>9, <1>10, <1>11, <1>12, <1>13, <1>14
<1>16. QED
    BY <1>14, <1>15 DEF now

-----------------------------------------------------------------------------
(***************************************************************************)
(* The audit trail                                                         *)
(***************************************************************************)

\* TrailIsCurrent, of any trail.
Fresh(seq, now, mv) ==
    \A i \in DOMAIN seq :
        \/ seq[i].about \in mv \cup {"order"}
        \/ \E j \in DOMAIN seq : j > i /\ seq[j].about = seq[i].about
        \/ seq[i].to = now[seq[i].about]

LEMMA FreshJoined ==
    ASSUME NEW old \in Seq(Entry), NEW new \in Seq(Entry), NEW mv, NEW before, NEW now,
           Fresh(old, before, mv), Tells(new, now),
           \A f \in Fields : before[f] # now[f] => f \in Abouts(new)
    PROVE  Fresh(old \o new, now, mv \ Abouts(new))
<1> DEFINE all == old \o new
<1>1. /\ all \in Seq(Entry)
      /\ Len(old) \in Nat /\ Len(new) \in Nat
      /\ DOMAIN old = 1 .. Len(old) /\ DOMAIN new = 1 .. Len(new)
      /\ DOMAIN all = 1 .. (Len(old) + Len(new))
      /\ \A i \in DOMAIN old : all[i] = old[i]
      /\ \A i \in DOMAIN new : all[Len(old) + i] = new[i]
    OBVIOUS
<1> HIDE DEF all
<1> SUFFICES ASSUME NEW i \in DOMAIN all
             PROVE  \/ all[i].about \in (mv \ Abouts(new)) \cup {"order"}
                    \/ \E j \in DOMAIN all : j > i /\ all[j].about = all[i].about
                    \/ all[i].to = now[all[i].about]
    BY DEF Fresh, all
<1>2. CASE i \in DOMAIN old
    <2>1. all[i] = old[i] /\ old[i] \in Entry
        BY <1>1, <1>2
    <2>2. CASE old[i].about \in Abouts(new)
        <3>1. PICK n \in DOMAIN new : new[n].about = old[i].about
            BY <2>2 DEF Abouts
        <3>2. Len(old) + n \in DOMAIN all /\ Len(old) + n > i /\ all[Len(old) + n] = new[n]
            BY <1>1, <1>2
        <3>3. QED
            BY <2>1, <3>1, <3>2
    <2>3. CASE old[i].about \notin Abouts(new)
        <3>1. CASE old[i].about \in mv \cup {"order"}
            BY <2>1, <2>3, <3>1
        <3>2. CASE \E j \in DOMAIN old : j > i /\ old[j].about = old[i].about
            <4>1. PICK j \in DOMAIN old : j > i /\ old[j].about = old[i].about
                BY <3>2
            <4>2. j \in DOMAIN all /\ all[j] = old[j]
                BY <1>1
            <4>3. QED
                BY <2>1, <4>1, <4>2
        <3>3. CASE old[i].about # "order" /\ old[i].to = before[old[i].about]
            <4>1. old[i].about \in Fields
                BY <2>1, <3>3 DEF Entry
            <4>2. QED
                BY <2>1, <2>3, <3>3, <4>1
        <3>4. QED
            BY <1>2, <3>1, <3>2, <3>3 DEF Fresh
    <2>4. QED
        BY <2>2, <2>3
<1>3. CASE i \notin DOMAIN old
    <2>1. i - Len(old) \in DOMAIN new /\ all[i] = new[i - Len(old)]
        BY <1>1, <1>3
    <2>2. QED
        BY <2>1 DEF Tells
<1>4. QED
    BY <1>2, <1>3

LEMMA FreshKept ==
    ASSUME NEW old \in Seq(Entry), NEW new \in Seq(Entry), NEW mv, NEW now,
           Fresh(old \o new, now, mv)
    PROVE  Keep(old, new) \in Seq(Entry) /\ Fresh(Keep(old, new), now, mv)
<1> DEFINE all == old \o new
           kept == Keep(old, new)
           gone == Len(all) - MaxEntries
<1>1. all \in Seq(Entry) /\ Len(all) \in Nat /\ DOMAIN all = 1 .. Len(all)
    OBVIOUS
<1>2. Fresh(all, now, mv)
    OBVIOUS
<1>3. kept = IF Len(all) <= MaxEntries THEN all ELSE SubSeq(all, gone + 1, Len(all))
    BY DEF Keep
<1> HIDE DEF all, kept
<1>4. CASE Len(all) <= MaxEntries
    BY <1>1, <1>2, <1>3, <1>4 DEF kept
<1>5. CASE ~(Len(all) <= MaxEntries)
    <2>1. kept = SubSeq(all, gone + 1, Len(all)) /\ gone \in Nat /\ gone <= Len(all)
        BY <1>1, <1>3, <1>5, TicketDeskAssumption
    <2>2. kept \in Seq(Entry) /\ DOMAIN kept = 1 .. MaxEntries
          /\ \A i \in 1 .. MaxEntries : kept[i] = all[i + gone] /\ i + gone \in DOMAIN all
        <3>1. /\ gone + 1 \in Int /\ Len(all) \in Int
              /\ \A i \in gone + 1 .. Len(all) : all[i] \in Entry
            BY <1>1, <2>1
        <3>2. /\ kept \in Seq(Entry)
              /\ Len(kept) = (IF gone + 1 <= Len(all) THEN Len(all) - (gone + 1) + 1 ELSE 0)
              /\ \A i \in 1 .. Len(all) - (gone + 1) + 1 : kept[i] = all[(gone + 1) + i - 1]
            BY <2>1, <3>1, SubSeqProperties
        <3>3. MaxEntries \in Nat /\ Len(all) - (gone + 1) + 1 = MaxEntries
            BY <1>1, TicketDeskAssumption
        <3>4. Len(kept) = MaxEntries /\ DOMAIN kept = 1 .. MaxEntries
            BY <1>1, <2>1, <3>2, <3>3
        <3>5. ASSUME NEW i \in 1 .. MaxEntries
              PROVE  kept[i] = all[i + gone] /\ i + gone \in DOMAIN all
            <4>1. (gone + 1) + i - 1 = i + gone /\ i + gone \in DOMAIN all
                BY <1>1, <2>1, <3>3
            <4>2. QED
                BY <3>2, <3>3, <4>1
        <3>6. QED
            BY <3>2, <3>4, <3>5
    <2>3. ASSUME NEW j \in DOMAIN all, j > gone
          PROVE  j - gone \in DOMAIN kept /\ kept[j - gone] = all[j]
        <3>1. j - gone \in 1 .. MaxEntries /\ (j - gone) + gone = j
            BY <1>1, <2>1, <2>3, TicketDeskAssumption
        <3>2. QED
            BY <2>2, <3>1
    <2>4. ASSUME NEW i \in DOMAIN kept
          PROVE  \/ kept[i].about \in mv \cup {"order"}
                 \/ \E j \in DOMAIN kept : j > i /\ kept[j].about = kept[i].about
                 \/ kept[i].to = now[kept[i].about]
        <3>1. i + gone \in DOMAIN all /\ kept[i] = all[i + gone] /\ i \in Nat /\ i > 0
            BY <2>2, TicketDeskAssumption
        <3>2. CASE \E j \in DOMAIN all : j > i + gone /\ all[j].about = all[i + gone].about
            <4>1. PICK j \in DOMAIN all : j > i + gone /\ all[j].about = all[i + gone].about
                BY <3>2
            <4>2. j \in Nat /\ j > gone /\ j - gone > i
                BY <1>1, <2>1, <3>1, <4>1
            <4>3. j - gone \in DOMAIN kept /\ kept[j - gone] = all[j]
                BY <2>3, <4>2
            <4>4. QED
                BY <3>1, <4>1, <4>2, <4>3
        <3>3. QED
            BY <1>2, <3>1, <3>2 DEF Fresh
    <2>5. Fresh(kept, now, mv)
        BY <2>4 DEF Fresh
    <2>6. QED
        BY <2>2, <2>5 DEF kept
<1>6. QED
    BY <1>4, <1>5

-----------------------------------------------------------------------------
(***************************************************************************)
(* The steps                                                               *)
(***************************************************************************)

\* An order that is carried out.
CarriedOut ==
    \E tx \in Transaction, r \in RegistrationStatuses, t \in TicketStatuses,
       result \in {"APPLIED", "RESOLVED"} :
        \E last \in {Told, Override(tx.status)} :
            /\ Carry(tx, r, t, last, result)
            /\ registration \in {"CANCELLED", "REFUNDED"} => r = registration
            /\ ticket = "VOIDED" => t = ticket
            /\ result = "RESOLVED" => Settled(tx.status, r, t)

LEMMA ResolveCarries ==
    ASSUME TypeOK, NEW s \in {"PAID", "FAILED"}, Resolve(s)
    PROVE  Refuse \/ CarriedOut
<1> DEFINE r == NextRegistration(s, registration)
           t == NextTicket(s, r, ticket)
           tx == [transaction EXCEPT !.status = s, !.reconciliation = "RESOLVED",
                                     !.required = FALSE]
<1>1. CASE RegistrationRejects(s, registration) \/ TicketRejects(s, r, ticket)
    BY <1>1 DEF Resolve
<1>2. CASE ~(RegistrationRejects(s, registration) \/ TicketRejects(s, r, ticket))
    <2>1. s \in Statuses /\ registration \in RegistrationStatuses /\ ticket \in TicketStatuses
        BY DEF Statuses, TypeOK
    <2>2. /\ r \in RegistrationStatuses
          /\ registration \in {"CANCELLED", "REFUNDED"} => r = registration
          /\ NextRegistration(s, r) = r
        BY <2>1, RegistrationDecided
    <2>3. /\ t \in TicketStatuses
          /\ ticket = "VOIDED" => t = ticket
          /\ NextTicket(s, r, t) = t
        BY <2>1, <2>2, TicketDecided
    <2>4. tx \in Transaction /\ tx.status = s
        BY <2>1 DEF TypeOK, Transaction, Reconciliations
    <2>5. Carry(tx, r, t, Override(s), "RESOLVED")
        BY <1>2 DEF Resolve, Override
    <2>6. Settled(tx.status, r, t)
        BY <2>2, <2>3, <2>4 DEF Settled
    <2> HIDE DEF r, t, tx
    <2>7. QED
        BY <2>2, <2>3, <2>4, <2>5, <2>6 DEF CarriedOut
<1>3. QED
    BY <1>1, <1>2

LEMMA OrderCarries ==
    ASSUME TypeOK, NEW o \in Orders, NEW noted \in BOOLEAN, Order(o, noted)
    PROVE  Refuse \/ CarriedOut
<1>1. ASSUME NEW tx \in Transaction, Carry(tx, registration, ticket, Told, "APPLIED")
      PROVE  CarriedOut
    BY <1>1 DEF CarriedOut, TypeOK
<1>2. CASE Annotate
    <2> DEFINE tx == [transaction EXCEPT
                         !.reconciliation = IF @ = "NONE" THEN "NEEDS_REVIEW" ELSE @,
                         !.required = TRUE]
    <2>1. tx \in Transaction
        BY DEF TypeOK, Transaction, Reconciliations
    <2>2. QED
        BY <1>1, <1>2, <2>1 DEF Annotate
<1>3. CASE RetryCheck
    <2> DEFINE tx == [transaction EXCEPT !.reconciliation = "IN_PROGRESS", !.required = FALSE,
                                         !.attempts = @ + 1]
    <2>1. tx \in Transaction
        <3>0. transaction \in Transaction
            BY DEF TypeOK, Transaction
        <3>1. transaction.attempts + 1 \in Nat
            BY <3>0 DEF Transaction
        <3>2. "IN_PROGRESS" \in Reconciliations
            BY DEF Reconciliations
        <3>3. QED
            BY <3>0, <3>1, <3>2 DEF Transaction
    <2>2. QED
        BY <1>1, <1>3, <2>1 DEF RetryCheck
<1>4. CASE MarkIrrecoverable
    <2> DEFINE tx == [transaction EXCEPT !.reconciliation = "IRRECOVERABLE", !.required = FALSE]
    <2>1. tx \in Transaction
        BY DEF TypeOK, Transaction, Reconciliations
    <2>2. QED
        BY <1>1, <1>4, <2>1 DEF MarkIrrecoverable
<1>5. CASE Resolve("PAID") \/ Resolve("FAILED")
    BY <1>5, ResolveCarries
<1>6. QED
    BY <1>2, <1>3, <1>4, <1>5 DEF Order

\* What a step does, whichever it is.
LEMMA StepCases ==
    ASSUME TypeOK, Next
    PROVE  \/ \E s \in Statuses : Report(s)
           \/ Withdraw
           \/ Propagate
           \/ Gate
           \/ IssueArtifact
           \/ /\ orders' = orders + 1 /\ orders < MaxOrders /\ UNCHANGED reports
              /\ Refuse \/ CarriedOut
<1>1. ASSUME NEW o \in Orders, NEW noted \in BOOLEAN, Order(o, noted)
      PROVE  /\ orders' = orders + 1 /\ orders < MaxOrders /\ UNCHANGED reports
             /\ Refuse \/ CarriedOut
    BY <1>1, OrderCarries DEF Order
<1>2. QED
    BY <1>1 DEF Next

-----------------------------------------------------------------------------
(***************************************************************************)
(* The invariant: types, and the audit trail                               *)
(***************************************************************************)
TrailInv == TypeOK /\ Fresh(trail, Now, moved)

LEMMA FreshIsCurrent == TypeOK /\ Fresh(trail, Now, moved) => TrailIsCurrent
BY DEF Fresh, Now, StatusesOf, TrailIsCurrent, Current

LEMMA InitTrail == Init => TrailInv
<1> SUFFICES ASSUME Init PROVE TrailInv
    OBVIOUS
<1>1. trail = <<>> /\ trail \in Seq(Entry) /\ DOMAIN trail = {}
    <2>1. <<>> \in Seq(Entry) /\ DOMAIN <<>> = 1 .. 0
        OBVIOUS
    <2>2. 1 .. 0 = {}
        OBVIOUS
    <2>3. trail = <<>>
        BY DEF Init
    <2>4. QED
        BY <2>1, <2>2, <2>3
<1>2. Fresh(trail, Now, moved)
    BY <1>1 DEF Fresh
<1>3. TypeOK
    <2>1. transaction \in Transaction
        BY DEF Init, Transaction, Statuses, Reconciliations
    <2>2. registration \in RegistrationStatuses /\ ticket \in TicketStatuses
        BY DEF Init, RegistrationStatuses, TicketStatuses
    <2>3. reports \in 0 .. MaxReports /\ orders \in 0 .. MaxOrders
        <3>1. \A n \in Nat : 0 \in 0 .. n
            OBVIOUS
        <3>2. QED
            BY <3>1, TicketDeskAssumption DEF Init
    <2>4. moved \subseteq Fields /\ answer \in {"", "APPLIED", "RESOLVED", "REJECT"}
        BY DEF Init
    <2>5. QED
        BY <1>1, <2>1, <2>2, <2>3, <2>4 DEF TypeOK, Transaction
<1>4. QED
    BY <1>2, <1>3 DEF TrailInv

\* A change that an order does not make: it is among those the trail does not tell of.
LEMMA MovedTrail ==
    ASSUME TrailInv, UNCHANGED trail, NEW f \in Fields, moved' = moved \cup {f},
           \A g \in Fields \ {f} : Now'[g] = Now[g]
    PROVE  Fresh(trail, Now, moved)'
<1> SUFFICES ASSUME NEW i \in DOMAIN trail
             PROVE  \/ trail[i].about \in moved' \cup {"order"}
                    \/ \E j \in DOMAIN trail : j > i /\ trail[j].about = trail[i].about
                    \/ trail[i].to = Now'[trail[i].about]
    BY DEF Fresh
<1>1. trail[i].about \in Fields \cup {"order"}
    <2>0. trail \in Seq(Entry)
        BY DEF TrailInv, TypeOK
    <2>1. trail[i] \in Entry
        BY <2>0
    <2>2. QED
        BY <2>1 DEF Entry
<1>2. CASE trail[i].about \in {f, "order"}
    BY <1>2
<1>3. CASE trail[i].about \in Fields \ {f}
    BY <1>3 DEF TrailInv, Fresh
<1>4. QED
    BY <1>1, <1>2, <1>3

LEMMA CarriedTrail == ASSUME TrailInv, CarriedOut, orders' \in 0 .. MaxOrders, UNCHANGED reports
                      PROVE  TrailInv'
<1>1. PICK tx \in Transaction, r \in RegistrationStatuses, t \in TicketStatuses,
           result \in {"APPLIED", "RESOLVED"} :
           \E last \in {Told, Override(tx.status)} : Carry(tx, r, t, last, result)
    BY DEF CarriedOut
<1>2. PICK last \in {Told, Override(tx.status)} : Carry(tx, r, t, last, result)
    BY <1>1
<1> DEFINE new == Entries(tx, r, t, last)
<1>3. /\ new \in Seq(Entry)
      /\ Tells(new, StatusesOf(tx, r, t))
      /\ \A f \in Fields : Now[f] # StatusesOf(tx, r, t)[f] => f \in Abouts(new)
    BY <1>2, EntriesTell DEF TrailInv
<1>4. /\ transaction' = tx /\ registration' = r /\ ticket' = t
      /\ trail' = Keep(trail, new) /\ moved' = moved \ Abouts(new) /\ answer' = result
    BY <1>2 DEF Carry, Entries, Abouts
<1> HIDE DEF new
<1>5. trail \in Seq(Entry) /\ Fresh(trail, Now, moved)
    BY DEF TrailInv, TypeOK
<1>6. Fresh(trail \o new, StatusesOf(tx, r, t), moved \ Abouts(new))
    BY <1>3, <1>5, FreshJoined
<1>7. /\ Keep(trail, new) \in Seq(Entry)
      /\ Fresh(Keep(trail, new), StatusesOf(tx, r, t), moved \ Abouts(new))
    BY <1>3, <1>5, <1>6, FreshKept
<1>8. Fresh(trail, Now, moved)'
    BY <1>4, <1>7 DEF Now
<1>9. TypeOK'
    BY <1>4, <1>7 DEF TrailInv, TypeOK, Transaction
<1>10. QED
    BY <1>8, <1>9 DEF TrailInv

LEMMA RefusedTrail == ASSUME TrailInv, Refuse, orders' \in 0 .. MaxOrders, UNCHANGED reports
                      PROVE  TrailInv'
<1>1. trail \in Seq(Entry) /\ Fresh(trail, Now, moved)
    BY DEF TrailInv, TypeOK
<1>2. Told \in Entry /\ Told.about = "order"
    BY DEF Told, Entry
<1>3. <<Told>> \in Seq(Entry) /\ Tells(<<Told>>, Now) /\ Abouts(<<Told>>) = {"order"}
    BY <1>2 DEF Tells, Abouts
<1>4. moved \ {"order"} = moved
    BY DEF TrailInv, TypeOK, Fields
<1>5. Fresh(trail \o <<Told>>, Now, moved)
    <2>1. Fresh(trail \o <<Told>>, Now, moved \ Abouts(<<Told>>))
        BY <1>1, <1>3, FreshJoined
    <2>2. QED
        BY <1>3, <1>4, <2>1
<1>6. Keep(trail, <<Told>>) \in Seq(Entry) /\ Fresh(Keep(trail, <<Told>>), Now, moved)
    BY <1>1, <1>3, <1>5, FreshKept
<1>7. /\ trail' = Keep(trail, <<Told>>) /\ answer' = "REJECT"
      /\ UNCHANGED <<transaction, registration, ticket, moved>>
    BY DEF Refuse
<1>8. Fresh(trail, Now, moved)'
    BY <1>6, <1>7 DEF Now
<1>9. TypeOK'
    BY <1>6, <1>7 DEF TrailInv, TypeOK
<1>10. QED
    BY <1>8, <1>9 DEF TrailInv

LEMMA NextTrail == TrailInv /\ [Next]_vars => TrailInv'
<1> SUFFICES ASSUME TrailInv, [Next]_vars PROVE TrailInv'
    OBVIOUS
<1> USE DEF TrailInv
<1>0. TypeOK /\ \A f \in {"payment", "reconciliation", "registration", "ticket"} : f \in Fields
    BY DEF Fields
<1>1. ASSUME NEW s \in Statuses, Report(s) PROVE TrailInv'
    <2>1. TypeOK'
        <3>1. transaction' \in Transaction
            BY <1>0, <1>1 DEF Report, TypeOK, Transaction
        <3>2. reports' \in 0 .. MaxReports
            <4>1. reports \in 0 .. MaxReports /\ MaxReports \in Nat
                BY <1>0, TicketDeskAssumption DEF TypeOK
            <4>2. reports < MaxReports /\ reports' = reports + 1
                BY <1>1 DEF Report
            <4>3. QED
                BY <4>1, <4>2
        <3>3. moved' \subseteq Fields /\ UNCHANGED <<registration, ticket, trail, answer, orders>>
            BY <1>0, <1>1 DEF Report, TypeOK
        <3>4. QED
            BY <1>0, <3>1, <3>2, <3>3 DEF TypeOK, Transaction
    <2>2. \A g \in Fields \ {"payment"} : Now'[g] = Now[g]
        <3>1. transaction'.reconciliation = transaction.reconciliation
              /\ registration' = registration /\ ticket' = ticket
            BY <1>0, <1>1 DEF Report, TypeOK
        <3>2. QED
            BY <3>1 DEF Now, StatusesOf, Fields
    <2>3. QED
        BY <1>0, <1>1, <2>1, <2>2, MovedTrail DEF Report
<1>2. CASE Withdraw \/ Propagate
    <2>1. registration' \in RegistrationStatuses
        <3>1. CASE Withdraw
            BY <3>1 DEF Withdraw, RegistrationStatuses
        <3>2. CASE Propagate
            BY <3>2, RegistrationDecided DEF Propagate, TypeOK
        <3>3. QED
            BY <1>2, <3>1, <3>2
    <2>2. /\ UNCHANGED <<transaction, ticket, trail, answer, reports, orders>>
          /\ moved' = moved \cup {"registration"}
        BY <1>2 DEF Withdraw, Propagate
    <2>3. TypeOK'
        BY <1>0, <2>1, <2>2 DEF TypeOK
    <2>4. \A g \in Fields \ {"registration"} : Now'[g] = Now[g]
        BY <2>2 DEF Now, StatusesOf, Fields
    <2>5. QED
        BY <1>0, <2>2, <2>3, <2>4, MovedTrail
<1>3. CASE Gate \/ IssueArtifact
    <2>1. ticket' \in TicketStatuses
        <3>1. CASE IssueArtifact
            BY <3>1 DEF IssueArtifact, TicketStatuses
        <3>2. CASE Gate
            BY <3>2, TicketDecided DEF Gate, TypeOK
        <3>3. QED
            BY <1>3, <3>1, <3>2
    <2>2. /\ UNCHANGED <<transaction, registration, trail, answer, reports, orders>>
          /\ moved' = moved \cup {"ticket"}
        BY <1>3 DEF Gate, IssueArtifact
    <2>3. TypeOK'
        BY <1>0, <2>1, <2>2 DEF TypeOK
    <2>4. \A g \in Fields \ {"ticket"} : Now'[g] = Now[g]
        BY <2>2 DEF Now, StatusesOf, Fields
    <2>5. QED
        BY <1>0, <2>2, <2>3, <2>4, MovedTrail
<1>4. CASE orders' = orders + 1 /\ orders < MaxOrders /\ UNCHANGED reports /\ (Refuse \/ CarriedOut)
    <2>1. orders' \in 0 .. MaxOrders
        <3>1. orders \in 0 .. MaxOrders /\ MaxOrders \in Nat
            BY <1>0, TicketDeskAssumption DEF TypeOK
        <3>2. QED
            BY <1>4, <3>1
    <2>2. QED
        BY <1>4, <2>1, CarriedTrail, RefusedTrail
<1>5. CASE UNCHANGED vars
    BY <1>5 DEF vars, TypeOK, Fresh, Now
<1>6. QED
    BY <1>1, <1>2, <1>3, <1>4, <1>5, StepCases

\* Type correctness: the statuses stay among those the modules of src/services/shared
\* know, and the trail holds entries of the audit.
THEOREM TypeCorrect == Spec => []TypeOK
<1>1. TrailInv => TypeOK
    BY DEF TrailInv
<1>2. QED
    BY <1>1, InitTrail, NextTrail, PTL DEF Spec

\* For any number of orders, reports and withdrawals and any length of the trail, what
\* it last tells of a status is its value, or the status has changed since without an
\* order (appendAuditEntries, buildManualReconciliationAuditTrail).
THEOREM TrailAlwaysCurrent == Spec => []TrailIsCurrent
<1>1. TrailInv => TrailIsCurrent
    BY FreshIsCurrent DEF TrailInv
<1>2. QED
    BY <1>1, InitTrail, NextTrail, PTL DEF Spec

-----------------------------------------------------------------------------
(***************************************************************************)
(* The action properties                                                   *)
(***************************************************************************)
LEMMA NextFinal ==
    ASSUME TypeOK, [Next]_vars
    PROVE  /\ ticket = "VOIDED" => ticket' = "VOIDED"
           /\ registration \in {"CANCELLED", "REFUNDED"} => registration' = registration
<1>0. transaction.status \in Statuses /\ registration \in RegistrationStatuses
      /\ ticket \in TicketStatuses
    BY DEF TypeOK
<1>1. ASSUME NEW s \in Statuses, Report(s)
      PROVE  UNCHANGED <<ticket, registration>>
    BY <1>1 DEF Report
<1>2. CASE Withdraw
    BY <1>2 DEF Withdraw
<1>3. CASE Propagate
    BY <1>0, <1>3, RegistrationDecided DEF Propagate
<1>4. CASE Gate
    BY <1>0, <1>4, TicketDecided DEF Gate
<1>5. CASE IssueArtifact
    BY <1>5 DEF IssueArtifact
<1>6. CASE Refuse
    BY <1>6 DEF Refuse
<1>7. CASE CarriedOut
    BY <1>7 DEF CarriedOut, Carry
<1>8. CASE UNCHANGED vars
    BY <1>8 DEF vars
<1>9. QED
    BY <1>1, <1>2, <1>3, <1>4, <1>5, <1>6, <1>7, <1>8, StepCases

\* A ticket that has been voided and a registration that has been cancelled or refunded
\* stay so, whatever is reported, propagated, issued and ordered.
THEOREM FinalAlwaysFinal == Spec => FinalStaysFinal
<1>1. TypeOK /\ [Next]_vars =>
        [/\ ticket = "VOIDED" => ticket' = "VOIDED"
         /\ registration \in {"CANCELLED", "REFUNDED"} => registration' = registration]_vars
    BY NextFinal
<1>2. QED
    BY <1>1, TypeCorrect, PTL DEF Spec, FinalStaysFinal

LEMMA NextSettled ==
    ASSUME TypeOK, [Next]_vars, orders' # orders, answer' = "RESOLVED"
    PROVE  Settled(transaction'.status, registration', ticket')
<1>1. Next
    BY DEF vars
<1>2. orders # orders' => ~Withdraw /\ ~Propagate /\ ~Gate /\ ~IssueArtifact
                          /\ \A s \in Statuses : ~Report(s)
    BY DEF Withdraw, Propagate, Gate, IssueArtifact, Report
<1>3. CASE Refuse
    BY <1>3 DEF Refuse
<1>4. CASE CarriedOut
    BY <1>4 DEF CarriedOut, Carry
<1>5. QED
    BY <1>1, <1>2, <1>3, <1>4, StepCases

\* An order that resolves a payment leaves neither the propagation nor the gating
\* anything to do (resolveWithPaymentStatus).
THEOREM ResolvedAlwaysSettled == Spec => ResolvedIsSettled
<1>1. TypeOK /\ [Next]_vars =>
        [orders' # orders /\ answer' = "RESOLVED" =>
            Settled(transaction'.status, registration', ticket')]_vars
    BY NextSettled
<1>2. QED
    BY <1>1, TypeCorrect, PTL DEF Spec, ResolvedIsSettled

-----------------------------------------------------------------------------
(***************************************************************************)
(* Procedures: what was executed first                                     *)
(***************************************************************************)
\* The place at which a step was executed first.
FirstAt(seq, s, i) ==
    /\ i \in DOMAIN seq
    /\ seq[i] = s
    /\ \A j \in DOMAIN seq : j < i => seq[j] # s

\* What was executed first at some place; a step that handles data between the first
\* closing and the first opening has handled it while the platform was closed, and what
\* was handled before the first check is what was checked.
ExecutedFirst == \A s : ~Pr!First(s) => \E i \in DOMAIN executed : FirstAt(executed, s, i)

ClosedSince ==
    (\E i \in DOMAIN executed : executed[i] \in Pr!Closes)
    /\ (\A i \in DOMAIN executed : executed[i] \notin Pr!Opens)
        => ~open

HandledClosed ==
    \A s \in Pr!Handles : \A i, k \in DOMAIN executed :
        /\ FirstAt(executed, s, i)
        /\ executed[k] \in Pr!Closes /\ k < i
        /\ \A j \in DOMAIN executed : j < i => executed[j] \notin Pr!Opens
        => s \in handled

CheckedThen ==
    /\ handled \subseteq Pr!Handles \cap Pr!Steps(plan)
    /\ checked.with \subseteq Pr!Handles \cap Pr!Steps(plan)
    /\ \A c \in Pr!Checks : ~Pr!First(c) => checked.done
    /\ \A c \in Pr!Checks, s \in handled : \A i, k \in DOMAIN executed :
          FirstAt(executed, s, i) /\ FirstAt(executed, c, k) /\ i < k => s \in checked.with

OpenAtLast == executed # <<>> /\ executed[Len(executed)] \in Pr!Opens => open

ProcedureInv ==
    /\ Pr!TypeOK
    /\ ExecutedFirst
    /\ ClosedSince
    /\ HandledClosed
    /\ CheckedThen
    /\ OpenAtLast

LEMMA PlanSteps ==
    /\ Pr!Steps(Pr!BackupPlan) = {"BK-01", "BK-02", "BK-03", "BK-04", "BK-05", "BK-06", "BK-07"}
    /\ Pr!Steps(Pr!RestorePlan) = {"RS-01", "RS-02", "RS-03", "RS-04", "RS-05", "RS-06", "RS-07"}
BY DEF Pr!Steps, Pr!BackupPlan, Pr!RestorePlan

LEMMA InitProcedure == Pr!Init => ProcedureInv
<1> SUFFICES ASSUME Pr!Init PROVE ProcedureInv
    OBVIOUS
<1>1. executed = <<>> /\ DOMAIN executed = {} /\ handled = {} /\ checked = Pr!Nothing
    BY DEF Pr!Init
<1>2. Pr!TypeOK
    BY <1>1 DEF Pr!Init, Pr!TypeOK, Pr!Nothing
<1>3. \A s : Pr!First(s)
    BY <1>1 DEF Pr!First
<1>4. QED
    BY <1>1, <1>2, <1>3
    DEF ProcedureInv, ExecutedFirst, ClosedSince, HandledClosed, CheckedThen, OpenAtLast, Pr!Nothing

LEMMA NextProcedure == ProcedureInv /\ [Pr!Next]_(Pr!vars) => ProcedureInv'
<1> SUFFICES ASSUME ProcedureInv, [Pr!Next]_(Pr!vars) PROVE ProcedureInv'
    OBVIOUS
<1>1. CASE UNCHANGED Pr!vars
    BY <1>1
    DEF Pr!vars, ProcedureInv, Pr!TypeOK, ExecutedFirst, ClosedSince, HandledClosed, CheckedThen,
        OpenAtLast, FirstAt, Pr!First, Pr!Steps
<1>2. ASSUME NEW s \in Pr!Steps(plan) \cup {"XX"}, Pr!Execute(s) PROVE ProcedureInv'
    <2> DEFINE n == Len(executed) + 1
    <2>1. /\ plan' = plan
          /\ executed \in Seq(Pr!Steps(plan) \cup {"XX"})
          /\ executed' = Append(executed, s)
        BY <1>2 DEF Pr!Execute, ProcedureInv, Pr!TypeOK
    <2>2. /\ executed' \in Seq(Pr!Steps(plan)' \cup {"XX"})
          /\ DOMAIN executed = 1 .. Len(executed) /\ Len(executed) \in Nat
          /\ DOMAIN executed' = 1 .. n
          /\ Len(executed') = n
          /\ executed'[n] = s
          /\ \A i \in DOMAIN executed : i \in DOMAIN executed' /\ i < n /\ executed'[i] = executed[i]
          /\ \A i \in DOMAIN executed' : i = n \/ i \in DOMAIN executed
        BY <2>1 DEF Pr!Steps
    <2>3. \A x : Pr!First(x)' <=> Pr!First(x) /\ x # s
        BY <2>2 DEF Pr!First
    <2>4. \A x : \A i \in DOMAIN executed : FirstAt(executed', x, i) <=> FirstAt(executed, x, i)
        BY <2>2 DEF FirstAt
    <2>5. \A x : FirstAt(executed', x, n) <=> x = s /\ Pr!First(s)
        BY <2>2 DEF FirstAt, Pr!First
    <2>6. /\ open' = IF s \in Pr!Closes THEN FALSE ELSE open \/ s \in Pr!Opens
          /\ handled' = IF s \in Pr!Handles /\ Pr!First(s) /\ ~open THEN handled \cup {s} ELSE handled
          /\ checked' = IF s \in Pr!Checks /\ Pr!First(s)
                        THEN [done |-> TRUE, with |-> handled] ELSE checked
        BY <1>2 DEF Pr!Execute
    <2>7. Pr!TypeOK'
        BY <2>1, <2>2, <2>6 DEF ProcedureInv, Pr!TypeOK
    <2>8. ExecutedFirst'
        BY <2>2, <2>3, <2>4, <2>5 DEF ProcedureInv, ExecutedFirst
    <2>9. ClosedSince'
        <3>1. Pr!Closes \cap Pr!Opens = {}
            BY DEF Pr!Closes, Pr!Opens
        <3>2. SUFFICES ASSUME NEW i \in DOMAIN executed', executed'[i] \in Pr!Closes,
                              \A j \in DOMAIN executed' : executed'[j] \notin Pr!Opens
                       PROVE  ~open'
            BY DEF ClosedSince
        <3>3. s \notin Pr!Opens /\ \A j \in DOMAIN executed : executed[j] \notin Pr!Opens
            BY <2>2, <3>2
        <3>4. CASE i = n
            BY <2>2, <2>6, <3>2, <3>4
        <3>5. CASE i \in DOMAIN executed
            BY <2>2, <2>6, <3>2, <3>3, <3>5 DEF ProcedureInv, ClosedSince
        <3>6. QED
            BY <2>2, <3>4, <3>5
    <2>10. HandledClosed'
        <3> SUFFICES ASSUME NEW x \in Pr!Handles, NEW i \in DOMAIN executed', NEW k \in DOMAIN executed',
                            FirstAt(executed', x, i), executed'[k] \in Pr!Closes, k < i,
                            \A j \in DOMAIN executed' : j < i => executed'[j] \notin Pr!Opens
                     PROVE  x \in handled'
            BY DEF HandledClosed
        <3>1. CASE i \in DOMAIN executed
            BY <2>2, <2>4, <2>6, <3>1 DEF ProcedureInv, HandledClosed
        <3>2. CASE i = n
            <4>1. x = s /\ Pr!First(s)
                BY <2>5, <3>2
            <4>2. ~open
                BY <2>2, <3>2 DEF ProcedureInv, ClosedSince
            <4>3. QED
                BY <2>6, <4>1, <4>2
        <3>3. QED
            BY <2>2, <3>1, <3>2
    <2>11. CheckedThen'
        <3>1. /\ handled \subseteq handled' /\ handled' \subseteq Pr!Handles \cap Pr!Steps(plan)'
              /\ checked'.with \subseteq Pr!Handles \cap Pr!Steps(plan)'
            <4>1. s \in Pr!Handles => s \in Pr!Steps(plan)
                BY DEF Pr!Handles
            <4>2. Pr!Steps(plan)' = Pr!Steps(plan)
                BY <2>1 DEF Pr!Steps
            <4>3. QED
                BY <2>6, <4>1, <4>2 DEF ProcedureInv, CheckedThen
        <3>2. \A c \in Pr!Checks : ~Pr!First(c)' => checked'.done
            BY <2>3, <2>6 DEF ProcedureInv, CheckedThen
        <3>3. ASSUME NEW c \in Pr!Checks, NEW x \in handled',
                     NEW i \in DOMAIN executed', NEW k \in DOMAIN executed',
                     FirstAt(executed', x, i), FirstAt(executed', c, k), i < k
              PROVE  x \in checked'.with
            <4>1. i \in DOMAIN executed /\ FirstAt(executed, x, i)
                BY <2>2, <2>4, <3>3
            <4>2. ~Pr!First(x)
                BY <4>1 DEF FirstAt, Pr!First
            <4>3. x \in handled
                BY <2>6, <4>2
            <4>4. CASE k = n
                BY <2>5, <2>6, <3>3, <4>3, <4>4
            <4>5. CASE k \in DOMAIN executed
                <5>1. FirstAt(executed, c, k) /\ x \in checked.with
                    BY <2>4, <3>3, <4>1, <4>3, <4>5 DEF ProcedureInv, CheckedThen
                <5>2. checked' = checked \/ checked'.with = handled
                    BY <2>6
                <5>3. QED
                    BY <4>3, <5>1, <5>2
            <4>6. QED
                BY <2>2, <4>4, <4>5
        <3>4. QED
            BY <3>1, <3>2, <3>3 DEF CheckedThen
    <2>12. OpenAtLast'
        BY <2>2, <2>6 DEF OpenAtLast, Pr!Opens, Pr!Closes
    <2>13. QED
        BY <2>7, <2>8, <2>9, <2>10, <2>11, <2>12 DEF ProcedureInv
<1>3. QED
    BY <1>1, <1>2 DEF Pr!Next

\* In a completed procedure the steps of the plan were first executed in its order.
LEMMA CompletedInOrder ==
    ASSUME ProcedureInv, Pr!Status = "COMPLETED"
    PROVE  \E at \in [DOMAIN plan -> DOMAIN executed] :
              /\ \A i \in DOMAIN plan : FirstAt(executed, plan[i], at[i])
              /\ \A i, j \in DOMAIN plan : i < j => at[i] < at[j]
<1>1. /\ Pr!Missing = {} /\ Pr!OutOfOrder = {} /\ Pr!Unexpected = {}
    BY DEF Pr!Status
<1>2. DOMAIN plan = 1 .. 7 /\ \A i, j \in 1 .. 7 : i # j => plan[i] # plan[j]
    BY DEF ProcedureInv, Pr!TypeOK, Pr!BackupPlan, Pr!RestorePlan
<1>3. \A i \in 1 .. 7 : ~Pr!First(plan[i])
    BY <1>1, <1>2 DEF Pr!Missing, Pr!Steps
<1>4. executed \in Seq(Pr!Steps(plan) \cup {"XX"})
    BY DEF ProcedureInv, Pr!TypeOK
<1>5. ASSUME NEW s, NEW i \in DOMAIN executed, FirstAt(executed, s, i) PROVE Pr!Position(s) = i
    <2>1. /\ executed[i] = s /\ \A j \in DOMAIN executed : executed[j] = s => i <= j
        BY <1>4, <1>5 DEF FirstAt
    <2>2. \A k \in DOMAIN executed :
              (executed[k] = s /\ \A j \in DOMAIN executed : executed[j] = s => k <= j) => k = i
        BY <1>4, <2>1
    <2>3. QED
        BY <2>1, <2>2 DEF Pr!Position
<1> DEFINE at == [i \in DOMAIN plan |-> Pr!Position(plan[i])]
<1>6. \A i \in DOMAIN plan : at[i] \in DOMAIN executed /\ FirstAt(executed, plan[i], at[i])
    BY <1>2, <1>3, <1>5 DEF ProcedureInv, ExecutedFirst
<1>7. ASSUME NEW i \in DOMAIN plan, NEW j \in DOMAIN plan, i < j PROVE at[i] < at[j]
    <2>1. plan[j] \notin Pr!OutOfOrder /\ i \in 1 .. j - 1
        BY <1>1, <1>2, <1>7
    <2>2. ~(Pr!Position(plan[i]) > Pr!Position(plan[j]))
        BY <1>2, <1>3, <2>1 DEF Pr!OutOfOrder
    <2>3. at[i] # at[j]
        BY <1>2, <1>6, <1>7 DEF FirstAt
    <2>4. at[i] \in Nat /\ at[j] \in Nat
        BY <1>4, <1>6
    <2>5. QED
        BY <2>2, <2>3, <2>4
<1>8. at \in [DOMAIN plan -> DOMAIN executed]
    BY <1>6
<1>9. QED
    BY <1>6, <1>7, <1>8

\* A procedure is reported as completed only if every data step of its plan was executed while
\* the platform was closed, and before the check (opsBackupRestoreProcedures.js).
THEOREM ReportsAreSound == Pr!Spec => []CompletedIsSound
<1>1. ASSUME ProcedureInv, Pr!Status = "COMPLETED"
      PROVE  /\ handled = Pr!Handles \cap Pr!Steps(plan)
             /\ checked = [done |-> TRUE, with |-> Pr!Handles \cap Pr!Steps(plan)]
    <2>1. PICK at \in [DOMAIN plan -> DOMAIN executed] :
              /\ \A i \in DOMAIN plan : FirstAt(executed, plan[i], at[i])
              /\ \A i, j \in DOMAIN plan : i < j => at[i] < at[j]
        BY <1>1, CompletedInOrder
    <2>2. /\ DOMAIN plan = 1 .. 7
          /\ plan[2] \in Pr!Closes /\ plan[6] \in Pr!Checks
          /\ Pr!Handles \cap Pr!Steps(plan) = {plan[3], plan[4]}
          /\ Pr!Opens \cap Pr!Steps(plan) = {plan[7]}
        <3>1. CASE plan = Pr!BackupPlan
            BY <3>1, PlanSteps DEF Pr!BackupPlan, Pr!Handles, Pr!Closes, Pr!Checks, Pr!Opens
        <3>2. CASE plan = Pr!RestorePlan
            BY <3>2, PlanSteps DEF Pr!RestorePlan, Pr!Handles, Pr!Closes, Pr!Checks, Pr!Opens
        <3>3. QED
            BY <1>1, <3>1, <3>2 DEF ProcedureInv, Pr!TypeOK
    <2>3. executed \in Seq(Pr!Steps(plan) \cup {"XX"})
        BY <1>1 DEF ProcedureInv, Pr!TypeOK
    <2>4. ASSUME NEW i \in {3, 4} PROVE plan[i] \in handled
        <3>1. /\ at[2] < at[i] /\ at[i] < at[7]
              /\ FirstAt(executed, plan[2], at[2]) /\ FirstAt(executed, plan[i], at[i])
              /\ FirstAt(executed, plan[7], at[7])
              /\ at[2] \in DOMAIN executed /\ at[i] \in DOMAIN executed /\ at[7] \in DOMAIN executed
            BY <2>1, <2>2
        <3>2. \A j \in DOMAIN executed : j < at[i] => executed[j] \notin Pr!Opens
            BY <2>2, <2>3, <3>1, SMTT(20) DEF FirstAt, Pr!Opens
        <3>3. plan[i] \in Pr!Handles /\ executed[at[2]] \in Pr!Closes
            BY <2>2, <3>1 DEF FirstAt
        <3>4. QED
            BY <1>1, <3>1, <3>2, <3>3 DEF ProcedureInv, HandledClosed
    <2>5. handled = Pr!Handles \cap Pr!Steps(plan)
        BY <1>1, <2>2, <2>4 DEF ProcedureInv, CheckedThen
    <2>6. ASSUME NEW i \in {3, 4} PROVE plan[i] \in checked.with
        <3>1. /\ at[i] < at[6] /\ FirstAt(executed, plan[i], at[i]) /\ FirstAt(executed, plan[6], at[6])
              /\ at[i] \in DOMAIN executed /\ at[6] \in DOMAIN executed
            BY <2>1, <2>2
        <3>2. QED
            BY <1>1, <2>2, <2>4, <3>1 DEF ProcedureInv, CheckedThen
    <2>7. checked.done
        <3>1. ~Pr!First(plan[6])
            BY <2>1, <2>2 DEF FirstAt, Pr!First
        <3>2. QED
            BY <1>1, <2>2, <3>1 DEF ProcedureInv, CheckedThen
    <2>8. checked.with = Pr!Handles \cap Pr!Steps(plan)
        BY <1>1, <2>2, <2>6 DEF ProcedureInv, CheckedThen
    <2>9. checked \in [done : BOOLEAN, with : SUBSET Pr!Handles]
        BY <1>1 DEF ProcedureInv, Pr!TypeOK
    <2>10. QED
        BY <2>5, <2>7, <2>8, <2>9
<1>2. ASSUME ProcedureInv, executed = plan PROVE open /\ Pr!Status = "COMPLETED"
    <2>1. /\ DOMAIN plan = 1 .. 7 /\ Len(plan) = 7 /\ plan # <<>> /\ plan[7] \in Pr!Opens
          /\ \A i, j \in 1 .. 7 : plan[i] = plan[j] => i = j
        BY <1>2 DEF ProcedureInv, Pr!TypeOK, Pr!BackupPlan, Pr!RestorePlan, Pr!Opens
    <2>2. open
        BY <1>2, <2>1 DEF ProcedureInv, OpenAtLast
    <2>3. Pr!Missing = {} /\ Pr!Unexpected = {}
        BY <1>2, <2>1 DEF Pr!Missing, Pr!Unexpected, Pr!Steps, Pr!First
    <2>4. \A i \in 1 .. 7 : Pr!Position(plan[i]) = i
        <3>1. ASSUME NEW i \in 1 .. 7 PROVE Pr!Position(plan[i]) = i
            <4>1. \A k \in DOMAIN executed :
                     (executed[k] = plan[i]
                        /\ \A j \in DOMAIN executed : executed[j] = plan[i] => k <= j) <=> k = i
                BY <1>2, <2>1
            <4>2. i \in DOMAIN executed
                BY <1>2, <2>1
            <4>3. QED
                BY <4>1, <4>2 DEF Pr!Position
        <3>2. QED
            BY <3>1
    <2>5. Pr!OutOfOrder = {}
        BY <2>1, <2>4 DEF Pr!OutOfOrder
    <2>6. QED
        BY <2>2, <2>3, <2>5 DEF Pr!Status
<1>3. ProcedureInv => CompletedIsSound
    <2> SUFFICES ASSUME ProcedureInv PROVE CompletedIsSound
        OBVIOUS
    <2>1. Pr!Action \in {"BACKUP_JOB_COMPLETED", "RESTORE_PROCEDURE_COMPLETED"}
              => Pr!Status = "COMPLETED"
        BY DEF Pr!Action
    <2>2. QED
        BY <1>1, <1>2, <2>1 DEF CompletedIsSound, Pr!CompletedIsSound
<1>4. QED
    BY <1>3, InitProcedure, NextProcedure, PTL DEF Pr!Spec

-----------------------------------------------------------------------------
(***************************************************************************)
(* Readiness: while the gateway asks                                       *)
(***************************************************************************)
\* While the gateway asks, a back end that is not there counts as away, and so does one
\* that nothing was heard of.
AskedInv ==
    /\ process \in [Re!Services -> {"absent", "booting", "listening", "exited"}]
    /\ probe \in [Re!Backends -> Re!Found]
    /\ \A s \in Re!Backends : Re!Asking /\ process[s] # "listening" => s \in away
    /\ \A s \in Re!Backends : probe[s] = "none" => away # {}

LEMMA InitAsked == Re!Init => AskedInv
BY ZenonT(30) DEF Re!Init, Re!InitAs, AskedInv, Re!Asking, Re!Found, Re!Services

LEMMA NextAsked == AskedInv /\ [Re!Next]_(Re!vars) => AskedInv'
<1> SUFFICES ASSUME AskedInv, [Re!Next]_(Re!vars) PROVE AskedInv'
    OBVIOUS
<1> USE DEF Re!Backends, Re!Services
<1>1. CASE UNCHANGED <<process, probe, away>>
    BY <1>1 DEF AskedInv, Re!Asking
<1>2. ASSUME NEW s \in Re!Services, Re!Begin(s), process[s] # "listening" PROVE AskedInv'
    BY <1>2 DEF AskedInv, Re!Asking, Re!Begin
<1>3. ASSUME NEW s \in Re!Services, Re!Ends(s) PROVE AskedInv'
    <2>1. CASE s = "gateway"
        BY <1>3, <2>1 DEF AskedInv, Re!Asking, Re!Ends, Re!Found
    <2>2. CASE s # "gateway"
        BY <1>3, <2>2 DEF AskedInv, Re!Asking, Re!Ends
    <2>3. QED
        BY <2>1, <2>2
<1>4. ASSUME NEW s \in Re!Services, Re!Boot(s) PROVE AskedInv'
    <2>1. CASE Re!Ends(s)
        BY <1>3, <2>1
    <2>2. CASE /\ process' = [process EXCEPT ![s] = "listening"]
               /\ UNCHANGED <<probe, away>>
        BY <2>2 DEF AskedInv, Re!Asking
    <2>3. QED
        BY <1>1, <1>4, <2>1, <2>2 DEF Re!Boot
<1>5. ASSUME Re!Ask PROVE AskedInv'
    BY <1>5 DEF AskedInv, Re!Asking, Re!Ask, Re!Found
<1>6. ASSUME NEW s \in Re!Backends, Re!Probing(s) PROVE AskedInv'
    <2>1. CASE Re!AskReady(s)
        BY <2>1 DEF AskedInv, Re!Asking, Re!AskReady, Re!AfterReady, Re!Found
    <2>2. CASE Re!AskHealth(s)
        <3>1. process[s] # "listening" => s \in away
            BY <2>2 DEF AskedInv, Re!Asking, Re!AskHealth
        <3>2. QED
            BY <2>2, <3>1 DEF AskedInv, Re!Asking, Re!AskHealth, Re!Answers, Re!Found
    <2>3. QED
        BY <1>6, <2>1, <2>2 DEF Re!Probing
<1>7. ASSUME NEW s \in Re!Backends, Re!AnswerLost(s) PROVE AskedInv'
    <2>1. CASE /\ probe[s] = "ask /ready" /\ probe' = [probe EXCEPT ![s] = "ask /health"]
               /\ UNCHANGED <<process, away>>
        BY <2>1 DEF AskedInv, Re!Asking, Re!Found
    <2>2. CASE /\ probe[s] = "ask /health" /\ probe' = [probe EXCEPT ![s] = "none"]
               /\ away' = away \cup {s} /\ UNCHANGED process
        BY <2>2 DEF AskedInv, Re!Asking, Re!Found
    <2>3. QED
        BY <1>7, <2>1, <2>2 DEF Re!AnswerLost, Re!AfterReady
<1>8. ASSUME Re!Respond PROVE AskedInv'
    BY <1>8 DEF AskedInv, Re!Asking, Re!Respond, Re!Found
<1>9. QED
    BY <1>1, <1>2, <1>3, <1>4, <1>5, <1>6, <1>7, <1>8
    DEF Re!Next, Re!vars, Re!DatabaseFails, Re!DatabaseReturns, Re!GiveUp, Re!Create,
        Re!RestartContainer, Re!Crash, Re!HealthCheck

\* GET /ready of the gateway answers that it is not ready only if, since it began to ask, a
\* back end was not there or its answer was lost: a slow start of the gateway or an earlier
\* failure is never the reason.
THEOREM NotReadyIsHonest == Re!Spec => NotReadyMeansAway
<1>1. AskedInv => (Re!Respond /\ verdict' = "not ready" => away # {})
    BY DEF AskedInv, Re!Respond
<1>2. Re!Spec => []AskedInv
    BY InitAsked, NextAsked, PTL DEF Re!Spec
<1>3. AskedInv /\ [Re!Next]_(Re!vars)
         => [Re!Respond /\ verdict' = "not ready" => away # {}]_(Re!vars)
    BY <1>1
<1>4. QED
    BY <1>2, <1>3, PTL DEF Re!Spec, NotReadyMeansAway, Re!NotReadyMeansAway

-----------------------------------------------------------------------------
(***************************************************************************)
(* Seeding: accounts, rows, tickets and papers                             *)
(***************************************************************************)
\* The registrations of the demonstration data.
Demo == 1 .. 11
DemoHolder(r) == Se!DemoRows[r].holder
DemoTicket(r) == Se!DemoRows[r].ticket

Everybody == \A u \in Se!Users : account[u] # 0

\* Accounts keep their ids; a user is stored under his own id or one hundred more.
SeedAccounts ==
    /\ account \in [Se!Users -> Nat]
    /\ \A u \in Se!Users : account[u] \in {0, u, u + 100}
    /\ changes \in Nat
    /\ stage \in {"events", "registration"} => Everybody
    /\ stage = "registration" => DOMAIN Se!DemoEvents \subseteq DOMAIN events

\* Whom the rows of the identity service belong to.
SeedOwners ==
    /\ DOMAIN owned # {} => Everybody
    /\ \A o \in DOMAIN owned : o \in DOMAIN Se!OwnedBy /\ owned[o] = account[Se!OwnedBy[o]]

\* Demo rows and those of people do not share a name; a row has its event, and its holder
\* an account; a demo row keeps its holder.
SeedRows ==
    /\ rows \in [DOMAIN rows ->
                    [event : DOMAIN events, holder : Nat, ticket : Nat,
                     status : {"CONFIRMED", "WAITLISTED", "CANCELLED", "REJECTED"}]]
    /\ \A r \in DOMAIN rows :
        /\ r \in Demo \cup 101 .. 100 + changes
        /\ Se!UserOf(rows[r].holder) \in Se!Users
        /\ account[Se!UserOf(rows[r].holder)] # 0
        /\ r \in Demo => rows[r].holder = DemoHolder(r)

\* A ticket id is that of a demo ticket, for the row that has it in the demo data, or was
\* given out since, to one row; a row with a demo ticket keeps it.
Numbered(r) ==
    IF r \in Se!Ticketed
    THEN rows[r].ticket = DemoTicket(r) /\ r \in DOMAIN tickets /\ tickets[r].id = DemoTicket(r)
    ELSE rows[r].ticket = 0 \/ rows[r].ticket \in 101 .. 100 + changes

\* A payment of the row accounts for a ticket that is not issued.
Accounted(r) ==
    /\ tickets[r].status = "PENDING" =>
        \E p \in DOMAIN payments : payments[p].row = r /\ payments[p].status = "PENDING"
    /\ tickets[r].status = "CANCELLED" =>
        \E p \in DOMAIN payments : payments[p].row = r /\ payments[p].status # "SUCCEEDED"

Supplied(r) ==
    rows[r].status = "CONFIRMED" =>
        /\ rows[r].ticket # 0
        /\ r \in DOMAIN tickets /\ tickets[r].id = rows[r].ticket
        /\ Accounted(r)

DemoTicketStatuses == {"PENDING", "ISSUED", "CANCELLED"}

SeedTickets ==
    /\ tickets \in [DOMAIN tickets -> [id : Nat, status : DemoTicketStatuses]]
    /\ DOMAIN tickets \subseteq DOMAIN rows
    /\ \A r \in DOMAIN rows : Numbered(r) /\ Supplied(r)
    /\ \A r, s \in DOMAIN rows : rows[r].ticket = rows[s].ticket /\ rows[r].ticket # 0 => r = s

\* The unique index on the active registrations.
SeedPlaces ==
    \A r, s \in DOMAIN rows :
        Se!Active(rows[r]) /\ Se!Active(rows[s]) /\ r # s =>
            <<rows[r].event, rows[r].holder>> # <<rows[s].event, rows[s].holder>>

\* Payments are those of the holders of rows, the demo payments of demo rows.
SeedPapers ==
    /\ payments \in [DOMAIN payments ->
                        [row : DOMAIN rows, payer : Nat, status : Se!PaymentStatuses]]
    /\ \A p \in DOMAIN payments :
        /\ p \in 1 .. 4 \cup 101 .. 100 + changes
        /\ payments[p].payer = rows[payments[p].row].holder
        /\ p \in 1 .. 4 => payments[p].row \in Demo
    /\ \A n \in DOMAIN notices : notices[n].row \in DOMAIN rows \cup {0}

SeedInv == SeedAccounts /\ SeedOwners /\ SeedRows /\ SeedTickets /\ SeedPlaces /\ SeedPapers

LEMMA Upserted ==
    ASSUME NEW new, NEW old
    PROVE  /\ DOMAIN Se!Upsert(new, old) = DOMAIN new \cup DOMAIN old
           /\ \A x \in DOMAIN new : Se!Upsert(new, old)[x] = new[x]
           /\ \A x \in DOMAIN old \ DOMAIN new : Se!Upsert(new, old)[x] = old[x]
           /\ Se!Upsert(new, old) =
                [x \in DOMAIN new \cup DOMAIN old |-> Se!Upsert(new, old)[x]]
BY DEF Se!Upsert

LEMMA Inserted ==
    ASSUME NEW old, NEW x, NEW row, x \notin DOMAIN old
    PROVE  /\ DOMAIN Se!Insert(old, x, row) = DOMAIN old \cup {x}
           /\ Se!Insert(old, x, row)[x] = row
           /\ \A y \in DOMAIN old : Se!Insert(old, x, row)[y] = old[y]
           /\ Se!Insert(old, x, row) = [y \in DOMAIN old \cup {x} |-> Se!Insert(old, x, row)[y]]
BY DEF Se!Insert, Se!Upsert

\* The demonstration data.
LEMMA DemoData ==
    /\ DOMAIN Se!DemoRows = Demo
    /\ Se!Ticketed = {1, 4, 9}
    /\ \A r \in Se!Ticketed : r \in Demo /\ DemoTicket(r) \in 1 .. 3
    /\ \A r, s \in Se!Ticketed : DemoTicket(r) = DemoTicket(s) => r = s
    /\ \A r \in Demo :
        /\ Se!DemoRows[r] \in [event : DOMAIN Se!DemoEvents, holder : 104 .. 107, ticket : Nat,
                               status : {"CONFIRMED", "WAITLISTED", "CANCELLED", "REJECTED"}]
        /\ Se!DemoRows[r].status = "CONFIRMED" => r \in Se!Ticketed
        /\ r \notin Se!Ticketed => DemoTicket(r) = 0
<1>1. DOMAIN Se!DemoEvents = 1 .. 7
    BY DEF Se!DemoEvents
<1>2. DOMAIN Se!DemoRows = Demo
    BY DEF Se!DemoRows, Demo
<1>3. \A r \in Demo :
        Se!DemoRows[r] \in [event : DOMAIN Se!DemoEvents, holder : 104 .. 107, ticket : Nat,
                            status : {"CONFIRMED", "WAITLISTED", "CANCELLED", "REJECTED"}]
    BY <1>1 DEF Se!DemoRows, Se!Row, Demo
<1>4. Se!Ticketed = {1, 4, 9}
    BY <1>2 DEF Se!Ticketed, Se!DemoRows, Se!Row, Demo
<1>5. \A r \in Demo : Se!DemoRows[r].status = "CONFIRMED" => r \in {1, 4, 9}
    BY DEF Se!DemoRows, Se!Row, Demo
<1>6. \A r \in Demo : r \notin {1, 4, 9} => DemoTicket(r) = 0
    BY DEF Se!DemoRows, Se!Row, Demo, DemoTicket
<1>7. DemoTicket(1) = 1 /\ DemoTicket(4) = 2 /\ DemoTicket(9) = 3
    BY DEF Se!DemoRows, Se!Row, DemoTicket
<1>8. \A r \in Se!Ticketed : r \in Demo /\ DemoTicket(r) \in 1 .. 3
    BY <1>4, <1>7 DEF Demo
<1>9. \A r, s \in Se!Ticketed : DemoTicket(r) = DemoTicket(s) => r = s
    BY <1>4, <1>7
<1>10. QED
    BY <1>2, <1>3, <1>4, <1>5, <1>6, <1>8, <1>9

LEMMA DemoPlaces ==
    \A r, s \in Demo :
        Se!Active(Se!DemoRows[r]) /\ Se!Active(Se!DemoRows[s]) /\ r # s =>
            \/ Se!DemoRows[r].event # Se!DemoRows[s].event
            \/ Se!DemoRows[r].holder # Se!DemoRows[s].holder
<1>1. \A r \in Demo : Se!Active(Se!DemoRows[r]) => r \in {1, 2, 3, 4, 9, 10}
    BY DEF Se!DemoRows, Se!Row, Demo, Se!Active
<1>2. \A r, s \in {1, 2, 3, 4, 9, 10} : r # s =>
            \/ Se!DemoRows[r].event # Se!DemoRows[s].event
            \/ Se!DemoRows[r].holder # Se!DemoRows[s].holder
    BY DEF Se!DemoRows, Se!Row
<1>3. QED
    BY <1>1, <1>2

LEMMA DemoPapers ==
    /\ DOMAIN Se!DemoPayments = 1 .. 4
    /\ \A p \in 1 .. 4 :
        /\ Se!DemoPayments[p] \in [row : Demo, payer : Nat, status : Se!PaymentStatuses]
        /\ Se!DemoPayments[p].payer = DemoHolder(Se!DemoPayments[p].row)
    /\ \A n \in DOMAIN Se!DemoNotices : Se!DemoNotices[n].row \in Demo \cup {0}
<1>1. \A n \in DOMAIN Se!DemoNotices : Se!DemoNotices[n].row \in Demo \cup {0}
    BY DEF Se!DemoNotices, Se!Notice, Demo
<1>2. \A p \in 1 .. 4 : Se!DemoPayments[p].payer = DemoHolder(Se!DemoPayments[p].row)
    BY DEF Se!DemoPayments, Se!Payment, Se!DemoRows, Se!Row, DemoHolder
<1>3. /\ DOMAIN Se!DemoPayments = 1 .. 4
      /\ \A p \in 1 .. 4 :
            Se!DemoPayments[p] \in [row : Demo, payer : Nat, status : Se!PaymentStatuses]
    BY DEF Se!DemoPayments, Se!Payment, Demo, Se!PaymentStatuses
<1>4. QED
    BY <1>1, <1>2, <1>3

LEMMA DemoOwners == \A o \in DOMAIN Se!OwnedBy : Se!OwnedBy[o] \in Se!Users
<1>1. Se!OwnerOf \in Seq(Se!Users) /\ Se!ResetTokenOf \in Seq(Se!Users)
      /\ Se!ActorOf \in Seq(Se!Users)
    BY DEF Se!OwnerOf, Se!ResetTokenOf, Se!ActorOf, Se!Users
<1>2. Se!OwnedBy \in Seq(Se!Users)
    BY <1>1 DEF Se!OwnedBy
<1>3. QED
    BY <1>2

LEMMA InitSeed == Se!Init => SeedInv
<1> SUFFICES ASSUME Se!Init PROVE SeedInv
    OBVIOUS
<1>1. \A S : <<>> \in [{} -> S]
    OBVIOUS
<1>2. /\ rows = <<>> /\ tickets = <<>> /\ payments = <<>> /\ notices = <<>> /\ owned = <<>>
      /\ DOMAIN rows = {} /\ DOMAIN tickets = {} /\ DOMAIN payments = {} /\ DOMAIN notices = {}
      /\ DOMAIN owned = {} /\ account = [u \in Se!Users |-> 0] /\ stage = "" /\ changes = 0
    <2>1. /\ rows = <<>> /\ tickets = <<>> /\ payments = <<>> /\ notices = <<>> /\ owned = <<>>
          /\ account = [u \in Se!Users |-> 0] /\ stage = "" /\ changes = 0
        BY DEF Se!Init
    <2>2. DOMAIN << >> = {}
        OBVIOUS
    <2>3. QED
        BY <2>1, <2>2
<1>3. SeedAccounts
    BY <1>2 DEF SeedAccounts, Se!Users
<1>4. SeedOwners /\ SeedPlaces /\ SeedPapers
    <2>1. SeedOwners /\ SeedPlaces
        BY <1>2 DEF SeedOwners, SeedPlaces
    <2>2. SeedPapers
        BY <1>1, <1>2 DEF SeedPapers
    <2>3. QED
        BY <2>1, <2>2
<1>5. SeedRows
    BY <1>1, <1>2 DEF SeedRows
<1>6. SeedTickets
    BY <1>1, <1>2 DEF SeedTickets
<1>7. QED
    BY <1>3, <1>4, <1>5, <1>6 DEF SeedInv

LEMMA NumbersGrow ==
    ASSUME NEW n \in Nat, NEW m \in {n, n + 1}
    PROVE  1 .. 4 \cup 101 .. 100 + n \subseteq 1 .. 4 \cup 101 .. 100 + m
OBVIOUS

\* Payments and notifications that nobody touches.
LEMMA PapersStay ==
    ASSUME SeedInv, UNCHANGED <<payments, notices>>, changes' \in {changes, changes + 1},
           DOMAIN rows \subseteq DOMAIN rows',
           \A r \in DOMAIN rows : rows'[r].holder = rows[r].holder
    PROVE  SeedPapers'
<1>0. changes \in Nat
    BY DEF SeedInv, SeedAccounts
<1>1. 1 .. 4 \cup 101 .. 100 + changes \subseteq 1 .. 4 \cup 101 .. 100 + changes'
    BY <1>0, NumbersGrow, ZenonT(30)
<1>2. payments' \in [DOMAIN payments' ->
                        [row : DOMAIN rows', payer : Nat, status : Se!PaymentStatuses]]
    BY DEF SeedInv, SeedPapers
<1>3. QED
    BY <1>0, <1>1, <1>2 DEF SeedInv, SeedPapers

LEMMA SuppliedStays ==
    ASSUME NEW s \in DOMAIN rows, Supplied(s), UNCHANGED payments, rows'[s] = rows[s],
           rows[s].status = "CONFIRMED" => s \in DOMAIN tickets' /\ tickets'[s] = tickets[s]
    PROVE  Supplied(s)'
BY DEF Supplied, Accounted

LEMMA IssuedIsSupplied ==
    ASSUME NEW s, rows'[s].ticket # 0, s \in DOMAIN tickets',
           tickets'[s] = [id |-> rows'[s].ticket, status |-> "ISSUED"]
    PROVE  Supplied(s)'
BY DEF Supplied, Accounted

\* An account that is made or found takes nothing away.
LEMMA AccountsGrow ==
    ASSUME SeedInv,
           account' \in [Se!Users -> Nat],
           \A u \in Se!Users : account'[u] \in {account[u], u, u + 100},
           \A u \in Se!Users : account[u] # 0 => account'[u] = account[u],
           UNCHANGED <<rows, tickets, payments, notices, changes>>,
           DOMAIN events \subseteq DOMAIN events'
    PROVE  SeedRows' /\ SeedTickets' /\ SeedPlaces' /\ SeedPapers'
<1>1. \A u \in Se!Users : account[u] # 0 => account'[u] # 0
    OBVIOUS
<1>2. SeedRows'
    BY <1>1 DEF SeedInv, SeedRows
<1>3. SeedTickets' /\ SeedPlaces' /\ SeedPapers'
    BY PapersStay DEF SeedInv, SeedTickets, Numbered, Supplied, Accounted, SeedPlaces
<1>4. QED
    BY <1>2, <1>3

\* The next ticket id is not in use.
LEMMA NewTicket ==
    ASSUME SeedInv, NEW r \in DOMAIN rows
    PROVE  rows[r].ticket # 100 + (changes + 1)
<1>1. Numbered(r) /\ changes \in Nat
    BY DEF SeedInv, SeedTickets, SeedAccounts
<1>2. CASE r \in Se!Ticketed
    BY <1>1, <1>2, DemoData DEF Numbered
<1>3. CASE r \notin Se!Ticketed
    BY <1>1, <1>3 DEF Numbered
<1>4. QED
    BY <1>2, <1>3

\* A row that is active and new finds its place.
LEMMA RegisterStep ==
    ASSUME SeedInv, NEW id \in Se!Ids, NEW e \in DOMAIN events, Se!Register(id, e)
    PROVE  SeedInv'
<1> DEFINE r == 100 + changes'
<1>1. /\ changes \in Nat /\ changes' = changes + 1
      /\ rows' = Se!Insert(rows, r, Se!Row(e, id, "CONFIRMED", r))
      /\ tickets' = Se!Insert(tickets, r, [id |-> r, status |-> "ISSUED"])
      /\ ~\E s \in DOMAIN rows : rows[s].event = e /\ rows[s].holder = id /\ Se!Active(rows[s])
      /\ UNCHANGED <<account, owned, events, notices, payments, stage>>
    BY DEF Se!Register, Se!Change, SeedInv, SeedAccounts
<1>2. /\ r \notin DOMAIN rows /\ r \notin DOMAIN tickets /\ r \notin Demo /\ r \in 101 .. 100 + changes'
      /\ 101 .. 100 + changes \subseteq 101 .. 100 + changes'
    BY <1>1 DEF SeedInv, SeedRows, SeedTickets, Demo
<1>3. /\ DOMAIN rows' = DOMAIN rows \cup {r} /\ rows' = [s \in DOMAIN rows' |-> rows'[s]]
      /\ rows'[r] = [event |-> e, holder |-> id, status |-> "CONFIRMED", ticket |-> r]
      /\ \A s \in DOMAIN rows : rows'[s] = rows[s]
    BY <1>1, <1>2 DEF Se!Row, Se!Insert, Se!Upsert
<1>4. /\ DOMAIN tickets' = DOMAIN tickets \cup {r} /\ tickets' = [s \in DOMAIN tickets' |-> tickets'[s]]
      /\ tickets'[r] = [id |-> r, status |-> "ISSUED"]
      /\ \A s \in DOMAIN tickets : tickets'[s] = tickets[s]
    BY <1>1, <1>2 DEF Se!Insert, Se!Upsert
<1>5. PICK u \in Se!Users : account[u] = id /\ id # 0
    BY DEF Se!Ids
<1>6. id \in Nat /\ Se!UserOf(id) = u
    BY <1>5 DEF SeedInv, SeedAccounts, Se!UserOf, Se!Users
<1>7. SeedAccounts' /\ SeedOwners'
    BY <1>1 DEF SeedInv, SeedAccounts, SeedOwners, Everybody
<1>8. SeedRows'
    <2>1. rows' \in [DOMAIN rows' ->
                    [event : DOMAIN events', holder : Nat, ticket : Nat,
                     status : {"CONFIRMED", "WAITLISTED", "CANCELLED", "REJECTED"}]]
        BY <1>1, <1>3, <1>6 DEF SeedInv, SeedRows
    <2>2. \A s \in DOMAIN rows' :
            /\ s \in Demo \cup 101 .. 100 + changes'
            /\ Se!UserOf(rows'[s].holder) \in Se!Users
            /\ account'[Se!UserOf(rows'[s].holder)] # 0
            /\ s \in Demo => rows'[s].holder = DemoHolder(s)
        BY <1>1, <1>2, <1>3, <1>5, <1>6 DEF SeedInv, SeedRows
    <2>3. QED
        BY <2>1, <2>2 DEF SeedRows, DemoHolder
<1>9. SeedTickets'
    <2>1. Se!Ticketed \subseteq Demo
        BY DemoData DEF Demo
    <2>2. \A s \in DOMAIN rows : rows[s].ticket # r
        BY <1>1, NewTicket
    <2>3. /\ tickets' \in [DOMAIN tickets' -> [id : Nat, status : DemoTicketStatuses]]
          /\ DOMAIN tickets' \subseteq DOMAIN rows'
        BY <1>1, <1>3, <1>4 DEF SeedInv, SeedTickets, DemoTicketStatuses
    <2>4. ASSUME NEW s \in DOMAIN rows'
          PROVE  Numbered(s)' /\ Supplied(s)'
        <3>1. CASE s = r
            <4>1. Supplied(s)'
                BY <1>1, <1>2, <1>3, <1>4, <3>1, IssuedIsSupplied
            <4>2. QED
                BY <1>1, <1>2, <1>3, <1>4, <2>1, <3>1, <4>1 DEF Numbered
        <3>2. CASE s \in DOMAIN rows
            <4>1. Numbered(s) /\ Supplied(s)
                BY <3>2 DEF SeedInv, SeedTickets
            <4>2. rows'[s] = rows[s] /\ (s \in DOMAIN tickets => tickets'[s] = tickets[s])
                BY <1>3, <1>4, <3>2
            <4>3. Numbered(s)'
                BY <1>2, <1>4, <4>1, <4>2 DEF Numbered, Se!Ticketed, DemoTicket
            <4>4. Supplied(s)'
                <5>1. rows[s].status = "CONFIRMED" => s \in DOMAIN tickets' /\ tickets'[s] = tickets[s]
                    BY <1>4, <4>1, <4>2 DEF Supplied
                <5>2. QED
                    BY <1>1, <3>2, <4>1, <4>2, <5>1, SuppliedStays
            <4>5. QED
                BY <4>3, <4>4
        <3>3. QED
            BY <1>3, <3>1, <3>2
    <2>5. \A s, t \in DOMAIN rows' : rows'[s].ticket = rows'[t].ticket /\ rows'[s].ticket # 0 => s = t
        BY <1>3, <2>2 DEF SeedInv, SeedTickets
    <2>6. QED
        BY <2>3, <2>4, <2>5 DEF SeedTickets
<1>10. SeedPlaces'
    BY <1>1, <1>3 DEF SeedInv, SeedPlaces, Se!Active
<1>11. SeedPapers'
    BY <1>1, <1>3, PapersStay
<1>12. QED
    BY <1>7, <1>8, <1>9, <1>10, <1>11 DEF SeedInv

\* A row is cancelled, and perhaps another one promoted.
LEMMA CancelStep ==
    ASSUME SeedInv, NEW r \in DOMAIN rows, Se!Cancel(r)
    PROVE  SeedInv'
<1> DEFINE revoked == [t \in DOMAIN tickets |->
                IF tickets[t].id = rows[r].ticket
                THEN [tickets[t] EXCEPT !.status = "CANCELLED"] ELSE tickets[t]]
           cancelled == [rows EXCEPT ![r].status = "CANCELLED"]
           given == 100 + changes'
<1>1. /\ changes \in Nat /\ changes' = changes + 1
      /\ UNCHANGED <<account, owned, events, notices, payments, stage>>
      /\ 101 .. 100 + changes \subseteq 101 .. 100 + changes'
    BY DEF Se!Cancel, Se!Change, SeedInv, SeedAccounts
<1>2. /\ DOMAIN cancelled = DOMAIN rows
      /\ cancelled \in [DOMAIN rows ->
                [event : DOMAIN events, holder : Nat, ticket : Nat,
                 status : {"CONFIRMED", "WAITLISTED", "CANCELLED", "REJECTED"}]]
      /\ cancelled[r].status = "CANCELLED"
      /\ \A s \in DOMAIN rows :
            /\ cancelled[s].event = rows[s].event /\ cancelled[s].holder = rows[s].holder
            /\ cancelled[s].ticket = rows[s].ticket
            /\ s # r => cancelled[s] = rows[s]
    BY DEF SeedInv, SeedRows
<1>3. /\ DOMAIN revoked = DOMAIN tickets
      /\ revoked \in [DOMAIN tickets -> [id : Nat, status : DemoTicketStatuses]]
      /\ \A t \in DOMAIN tickets : revoked[t].id = tickets[t].id
      /\ \A t \in DOMAIN rows : rows[t].status = "CONFIRMED" /\ t # r => revoked[t] = tickets[t]
    <2>1. /\ DOMAIN revoked = DOMAIN tickets
          /\ revoked \in [DOMAIN tickets -> [id : Nat, status : DemoTicketStatuses]]
          /\ \A t \in DOMAIN tickets : revoked[t].id = tickets[t].id
        BY DEF SeedInv, SeedTickets, DemoTicketStatuses
    <2>2. ASSUME NEW t \in DOMAIN rows, rows[t].status = "CONFIRMED", t # r
          PROVE  revoked[t] = tickets[t]
        <3>1. t \in DOMAIN tickets /\ tickets[t].id = rows[t].ticket /\ rows[t].ticket # 0
            <4>1. Supplied(t)
                BY DEF SeedInv, SeedTickets
            <4>2. QED
                BY <2>2, <4>1 DEF Supplied
        <3>2. tickets[t].id # rows[r].ticket
            BY <2>2, <3>1 DEF SeedInv, SeedTickets
        <3>3. QED
            BY <3>1, <3>2
    <2>3. QED
        BY <2>1, <2>2
<1>4. SeedAccounts' /\ SeedOwners'
    BY <1>1 DEF SeedInv, SeedAccounts, SeedOwners, Everybody
<1>5. CASE rows' = cancelled /\ tickets' = revoked
    <2>1. SeedRows'
        BY <1>1, <1>2, <1>5 DEF SeedInv, SeedRows, DemoHolder
    <2>2. SeedTickets'
        <3>1. ASSUME NEW s \in DOMAIN rows PROVE Numbered(s)' /\ Supplied(s)'
            <4>1. Numbered(s) /\ Supplied(s)
                BY DEF SeedInv, SeedTickets
            <4>2. Numbered(s)'
                BY <1>1, <1>2, <1>3, <1>5, <4>1 DEF Numbered, Se!Ticketed, DemoTicket
            <4>3. Supplied(s)'
                <5>1. CASE s = r
                    BY <1>2, <1>5, <5>1 DEF Supplied
                <5>2. CASE s # r
                    <6>1. rows'[s] = rows[s]
                        BY <1>2, <1>5, <5>2
                    <6>2. rows[s].status = "CONFIRMED"
                            => s \in DOMAIN tickets' /\ tickets'[s] = tickets[s]
                        BY <1>3, <1>5, <4>1, <5>2 DEF Supplied
                    <6>3. QED
                        BY <1>1, <4>1, <6>1, <6>2, SuppliedStays
                <5>3. QED
                    BY <5>1, <5>2
            <4>4. QED
                BY <4>2, <4>3
        <3>2. QED
            BY <1>2, <1>3, <1>5, <3>1 DEF SeedInv, SeedTickets
    <2>3. SeedPlaces'
        BY <1>2, <1>5 DEF SeedInv, SeedPlaces, Se!Active
    <2>4. SeedPapers'
        BY <1>1, <1>2, <1>5, PapersStay
    <2>5. QED
        BY <1>4, <2>1, <2>2, <2>3, <2>4 DEF SeedInv
<1>6. ASSUME NEW w \in DOMAIN rows \ DOMAIN tickets, w # r, rows[w].status = "WAITLISTED",
             rows' = [cancelled EXCEPT ![w].status = "CONFIRMED", ![w].ticket = given],
             tickets' = Se!Insert(revoked, w, [id |-> given, status |-> "ISSUED"])
      PROVE  SeedInv'
    <2>1. /\ DOMAIN rows' = DOMAIN rows
          /\ rows' \in [DOMAIN rows' ->
                    [event : DOMAIN events', holder : Nat, ticket : Nat,
                     status : {"CONFIRMED", "WAITLISTED", "CANCELLED", "REJECTED"}]]
          /\ rows'[w].status = "CONFIRMED" /\ rows'[w].ticket = given
          /\ \A s \in DOMAIN rows :
                /\ rows'[s].event = rows[s].event /\ rows'[s].holder = rows[s].holder
                /\ s # w => rows'[s] = cancelled[s]
        <3>1. given \in Nat
            BY <1>1
        <3>2. rows' = [s \in DOMAIN rows |-> IF s = w
                        THEN [cancelled[w] EXCEPT !.status = "CONFIRMED", !.ticket = given]
                        ELSE cancelled[s]]
            BY <1>2, <1>6
        <3> HIDE DEF cancelled, given
        <3>3. QED
            BY <1>1, <1>2, <1>6, <3>1, <3>2
    <2>2. /\ DOMAIN tickets' = DOMAIN tickets \cup {w}
          /\ tickets' \in [DOMAIN tickets' -> [id : Nat, status : DemoTicketStatuses]]
          /\ tickets'[w] = [id |-> given, status |-> "ISSUED"]
          /\ \A t \in DOMAIN tickets : tickets'[t] = revoked[t]
        <3>0. given \in Nat
            BY <1>1
        <3> HIDE DEF revoked, given
        <3>1. w \notin DOMAIN revoked
            BY <1>3, <1>6
        <3>2. /\ DOMAIN tickets' = DOMAIN tickets \cup {w}
              /\ tickets' = [t \in DOMAIN tickets' |-> tickets'[t]]
              /\ tickets'[w] = [id |-> given, status |-> "ISSUED"]
              /\ \A t \in DOMAIN tickets : tickets'[t] = revoked[t]
            BY <1>3, <1>6, <3>1 DEF Se!Insert, Se!Upsert
        <3>3. QED
            BY <1>3, <3>0, <3>2 DEF DemoTicketStatuses
    <2>3. SeedRows'
        BY <1>1, <2>1 DEF SeedInv, SeedRows, DemoHolder
    <2>4. SeedTickets'
        <3>1. w \notin Se!Ticketed
            BY <1>6 DEF SeedInv, SeedTickets, Numbered
        <3>2. \A s \in DOMAIN rows : rows[s].ticket # given
            BY <1>1, NewTicket
        <3>3. \A s \in DOMAIN rows : s # w => rows'[s].ticket = rows[s].ticket
            BY <1>2, <2>1
        <3>4. ASSUME NEW s \in DOMAIN rows' PROVE Numbered(s)' /\ Supplied(s)'
            <4>1. Numbered(s) /\ Supplied(s)
                BY <2>1 DEF SeedInv, SeedTickets
            <4>2. CASE s = w
                <5>1. Supplied(s)'
                    BY <1>1, <2>1, <2>2, <4>2, IssuedIsSupplied
                <5>2. QED
                    BY <1>1, <2>1, <2>2, <3>1, <4>2, <5>1 DEF Numbered, Se!Ticketed
            <4>3. CASE s # w
                <5>1. Numbered(s)'
                    BY <1>1, <1>3, <2>1, <2>2, <3>3, <4>1, <4>3 DEF Numbered, Se!Ticketed, DemoTicket
                <5>2. Supplied(s)'
                    <6>1. CASE s = r
                        BY <1>2, <2>1, <4>3, <6>1 DEF Supplied
                    <6>2. CASE s # r
                        <7>1. rows'[s] = rows[s]
                            BY <1>2, <2>1, <4>3, <6>2
                        <7>2. rows[s].status = "CONFIRMED"
                                => s \in DOMAIN tickets' /\ tickets'[s] = tickets[s]
                            BY <1>3, <2>1, <2>2, <4>1, <6>2 DEF Supplied
                        <7>3. QED
                            BY <1>1, <2>1, <4>1, <7>1, <7>2, SuppliedStays
                    <6>3. QED
                        BY <6>1, <6>2
                <5>3. QED
                    BY <5>1, <5>2
            <4>4. QED
                BY <4>2, <4>3
        <3>6. \A s, t \in DOMAIN rows' :
                rows'[s].ticket = rows'[t].ticket /\ rows'[s].ticket # 0 => s = t
            BY <2>1, <3>2, <3>3 DEF SeedInv, SeedTickets
        <3>7. DOMAIN tickets' \subseteq DOMAIN rows'
            BY <2>1, <2>2 DEF SeedInv, SeedTickets
        <3>8. QED
            BY <2>2, <3>4, <3>6, <3>7 DEF SeedTickets
    <2>5. SeedPlaces'
        <3>1. \A s \in DOMAIN rows : Se!Active(rows'[s]) => Se!Active(rows[s])
            BY <1>2, <1>6, <2>1 DEF Se!Active
        <3>2. QED
            BY <2>1, <3>1 DEF SeedInv, SeedPlaces, Se!Active
    <2>6. SeedPapers'
        BY <1>1, <2>1, PapersStay
    <2>7. QED
        BY <1>4, <2>3, <2>4, <2>5, <2>6 DEF SeedInv
<1>7. QED
    BY <1>5, <1>6 DEF Se!Cancel, Se!Waiting

\* A row's ticket is set: nothing else is changed than what the row names, if it named no
\* ticket, and the ticket of rows that are not confirmed.
LEMMA TicketEnsured ==
    ASSUME SeedInv, changes' = changes + 1, NEW r \in DOMAIN rows, NEW status \in DemoTicketStatuses,
           Se!EnsureTicket(r, status), UNCHANGED <<account, owned, events, notices, stage>>
    PROVE  /\ SeedAccounts' /\ SeedOwners' /\ SeedRows' /\ SeedPlaces'
           /\ DOMAIN rows' = DOMAIN rows
           /\ tickets' \in [DOMAIN tickets' -> [id : Nat, status : DemoTicketStatuses]]
           /\ DOMAIN tickets' \subseteq DOMAIN rows'
           /\ \A s \in DOMAIN rows :
                /\ rows'[s].holder = rows[s].holder /\ rows'[s].status = rows[s].status
                /\ Numbered(s)'
                /\ rows[s].status = "CONFIRMED" =>
                    /\ rows'[s] = rows[s] /\ s \in DOMAIN tickets' /\ tickets'[s].id = rows[s].ticket
                    /\ tickets'[s].status = IF s = r THEN status ELSE tickets[s].status
           /\ \A s, t \in DOMAIN rows' :
                rows'[s].ticket = rows'[t].ticket /\ rows'[s].ticket # 0 => s = t
<1> DEFINE named == {t \in DOMAIN tickets : tickets[t].id = rows[r].ticket}
           found == IF named # {} THEN named ELSE {r} \cap DOMAIN tickets
           id == IF rows[r].ticket = 0 THEN 100 + changes' ELSE rows[r].ticket
<1>1. /\ changes \in Nat /\ 101 .. 100 + changes \subseteq 101 .. 100 + changes'
      /\ 100 + changes' \in 101 .. 100 + changes' /\ 100 + changes' \in Nat
    BY DEF SeedInv, SeedAccounts
<1>2. /\ rows' = [rows EXCEPT ![r].ticket = id]
      /\ tickets' = IF found = {} THEN Se!Insert(tickets, r, [id |-> id, status |-> status])
                    ELSE [t \in DOMAIN tickets |->
                            IF t \in found THEN [tickets[t] EXCEPT !.status = status]
                            ELSE tickets[t]]
    BY DEF Se!EnsureTicket
<1>3. id \in Nat /\ id # 0
    BY <1>1 DEF SeedInv, SeedRows
<1> HIDE DEF id
<1>4. /\ DOMAIN rows' = DOMAIN rows
      /\ rows' \in [DOMAIN rows' ->
                    [event : DOMAIN events', holder : Nat, ticket : Nat,
                     status : {"CONFIRMED", "WAITLISTED", "CANCELLED", "REJECTED"}]]
      /\ rows'[r].ticket = id
      /\ \A s \in DOMAIN rows :
            /\ rows'[s].event = rows[s].event /\ rows'[s].holder = rows[s].holder
            /\ rows'[s].status = rows[s].status
            /\ s # r => rows'[s] = rows[s]
      /\ rows[r].ticket # 0 => rows'[r] = rows[r]
    <2>1. rows[r].ticket # 0 => id = rows[r].ticket
        BY DEF id
    <2>2. QED
        BY <1>2, <1>3, <2>1 DEF SeedInv, SeedRows
<1>5. found \subseteq DOMAIN tickets /\ (found = {} => r \notin DOMAIN tickets)
    OBVIOUS
<1>6. \A s \in DOMAIN rows : rows[s].status = "CONFIRMED" =>
        /\ rows[s].ticket # 0 /\ s \in DOMAIN tickets /\ tickets[s].id = rows[s].ticket
        /\ s \in found <=> s = r
    <2>1. ASSUME NEW s \in DOMAIN rows, rows[s].status = "CONFIRMED"
          PROVE  rows[s].ticket # 0 /\ s \in DOMAIN tickets /\ tickets[s].id = rows[s].ticket
        <3>1. Supplied(s)
            BY DEF SeedInv, SeedTickets
        <3>2. QED
            BY <2>1, <3>1 DEF Supplied
    <2>2. ASSUME NEW s \in DOMAIN rows, rows[s].status = "CONFIRMED", s # r
          PROVE  s \notin found
        BY <2>1, <2>2 DEF SeedInv, SeedTickets
    <2>3. QED
        BY <2>1, <2>2
<1>7. /\ DOMAIN tickets' = DOMAIN tickets \cup (IF found = {} THEN {r} ELSE {})
      /\ tickets' \in [DOMAIN tickets' -> [id : Nat, status : DemoTicketStatuses]]
      /\ \A t \in DOMAIN tickets :
            /\ tickets'[t].id = tickets[t].id
            /\ tickets'[t].status = IF t \in found THEN status ELSE tickets[t].status
    <2> HIDE DEF found
    <2>1. CASE found = {}
        <3>1. /\ DOMAIN tickets' = DOMAIN tickets \cup {r}
              /\ tickets' = [t \in DOMAIN tickets' |-> tickets'[t]]
              /\ tickets'[r] = [id |-> id, status |-> status]
              /\ \A t \in DOMAIN tickets : tickets'[t] = tickets[t]
            BY <1>2, <1>5, <2>1 DEF Se!Insert, Se!Upsert
        <3>2. QED
            BY <1>3, <2>1, <3>1 DEF SeedInv, SeedTickets
    <2>2. CASE found # {}
        BY <1>2, <1>5, <2>2 DEF SeedInv, SeedTickets
    <2>3. QED
        BY <2>1, <2>2
<1> HIDE DEF found
<1>8. SeedAccounts' /\ SeedOwners'
    BY <1>1 DEF SeedInv, SeedAccounts, SeedOwners, Everybody
<1>9. SeedRows'
    BY <1>1, <1>4 DEF SeedInv, SeedRows, DemoHolder
<1>10. SeedPlaces'
    BY <1>4 DEF SeedInv, SeedPlaces, Se!Active
<1>11. DOMAIN tickets' \subseteq DOMAIN rows'
    BY <1>4, <1>7 DEF SeedInv, SeedTickets
<1>12. ASSUME NEW s \in DOMAIN rows PROVE Numbered(s)'
    <2>1. Numbered(s)
        BY DEF SeedInv, SeedTickets
    <2>2. CASE s \in Se!Ticketed
        <3>1. /\ rows[s].ticket = DemoTicket(s) /\ s \in DOMAIN tickets
              /\ tickets[s].id = DemoTicket(s) /\ rows[s].ticket # 0
            BY <2>1, <2>2, DemoData DEF Numbered
        <3>2. rows'[s] = rows[s] /\ s \in DOMAIN tickets' /\ tickets'[s].id = tickets[s].id
            BY <1>4, <1>7, <3>1
        <3>3. QED
            BY <2>2, <3>1, <3>2 DEF Numbered, DemoTicket, Se!Ticketed
    <2>3. CASE s \notin Se!Ticketed
        <3>1. rows'[s].ticket = 0 \/ rows'[s].ticket \in 101 .. 100 + changes'
            BY <1>1, <1>4, <2>1, <2>3 DEF Numbered, id
        <3>2. QED
            BY <2>3, <3>1 DEF Numbered, Se!Ticketed
    <2>4. QED
        BY <2>2, <2>3
<1>13. ASSUME NEW s \in DOMAIN rows', NEW t \in DOMAIN rows',
              rows'[s].ticket = rows'[t].ticket, rows'[s].ticket # 0
       PROVE  s = t
    <2>1. rows[r].ticket = 0 => \A q \in DOMAIN rows : rows[q].ticket # id
        BY NewTicket DEF id
    <2>2. CASE rows[r].ticket # 0
        BY <1>4, <1>13, <2>2 DEF SeedInv, SeedTickets
    <2>3. CASE rows[r].ticket = 0
        BY <1>4, <1>13, <2>1, <2>3 DEF SeedInv, SeedTickets
    <2>4. QED
        BY <2>2, <2>3
<1>14. ASSUME NEW s \in DOMAIN rows, rows[s].status = "CONFIRMED"
       PROVE  /\ rows'[s] = rows[s] /\ s \in DOMAIN tickets' /\ tickets'[s].id = rows[s].ticket
              /\ tickets'[s].status = IF s = r THEN status ELSE tickets[s].status
    BY <1>4, <1>6, <1>7, <1>14
<1>15. QED
    BY <1>4, <1>7, <1>8, <1>9, <1>10, <1>11, <1>12, <1>13, <1>14

LEMMA OpenPaymentStep ==
    ASSUME SeedInv, NEW r \in DOMAIN rows, Se!OpenPayment(r)
    PROVE  SeedInv'
<1> DEFINE p == 100 + changes'
<1>1. /\ changes \in Nat /\ changes' = changes + 1
      /\ rows[r].status = "CONFIRMED"
      /\ Se!EnsureTicket(r, "PENDING")
      /\ payments' = Se!Insert(payments, p, Se!Payment(r, rows[r].holder, "PENDING"))
      /\ UNCHANGED <<account, owned, events, notices, stage>>
    BY DEF Se!OpenPayment, Se!Change, SeedInv, SeedAccounts
<1>2. "PENDING" \in DemoTicketStatuses /\ "PENDING" \in Se!PaymentStatuses
    BY DEF DemoTicketStatuses, Se!PaymentStatuses
<1>3. /\ SeedAccounts' /\ SeedOwners' /\ SeedRows' /\ SeedPlaces'
      /\ DOMAIN rows' = DOMAIN rows
      /\ tickets' \in [DOMAIN tickets' -> [id : Nat, status : DemoTicketStatuses]]
      /\ DOMAIN tickets' \subseteq DOMAIN rows'
      /\ \A s \in DOMAIN rows :
            /\ rows'[s].holder = rows[s].holder /\ rows'[s].status = rows[s].status
            /\ Numbered(s)'
            /\ rows[s].status = "CONFIRMED" =>
                /\ rows'[s] = rows[s] /\ s \in DOMAIN tickets' /\ tickets'[s].id = rows[s].ticket
                /\ tickets'[s].status = IF s = r THEN "PENDING" ELSE tickets[s].status
      /\ \A s, t \in DOMAIN rows' :
            rows'[s].ticket = rows'[t].ticket /\ rows'[s].ticket # 0 => s = t
    BY <1>1, <1>2, TicketEnsured
<1>4. p \notin DOMAIN payments /\ p \in 101 .. 100 + changes' /\ p \notin 1 .. 4
      /\ 101 .. 100 + changes \subseteq 101 .. 100 + changes'
    BY <1>1 DEF SeedInv, SeedPapers
<1>5. /\ DOMAIN payments' = DOMAIN payments \cup {p}
      /\ payments' = [q \in DOMAIN payments' |-> payments'[q]]
      /\ payments'[p] = [row |-> r, payer |-> rows[r].holder, status |-> "PENDING"]
      /\ \A q \in DOMAIN payments : payments'[q] = payments[q]
    BY <1>1, <1>4 DEF Se!Insert, Se!Upsert, Se!Payment
<1> HIDE DEF p
<1>6. SeedPapers'
    <2>1. rows[r].holder \in Nat
        BY DEF SeedInv, SeedRows
    <2>2. payments' \in [DOMAIN payments' ->
                        [row : DOMAIN rows', payer : Nat, status : Se!PaymentStatuses]]
        BY <1>2, <1>3, <1>5, <2>1 DEF SeedInv, SeedPapers
    <2>3. \A q \in DOMAIN payments' :
            /\ q \in 1 .. 4 \cup 101 .. 100 + changes'
            /\ payments'[q].payer = rows'[payments'[q].row].holder
            /\ q \in 1 .. 4 => payments'[q].row \in Demo
        BY <1>3, <1>4, <1>5 DEF SeedInv, SeedPapers
    <2>4. QED
        BY <1>1, <1>3, <2>2, <2>3 DEF SeedInv, SeedPapers
<1>7. ASSUME NEW s \in DOMAIN rows' PROVE Supplied(s)'
    <2>1. Supplied(s)
        BY <1>3 DEF SeedInv, SeedTickets
    <2>2. CASE s = r
        BY <1>1, <1>3, <1>5, <2>1, <2>2 DEF Supplied, Accounted
    <2>3. CASE s # r
        BY <1>3, <1>5, <2>1, <2>3 DEF Supplied, Accounted
    <2>4. QED
        BY <2>2, <2>3
<1>8. SeedTickets'
    BY <1>3, <1>7 DEF SeedTickets
<1>9. QED
    BY <1>3, <1>6, <1>8 DEF SeedInv

LEMMA PaymentReportedStep ==
    ASSUME SeedInv, NEW p \in DOMAIN payments, NEW said \in Se!PaymentStatuses,
           Se!PaymentReported(p, said)
    PROVE  SeedInv'
<1> DEFINE r == payments[p].row
           status == IF said = "SUCCEEDED" THEN "ISSUED" ELSE "CANCELLED"
<1>1. /\ changes \in Nat /\ changes' = changes + 1 /\ r \in DOMAIN rows
      /\ 101 .. 100 + changes \subseteq 101 .. 100 + changes'
      /\ payments' = [payments EXCEPT ![p].status = said]
      /\ payments[p].status = "SUCCEEDED" => said = "SUCCEEDED"
      /\ UNCHANGED <<account, owned, events, notices, stage>>
      /\ IF said = "PENDING" THEN UNCHANGED <<rows, tickets>> ELSE Se!EnsureTicket(r, status)
    <2>1. changes \in Nat /\ changes' = changes + 1 /\ r \in DOMAIN rows
        BY DEF Se!PaymentReported, Se!Change, SeedInv, SeedAccounts, SeedPapers
    <2>2. said \in {"PENDING", "SUCCEEDED", "FAILED", "CANCELLED"}
        BY DEF Se!PaymentStatuses
    <2>3. CASE said = "SUCCEEDED"
        BY <2>1, <2>3 DEF Se!PaymentReported
    <2>4. CASE said \in {"FAILED", "CANCELLED"}
        <3>1. Se!EnsureTicket(r, "CANCELLED")
            BY <2>4 DEF Se!PaymentReported
        <3>2. QED
            BY <2>1, <2>4, <3>1 DEF Se!PaymentReported
    <2>5. CASE said = "PENDING"
        BY <2>1, <2>5 DEF Se!PaymentReported
    <2>6. QED
        BY <2>2, <2>3, <2>4, <2>5
<1>2. /\ DOMAIN payments' = DOMAIN payments
      /\ payments' \in [DOMAIN payments ->
                        [row : DOMAIN rows, payer : Nat, status : Se!PaymentStatuses]]
      /\ payments'[p].status = said
      /\ \A q \in DOMAIN payments :
            /\ payments'[q].row = payments[q].row /\ payments'[q].payer = payments[q].payer
            /\ q # p => payments'[q] = payments[q]
    BY <1>1 DEF SeedInv, SeedPapers
<1>3. /\ SeedAccounts' /\ SeedOwners' /\ SeedRows' /\ SeedPlaces'
      /\ DOMAIN rows' = DOMAIN rows
      /\ tickets' \in [DOMAIN tickets' -> [id : Nat, status : DemoTicketStatuses]]
      /\ DOMAIN tickets' \subseteq DOMAIN rows'
      /\ \A s \in DOMAIN rows :
            /\ rows'[s].holder = rows[s].holder /\ rows'[s].status = rows[s].status
            /\ Numbered(s)'
            /\ rows[s].status = "CONFIRMED" =>
                /\ rows'[s] = rows[s] /\ s \in DOMAIN tickets' /\ tickets'[s].id = rows[s].ticket
                /\ tickets'[s].status =
                        IF s = r /\ said # "PENDING" THEN status ELSE tickets[s].status
      /\ \A s, t \in DOMAIN rows' :
            rows'[s].ticket = rows'[t].ticket /\ rows'[s].ticket # 0 => s = t
    <2>1. CASE said # "PENDING"
        <3>1. status \in DemoTicketStatuses
            BY DEF DemoTicketStatuses
        <3>2. Se!EnsureTicket(r, status)
            BY <1>1, <2>1
        <3> HIDE DEF r, status
        <3>3. QED
            BY <1>1, <2>1, <3>1, <3>2, TicketEnsured
    <2>2. CASE said = "PENDING"
        <3>1. UNCHANGED <<rows, tickets>>
            BY <1>1, <2>2
        <3>2. SeedAccounts' /\ SeedOwners' /\ SeedRows' /\ SeedPlaces'
            BY <1>1, <3>1 DEF SeedInv, SeedAccounts, SeedOwners, SeedRows, SeedPlaces, Everybody
        <3>3. \A s \in DOMAIN rows : Numbered(s) /\ Supplied(s)
            BY DEF SeedInv, SeedTickets
        <3>4. \A s \in DOMAIN rows : Numbered(s)'
            BY <1>1, <3>1, <3>3 DEF Numbered
        <3>5. \A s \in DOMAIN rows : rows[s].status = "CONFIRMED" =>
                s \in DOMAIN tickets /\ tickets[s].id = rows[s].ticket
            BY <3>3 DEF Supplied
        <3>6. QED
            BY <2>2, <3>1, <3>2, <3>4, <3>5 DEF SeedInv, SeedTickets
    <2>3. QED
        BY <2>1, <2>2
<1>4. SeedPapers'
    BY <1>1, <1>2, <1>3 DEF SeedInv, SeedPapers
<1>5. ASSUME NEW s \in DOMAIN rows' PROVE Supplied(s)'
    <2>1. SUFFICES ASSUME rows'[s].status = "CONFIRMED"
                   PROVE  rows'[s].ticket # 0 /\ Accounted(s)'
        BY <1>3 DEF Supplied
    <2>2. /\ rows[s].status = "CONFIRMED" /\ rows[s].ticket # 0 /\ Accounted(s)
          /\ rows'[s] = rows[s]
          /\ tickets'[s].status = IF s = r /\ said # "PENDING" THEN status ELSE tickets[s].status
        <3>1. Supplied(s)
            BY <1>3 DEF SeedInv, SeedTickets
        <3>2. QED
            BY <1>3, <2>1, <3>1 DEF Supplied
    <2>3. CASE s = r /\ said # "PENDING"
        BY <1>2, <2>2, <2>3 DEF Accounted
    <2>4. CASE s = r /\ said = "PENDING"
        BY <1>2, <2>2, <2>4 DEF Accounted
    <2>5. CASE s # r
        BY <1>2, <2>2, <2>5 DEF Accounted
    <2>6. QED
        BY <2>2, <2>3, <2>4, <2>5
<1>6. SeedTickets'
    BY <1>3, <1>5 DEF SeedTickets
<1>7. QED
    BY <1>3, <1>4, <1>6 DEF SeedInv

\* All demo tables are written again.
LEMMA SeedRegistrationsStep ==
    ASSUME SeedInv, Se!SeedRegistrations
    PROVE  SeedInv'
<1>1. /\ stage = "registration" /\ stage' = ""
      /\ rows' = Se!Upsert(Se!DemoRows, rows)
      /\ tickets' = Se!Upsert([r \in Se!Ticketed |-> Se!UpsertTicket(r)], tickets)
      /\ notices' = Se!DemoNotices /\ payments' = Se!Upsert(Se!DemoPayments, payments)
      /\ UNCHANGED <<account, owned, events, changes>>
    BY DEF Se!SeedRegistrations, Se!NextStage
<1>2. /\ DOMAIN rows' = Demo \cup DOMAIN rows
      /\ rows' = [r \in DOMAIN rows' |-> rows'[r]]
      /\ \A r \in Demo : rows'[r] = Se!DemoRows[r]
      /\ \A r \in DOMAIN rows \ Demo : rows'[r] = rows[r]
    BY <1>1, DemoData DEF Se!Upsert
<1>3. /\ DOMAIN tickets' = Se!Ticketed \cup DOMAIN tickets
      /\ tickets' = [r \in DOMAIN tickets' |-> tickets'[r]]
      /\ \A r \in Se!Ticketed : tickets'[r] = Se!UpsertTicket(r)
      /\ \A r \in DOMAIN tickets \ Se!Ticketed : tickets'[r] = tickets[r]
    BY <1>1 DEF Se!Upsert
<1>12. /\ DOMAIN payments' = 1 .. 4 \cup DOMAIN payments
       /\ payments' = [p \in DOMAIN payments' |-> payments'[p]]
       /\ \A p \in 1 .. 4 : payments'[p] = Se!DemoPayments[p]
       /\ \A p \in DOMAIN payments \ 1 .. 4 : payments'[p] = payments[p]
    BY <1>1, DemoPapers DEF Se!Upsert
<1>4. ASSUME NEW r \in Se!Ticketed
      PROVE  Se!UpsertTicket(r) = [id |-> DemoTicket(r), status |-> "ISSUED"]
    <2>1. CASE r \in DOMAIN tickets
        <3>1. Numbered(r)
            BY <2>1 DEF SeedInv, SeedTickets
        <3>2. QED
            BY <2>1, <3>1 DEF Numbered, Se!UpsertTicket
    <2>2. CASE r \notin DOMAIN tickets
        BY <2>2 DEF Se!UpsertTicket, DemoTicket
    <2>3. QED
        BY <2>1, <2>2
<1>5. Everybody /\ DOMAIN Se!DemoEvents \subseteq DOMAIN events
    BY <1>1 DEF SeedInv, SeedAccounts
<1>6. SeedAccounts' /\ SeedOwners'
    BY <1>1 DEF SeedInv, SeedAccounts, SeedOwners, Everybody
<1>7. SeedRows'
    <2>1. ASSUME NEW r \in Demo
          PROVE  /\ rows'[r] \in [event : DOMAIN events', holder : Nat, ticket : Nat,
                                  status : {"CONFIRMED", "WAITLISTED", "CANCELLED", "REJECTED"}]
                 /\ Se!UserOf(rows'[r].holder) \in Se!Users
                 /\ account'[Se!UserOf(rows'[r].holder)] # 0
                 /\ rows'[r].holder = DemoHolder(r)
        <3>1. /\ rows'[r] = Se!DemoRows[r]
              /\ Se!DemoRows[r] \in [event : DOMAIN Se!DemoEvents, holder : 104 .. 107, ticket : Nat,
                               status : {"CONFIRMED", "WAITLISTED", "CANCELLED", "REJECTED"}]
            BY <1>2, DemoData
        <3>2. /\ rows'[r].holder \in 104 .. 107
              /\ rows'[r] \in [event : DOMAIN events', holder : Nat, ticket : Nat,
                               status : {"CONFIRMED", "WAITLISTED", "CANCELLED", "REJECTED"}]
            <4>0. \A h \in 104 .. 107 : h \in Nat
                OBVIOUS
            <4>1. DOMAIN Se!DemoEvents \subseteq DOMAIN events'
                BY <1>1, <1>5
            <4>2. rows'[r].holder \in 104 .. 107
                BY <3>1
            <4>3. /\ rows'[r].event \in DOMAIN events' /\ rows'[r].holder \in Nat
                  /\ rows'[r].ticket \in Nat
                  /\ rows'[r].status \in {"CONFIRMED", "WAITLISTED", "CANCELLED", "REJECTED"}
                BY <3>1, <4>0, <4>1
            <4>4. rows'[r] = [event |-> rows'[r].event, holder |-> rows'[r].holder,
                              ticket |-> rows'[r].ticket, status |-> rows'[r].status]
                BY <3>1
            <4>5. QED
                BY <4>2, <4>3, <4>4
        <3>3. Se!UserOf(rows'[r].holder) \in Se!Users
            BY <3>2 DEF Se!UserOf, Se!Users
        <3>4. QED
            BY <1>1, <1>5, <3>1, <3>2, <3>3 DEF DemoHolder, Everybody
    <2>2. ASSUME NEW r \in DOMAIN rows \ Demo
          PROVE  /\ rows'[r] \in [event : DOMAIN events', holder : Nat, ticket : Nat,
                                  status : {"CONFIRMED", "WAITLISTED", "CANCELLED", "REJECTED"}]
                 /\ r \in 101 .. 100 + changes'
                 /\ Se!UserOf(rows'[r].holder) \in Se!Users
                 /\ account'[Se!UserOf(rows'[r].holder)] # 0
        BY <1>1, <1>2 DEF SeedInv, SeedRows
    <2>3. rows' \in [DOMAIN rows' ->
                    [event : DOMAIN events', holder : Nat, ticket : Nat,
                     status : {"CONFIRMED", "WAITLISTED", "CANCELLED", "REJECTED"}]]
        BY <1>2, <2>1, <2>2
    <2>4. \A r \in DOMAIN rows' :
            /\ r \in Demo \cup 101 .. 100 + changes'
            /\ Se!UserOf(rows'[r].holder) \in Se!Users
            /\ account'[Se!UserOf(rows'[r].holder)] # 0
            /\ r \in Demo => rows'[r].holder = DemoHolder(r)
        BY <1>2, <2>1, <2>2
    <2>5. QED
        BY <2>3, <2>4 DEF SeedRows, DemoHolder
<1>8. SeedTickets'
    <2>1. tickets' \in [DOMAIN tickets' -> [id : Nat, status : DemoTicketStatuses]]
        <3>1. \A r \in Se!Ticketed : tickets'[r] \in [id : Nat, status : DemoTicketStatuses]
            BY <1>3, <1>4, DemoData DEF DemoTicketStatuses
        <3>2. \A r \in DOMAIN tickets \ Se!Ticketed :
                tickets'[r] \in [id : Nat, status : DemoTicketStatuses]
            BY <1>3 DEF SeedInv, SeedTickets
        <3>3. QED
            BY <1>3, <3>1, <3>2
    <2>2. DOMAIN tickets' \subseteq DOMAIN rows'
        BY <1>2, <1>3, DemoData DEF SeedInv, SeedTickets
    <2>3. ASSUME NEW r \in DOMAIN rows' PROVE Numbered(r)' /\ Supplied(r)'
        <3>1. CASE r \in Se!Ticketed
            <4>1. /\ rows'[r].ticket = DemoTicket(r) /\ DemoTicket(r) # 0
                  /\ r \in DOMAIN tickets' /\ tickets'[r] = [id |-> DemoTicket(r), status |-> "ISSUED"]
                BY <1>2, <1>3, <1>4, <3>1, DemoData DEF DemoTicket
            <4>2. QED
                BY <3>1, <4>1, IssuedIsSupplied DEF Numbered, Se!Ticketed, DemoTicket
        <3>2. CASE r \in Demo \ Se!Ticketed
            <4>1. rows'[r].ticket = 0 /\ rows'[r].status # "CONFIRMED"
                BY <1>2, <3>2, DemoData DEF DemoTicket
            <4>2. QED
                BY <3>2, <4>1 DEF Numbered, Supplied, Se!Ticketed
        <3>3. CASE r \in DOMAIN rows \ Demo
            <4>1. Numbered(r) /\ Supplied(r) /\ rows'[r] = rows[r] /\ r \notin Se!Ticketed
                BY <1>2, <3>3, DemoData DEF SeedInv, SeedTickets
            <4>2. r \in DOMAIN tickets => r \in DOMAIN tickets' /\ tickets'[r] = tickets[r]
                BY <1>3, <4>1
            <4>3. Numbered(r)'
                BY <1>1, <4>1 DEF Numbered, Se!Ticketed
            <4>4. Supplied(r)'
                <5>1. \A p \in DOMAIN payments : payments[p].row = r =>
                        p \in DOMAIN payments' /\ payments'[p] = payments[p]
                    BY <1>12, <3>3 DEF SeedInv, SeedPapers
                <5>2. QED
                    BY <4>1, <4>2, <5>1 DEF Supplied, Accounted
            <4>5. QED
                BY <4>3, <4>4
        <3>4. QED
            BY <1>2, <3>1, <3>2, <3>3
    <2>4. ASSUME NEW r \in DOMAIN rows', NEW s \in DOMAIN rows',
                 rows'[r].ticket = rows'[s].ticket, rows'[r].ticket # 0
          PROVE  r = s
        <3>1. \A t \in DOMAIN rows \ Demo : Numbered(t) /\ rows'[t] = rows[t] /\ t \notin Se!Ticketed
            BY <1>2, DemoData DEF SeedInv, SeedTickets
        <3>2. \A t \in DOMAIN rows \ Demo : rows'[t].ticket = 0 \/ rows'[t].ticket \in 101 .. 100 + changes
            BY <3>1 DEF Numbered
        <3>3. \A t \in Demo : rows'[t].ticket = DemoTicket(t)
            BY <1>2 DEF DemoTicket
        <3>4. \A t \in Demo : DemoTicket(t) # 0 => t \in Se!Ticketed /\ DemoTicket(t) \in 1 .. 3
            BY DemoData
        <3>5. changes \in Nat
            BY DEF SeedInv, SeedAccounts
        <3>6. CASE r \in Demo /\ s \in Demo
            BY <2>4, <3>3, <3>4, <3>6, DemoData
        <3>7. CASE r \notin Demo /\ s \notin Demo
            BY <1>2, <2>4, <3>1, <3>7 DEF SeedInv, SeedTickets
        <3>8. CASE r \in Demo /\ s \notin Demo
            BY <1>2, <2>4, <3>2, <3>3, <3>4, <3>5, <3>8
        <3>9. CASE r \notin Demo /\ s \in Demo
            BY <1>2, <2>4, <3>2, <3>3, <3>4, <3>5, <3>9
        <3>10. QED
            BY <3>6, <3>7, <3>8, <3>9
    <2>5. QED
        BY <2>1, <2>2, <2>3, <2>4 DEF SeedTickets
<1>9. SeedPlaces'
    <2>1. SUFFICES ASSUME NEW r \in DOMAIN rows', NEW s \in DOMAIN rows', r # s,
                          Se!Active(rows'[r]), Se!Active(rows'[s]),
                          rows'[r].event = rows'[s].event, rows'[r].holder = rows'[s].holder
                   PROVE  FALSE
        BY DEF SeedPlaces, Se!Active
    <2>2. ~Se!Refused
        BY DEF Se!SeedRegistrations
    <2>3. CASE r \in Demo /\ s \in Demo
        BY <1>2, <2>1, <2>3, DemoPlaces
    <2>4. CASE r \notin Demo /\ s \notin Demo
        BY <1>2, <2>1, <2>4 DEF SeedInv, SeedPlaces
    <2>5. CASE r \in Demo /\ s \notin Demo
        BY <1>2, <2>1, <2>2, <2>5, DemoData DEF Se!Refused
    <2>6. CASE r \notin Demo /\ s \in Demo
        BY <1>2, <2>1, <2>2, <2>6, DemoData DEF Se!Refused
    <2>7. QED
        BY <2>3, <2>4, <2>5, <2>6
<1>10. SeedPapers'
    <2>1. \A r \in DOMAIN rows : rows'[r].holder = rows[r].holder
        BY <1>2 DEF SeedInv, SeedRows, DemoHolder
    <2>2. \A p \in 1 .. 4 :
            /\ payments'[p] \in [row : DOMAIN rows', payer : Nat, status : Se!PaymentStatuses]
            /\ payments'[p].row \in Demo
            /\ payments'[p].payer = rows'[payments'[p].row].holder
        BY <1>2, <1>12, DemoPapers DEF DemoHolder
    <2>3. \A p \in DOMAIN payments \ 1 .. 4 :
            /\ payments'[p] \in [row : DOMAIN rows', payer : Nat, status : Se!PaymentStatuses]
            /\ p \in 101 .. 100 + changes'
            /\ payments'[p].payer = rows'[payments'[p].row].holder
        <3>1. ASSUME NEW p \in DOMAIN payments \ 1 .. 4
              PROVE  /\ payments'[p] = payments[p] /\ payments[p].row \in DOMAIN rows
                     /\ payments[p] \in [row : DOMAIN rows, payer : Nat, status : Se!PaymentStatuses]
                     /\ p \in 101 .. 100 + changes
                     /\ payments[p].payer = rows[payments[p].row].holder
            BY <1>12 DEF SeedInv, SeedPapers
        <3>2. DOMAIN rows \subseteq DOMAIN rows' /\ changes' = changes
            BY <1>1, <1>2
        <3>3. QED
            BY <2>1, <3>1, <3>2
    <2>4. payments' \in [DOMAIN payments' ->
                        [row : DOMAIN rows', payer : Nat, status : Se!PaymentStatuses]]
        BY <1>12, <2>2, <2>3
    <2>5. \A n \in DOMAIN notices' : notices'[n].row \in DOMAIN rows' \cup {0}
        BY <1>1, <1>2, DemoPapers
    <2>6. QED
        BY <1>12, <2>2, <2>3, <2>4, <2>5 DEF SeedPapers
<1>11. QED
    BY <1>6, <1>7, <1>8, <1>9, <1>10 DEF SeedInv

LEMMA NextSeed == SeedInv /\ [Se!Next]_(Se!vars) => SeedInv'
<1> SUFFICES ASSUME SeedInv, [Se!Next]_(Se!vars) PROVE SeedInv'
    OBVIOUS
<1>1. CASE UNCHANGED <<account, owned, rows, tickets, notices, payments, changes>>
           /\ DOMAIN events \subseteq DOMAIN events'
           /\ (stage' = stage \/ stage' \in {"", "identity"}
               \/ (stage = "events" /\ DOMAIN Se!DemoEvents \subseteq DOMAIN events'))
    <2>1. SeedAccounts' /\ SeedOwners'
        BY <1>1 DEF SeedInv, SeedAccounts, SeedOwners, Everybody
    <2>2. SeedRows' /\ SeedTickets' /\ SeedPlaces' /\ SeedPapers'
        <3>1. \A u \in Se!Users : account'[u] \in {account[u], u, u + 100}
            BY <1>1
        <3>2. QED
            BY <1>1, <3>1, AccountsGrow DEF SeedInv, SeedAccounts
    <2>3. QED
        BY <2>1, <2>2 DEF SeedInv
<1>2. ASSUME NEW u \in Se!Users, Se!SignUp(u) PROVE SeedInv'
    <2>1. /\ account[u] = 0 /\ account' = [account EXCEPT ![u] = u + 100]
          /\ changes' = changes + 1 /\ changes \in Nat /\ u \in Nat
          /\ UNCHANGED <<owned, events, rows, tickets, notices, payments, stage>>
        BY <1>2 DEF Se!SignUp, Se!Change, SeedInv, SeedAccounts, Se!Users
    <2>2. SeedAccounts' /\ SeedOwners'
        BY <2>1, DemoOwners DEF SeedInv, SeedAccounts, SeedOwners, Everybody
    <2>3. /\ \A v \in Se!Users : account[v] # 0 => account'[v] # 0
          /\ 101 .. 100 + changes \subseteq 101 .. 100 + changes'
        BY <2>1 DEF SeedInv, SeedAccounts
    <2>4. SeedRows'
        BY <2>1, <2>3 DEF SeedInv, SeedRows
    <2>5. SeedTickets' /\ SeedPlaces' /\ SeedPapers'
        BY <2>1, <2>3, PapersStay DEF SeedInv, SeedTickets, Numbered, Supplied, Accounted, SeedPlaces
    <2>6. QED
        BY <2>2, <2>4, <2>5 DEF SeedInv
<1>3. CASE Se!SeedIdentity
    <2>1. /\ account' = [u \in Se!Users |-> IF account[u] = 0 THEN u ELSE account[u]]
          /\ owned' = [o \in DOMAIN Se!OwnedBy |-> Se!Stored(Se!OwnedBy[o])]
          /\ stage' = "events"
          /\ UNCHANGED <<events, rows, tickets, notices, payments, changes>>
        BY <1>3 DEF Se!SeedIdentity, Se!NextStage
    <2>2. /\ account' \in [Se!Users -> Nat]
          /\ \A u \in Se!Users : account'[u] \in {account[u], u, u + 100}
          /\ \A u \in Se!Users : account[u] # 0 => account'[u] = account[u]
          /\ Everybody'
          /\ SeedAccounts'
        BY <2>1 DEF SeedInv, SeedAccounts, Everybody, Se!Users
    <2>3. SeedOwners'
        BY <2>1, <2>2, DemoOwners DEF SeedOwners, Se!Stored
    <2>4. SeedRows' /\ SeedTickets' /\ SeedPlaces' /\ SeedPapers'
        BY <2>1, <2>2, AccountsGrow
    <2>5. QED
        BY <2>2, <2>3, <2>4 DEF SeedInv
<1>4. CASE Se!SeedEvents
    <2>1. DOMAIN events' = DOMAIN Se!DemoEvents \cup DOMAIN events
        BY <1>4, Upserted DEF Se!SeedEvents
    <2>2. QED
        BY <1>1, <1>4, <2>1 DEF Se!SeedEvents, Se!NextStage
<1>5. ASSUME NEW e \in Se!Catalogue, Se!InsertCatalogueEvent(e) PROVE SeedInv'
    <2>1. DOMAIN events \subseteq DOMAIN events'
        BY <1>5 DEF Se!InsertCatalogueEvent, Se!Insert, Se!Upsert
    <2>2. QED
        BY <1>1, <1>5, <2>1 DEF Se!InsertCatalogueEvent
<1>6. ASSUME NEW e \in DOMAIN events, Se!EndEvent(e) PROVE SeedInv'
    <2>1. /\ DOMAIN events' = DOMAIN events /\ changes' = changes + 1 /\ changes \in Nat
          /\ UNCHANGED <<account, owned, rows, tickets, notices, payments, stage>>
        BY <1>6 DEF Se!EndEvent, Se!Change, SeedInv, SeedAccounts
    <2>2. SeedAccounts' /\ SeedOwners'
        BY <2>1 DEF SeedInv, SeedAccounts, SeedOwners, Everybody
    <2>3. 101 .. 100 + changes \subseteq 101 .. 100 + changes'
        BY <2>1
    <2>4. SeedRows'
        BY <2>1, <2>3 DEF SeedInv, SeedRows
    <2>5. SeedTickets' /\ SeedPlaces' /\ SeedPapers'
        BY <2>1, <2>3, PapersStay DEF SeedInv, SeedTickets, Numbered, Supplied, Accounted, SeedPlaces
    <2>6. QED
        BY <2>2, <2>4, <2>5 DEF SeedInv
<1>7. QED
    BY <1>1, <1>2, <1>3, <1>4, <1>5, <1>6, RegisterStep, CancelStep, OpenPaymentStep,
       PaymentReportedStep, SeedRegistrationsStep
    DEF Se!Next, Se!vars, Se!StartDemo, Se!SeedFails, Se!AfterFailure, Se!StartCatalogue,
        Se!CatalogueFails

\* Whatever seeds of the three services are run, fail half-way or are run again, between
\* whatever people register, cancel and pay: every row has its event and an account, and every
\* confirmed one its ticket, which is issued unless a payment of the row accounts for it.
THEOREM SeedsFitTogether == Se!Spec => []DemoConnected
<1>1. SeedInv => DemoConnected
    <2> SUFFICES ASSUME SeedInv PROVE DemoConnected
        OBVIOUS
    <2>1. ASSUME NEW r \in DOMAIN rows
          PROVE /\ rows[r].event \in DOMAIN events
                /\ account[Se!UserOf(rows[r].holder)] # 0
                /\ rows[r].status = "CONFIRMED" =>
                    /\ r \in DOMAIN tickets /\ tickets[r].id = rows[r].ticket
                    /\ tickets[r].status = "PENDING"
                        => \E p \in Se!Unpaid(r) : payments[p].status = "PENDING"
                    /\ tickets[r].status = "CANCELLED" => Se!Unpaid(r) # {}
        <3>1. Supplied(r)
            BY DEF SeedInv, SeedTickets
        <3>2. rows[r].event \in DOMAIN events /\ account[Se!UserOf(rows[r].holder)] # 0
            BY DEF SeedInv, SeedRows
        <3>3. QED
            BY <3>1, <3>2 DEF Supplied, Accounted, Se!Unpaid
    <2>2. \A p \in DOMAIN payments :
            payments[p].row \in DOMAIN rows /\ rows[payments[p].row].holder = payments[p].payer
        BY DEF SeedInv, SeedPapers, SeedRows
    <2>3. QED
        BY <2>1, <2>2
        DEF DemoConnected, Se!DemoConnected, SeedInv, SeedPlaces, SeedOwners, SeedPapers, Se!Active
<1>2. QED
    BY <1>1, InitSeed, NextSeed, PTL DEF Se!Spec

-----------------------------------------------------------------------------
(***************************************************************************)
(* Sums over the series of a metric                                        *)
(***************************************************************************)
\* A set of naturals that is not empty has a least one.
LEMMA HasLeast ==
    ASSUME NEW S, S \subseteq Nat, S # {}
    PROVE  \E i \in S : \A j \in S : i <= j
<1> DEFINE R == OpToRel(<, Nat)
<1>1. \A k, j \in Nat : <<j, k>> \in R <=> j < k
    BY DEF OpToRel
<1>2. IsWellFoundedOn(R, Nat)
    BY NatLessThanWellFounded
<1> HIDE DEF R
<1>3. PICK i \in S : \A j \in S : ~(<<j, i>> \in R)
    BY <1>2, WFMin
<1>4. \A j \in S : ~(j < i)
    BY <1>1, <1>3
<1>5. \A j \in S : i <= j
    BY <1>4
<1>6. QED
    BY <1>3, <1>5

Picked(s) == CHOOSE l \in s : TRUE

\* g has the sum of every set of labels.
Adds(series, L, g) ==
    g = [s \in SUBSET L |-> IF s = {} THEN 0 ELSE series[Picked(s)] + g[s \ {Picked(s)}]]

LEMMA PickedIsIn == \A s : s # {} => Picked(s) \in s
BY DEF Picked

\* Of the sets with some property, one has it without its proper subsets: what induction
\* over finite sets comes down to.
LEMMA HasSmallest ==
    ASSUME NEW L, IsFiniteSet(L), NEW Bad, Bad \subseteq SUBSET L, Bad # {}
    PROVE  \E s \in Bad : \A l \in s : s \ {l} \notin Bad
<1> DEFINE sizes == {Cardinality(s) : s \in Bad}
<1>1. \A s \in Bad : IsFiniteSet(s) /\ Cardinality(s) \in Nat
    BY FS_Subset, FS_CardinalityType
<1>2. sizes \subseteq Nat /\ sizes # {}
    BY <1>1
<1>3. PICK k \in sizes : \A j \in sizes : k <= j
    <2> HIDE DEF sizes
    <2>1. QED
        BY <1>2, HasLeast
<1>4. PICK s \in Bad : Cardinality(s) = k
    BY <1>3
<1>5. ASSUME NEW l \in s PROVE s \ {l} \notin Bad
    <2>1. Cardinality(s \ {l}) = Cardinality(s) - 1
        BY <1>1, FS_RemoveElement
    <2>2. ~(Cardinality(s) <= Cardinality(s \ {l}))
        BY <1>1, <2>1
    <2>3. QED
        BY <1>3, <1>4, <2>2
<1>6. QED
    BY <1>5

\* Two such functions are the same.
LEMMA SumsAgree ==
    ASSUME NEW L, IsFiniteSet(L), NEW series, NEW g, NEW h, Adds(series, L, g), Adds(series, L, h)
    PROVE  g = h
<1> DEFINE Bad == {s \in SUBSET L : g[s] # h[s]}
<1>1. CASE Bad = {}
    BY <1>1 DEF Adds
<1>2. CASE Bad # {}
    <2>1. PICK s \in Bad : \A l \in s : s \ {l} \notin Bad
        BY <1>2, HasSmallest
    <2>2. s # {}
        BY <2>1 DEF Adds
    <2>3. s \ {Picked(s)} \in SUBSET L /\ s \ {Picked(s)} \notin Bad
        BY <2>1, <2>2, PickedIsIn
    <2>4. g[s \ {Picked(s)}] = h[s \ {Picked(s)}]
        BY <2>3
    <2>5. g[s] = h[s]
        BY <2>1, <2>2, <2>4 DEF Adds
    <2>6. QED
        BY <2>1, <2>5
<1>3. QED
    BY <1>1, <1>2

\* There is one: the sums of the sets with at most k labels give those of the sets with one more.
LEMMA SumsExist ==
    ASSUME NEW L, IsFiniteSet(L), NEW series \in [L -> Nat]
    PROVE  \E g \in [SUBSET L -> Nat] : Adds(series, L, g)
<1> DEFINE Sets(k) == {s \in SUBSET L : Cardinality(s) <= k}
           Sum(s, g) == IF s = {} THEN 0 ELSE series[Picked(s)] + g[s \ {Picked(s)}]
           Has(k) == \E g \in [Sets(k) -> Nat] : g = [s \in Sets(k) |-> Sum(s, g)]
           Bad == {k \in Nat : ~Has(k)}
<1>1. \A s \in SUBSET L : IsFiniteSet(s) /\ Cardinality(s) \in Nat
    BY FS_Subset, FS_CardinalityType
<1>2. ASSUME NEW s \in SUBSET L, s # {}
      PROVE  /\ Picked(s) \in L /\ s \ {Picked(s)} \in SUBSET L
             /\ Cardinality(s \ {Picked(s)}) = Cardinality(s) - 1
    BY <1>1, <1>2, PickedIsIn, FS_RemoveElement
<1>3. Has(0)
    <2> DEFINE g == [s \in Sets(0) |-> 0]
    <2>1. \A s \in Sets(0) : s = {}
        BY <1>1, FS_EmptySet
    <2>2. g \in [Sets(0) -> Nat] /\ g = [s \in Sets(0) |-> Sum(s, g)]
        BY <2>1
    <2>3. QED
        BY <2>2
<1>4. ASSUME NEW k \in Nat, Has(k) PROVE Has(k + 1)
    <2>1. PICK g \in [Sets(k) -> Nat] : g = [s \in Sets(k) |-> Sum(s, g)]
        BY <1>4
    <2> DEFINE h == [s \in Sets(k + 1) |-> Sum(s, g)]
    <2>2. \A s \in Sets(k + 1) : s # {} => s \ {Picked(s)} \in Sets(k)
        BY <1>1, <1>2
    <2>3. \A s \in Sets(k + 1) : Sum(s, g) \in Nat
        BY <1>2, <2>2
    <2>4. ASSUME NEW s \in Sets(k) PROVE s \in Sets(k + 1) /\ h[s] = g[s]
        <3>1. s \in Sets(k + 1)
            BY <1>1
        <3>2. h[s] = Sum(s, g)
            BY <3>1
        <3>3. g[s] = Sum(s, g)
            <4> HIDE DEF Sum
            <4>1. QED
                BY <2>1
        <3>4. QED
            BY <3>1, <3>2, <3>3
    <2>5. \A s \in Sets(k + 1) : Sum(s, h) = Sum(s, g)
        BY <2>2, <2>4
    <2>6. h \in [Sets(k + 1) -> Nat] /\ h = [s \in Sets(k + 1) |-> Sum(s, h)]
        BY <2>3, <2>5
    <2>7. QED
        BY <2>6
<1>5. \A k \in Nat : Has(k)
    <2>1. ASSUME Bad # {} PROVE FALSE
        <3>1. PICK k \in Bad : \A j \in Bad : k <= j
            <4>1. Bad \subseteq Nat
                OBVIOUS
            <4> HIDE DEF Bad
            <4>2. QED
                BY <2>1, <4>1, HasLeast
        <3>2. k # 0
            <4> HIDE DEF Has
            <4>1. ~Has(k)
                OBVIOUS
            <4>2. QED
                BY <1>3, <4>1
        <3>3. k \in Nat /\ k - 1 \in Nat
            BY <3>1, <3>2
        <3>4. k - 1 \notin Bad
            <4>1. ~(k <= k - 1)
                BY <3>3
            <4> HIDE DEF Bad
            <4>2. QED
                BY <3>1, <4>1
        <3>5. Has(k - 1)
            BY <3>3, <3>4
        <3> HIDE DEF Has
        <3>6. Has(k - 1 + 1)
            BY <1>4, <3>3, <3>5
        <3>7. QED
            BY <3>1, <3>3, <3>6
    <2>2. QED
        BY <2>1
<1>6. Sets(Cardinality(L)) = SUBSET L
    BY FS_Subset
<1>7. Has(Cardinality(L))
    BY <1>5, FS_CardinalityType
<1>8. QED
    BY <1>6, <1>7 DEF Adds

LEMMA SumIs ==
    ASSUME IsFiniteSet(Labels), NEW series \in [Labels -> Nat]
    PROVE  /\ Adds(series, Labels, CHOOSE g : Adds(series, Labels, g))
           /\ Mo!SumSeriesValue(series) = (CHOOSE g : Adds(series, Labels, g))[Labels]
<1>1. PICK g : Adds(series, Labels, g)
    BY SumsExist
<1>2. Adds(series, Labels, CHOOSE h : Adds(series, Labels, h))
    BY <1>1
<1>3. Mo!SumSeriesValue(series) = (CHOOSE h : Adds(series, Labels, h))[Labels]
    BY Zenon DEF Mo!SumSeriesValue, Mo!MapThenSumSet, Mo!MapThenFoldSet, Adds, Picked
<1>4. QED
    BY <1>2, <1>3

\* The sum of nothing but zeros, and the sum after n is added to one series.
LEMMA SumOfZeros ==
    ASSUME IsFiniteSet(Labels)
    PROVE  Mo!SumSeriesValue([l \in Labels |-> 0]) = 0
<1> DEFINE zeros == [l \in Labels |-> 0]
           g == CHOOSE h : Adds(zeros, Labels, h)
           nothing == [s \in SUBSET Labels |-> 0]
<1>1. zeros \in [Labels -> Nat]
    OBVIOUS
<1>2. Adds(zeros, Labels, g) /\ Mo!SumSeriesValue(zeros) = g[Labels]
    BY <1>1, SumIs
<1>3. Adds(zeros, Labels, nothing)
    BY PickedIsIn DEF Adds
<1>4. nothing[Labels] = 0
    OBVIOUS
<1>5. g = nothing
    <2> HIDE DEF g, zeros, nothing
    <2>1. QED
        BY <1>2, <1>3, SumsAgree
<1>6. QED
    BY <1>2, <1>4, <1>5

LEMMA SumIsNat ==
    ASSUME IsFiniteSet(Labels), NEW series \in [Labels -> Nat]
    PROVE  Mo!SumSeriesValue(series) \in Nat
<1> DEFINE f == CHOOSE h : Adds(series, Labels, h)
<1>1. Adds(series, Labels, f) /\ Mo!SumSeriesValue(series) = f[Labels]
    BY SumIs
<1>2. PICK h \in [SUBSET Labels -> Nat] : Adds(series, Labels, h)
    BY SumsExist
<1>3. f = h
    <2> HIDE DEF f
    <2>1. QED
        BY <1>1, <1>2, SumsAgree
<1>4. QED
    BY <1>1, <1>2, <1>3

LEMMA SumPlus ==
    ASSUME IsFiniteSet(Labels), NEW series \in [Labels -> Nat], NEW l \in Labels, NEW n \in Nat
    PROVE  Mo!SumSeriesValue([series EXCEPT ![l] = @ + n]) = Mo!SumSeriesValue(series) + n
<1> DEFINE more == [series EXCEPT ![l] = @ + n]
           f == CHOOSE h : Adds(series, Labels, h)
           g == CHOOSE h : Adds(more, Labels, h)
<1>1. more \in [Labels -> Nat]
    OBVIOUS
<1>2. /\ Adds(series, Labels, f) /\ Mo!SumSeriesValue(series) = f[Labels]
      /\ Adds(more, Labels, g) /\ Mo!SumSeriesValue(more) = g[Labels]
    BY <1>1, SumIs
<1>3. PICK h \in [SUBSET Labels -> Nat] : Adds(series, Labels, h)
    BY SumsExist
<1>4. f = h
    <2> HIDE DEF f, more
    <2>1. QED
        BY <1>2, <1>3, SumsAgree
<1> DEFINE sum == [s \in SUBSET Labels |-> h[s] + IF l \in s THEN n ELSE 0]
<1>5. Adds(more, Labels, sum)
    <2>1. ASSUME NEW s \in SUBSET Labels, s # {}
          PROVE sum[s] = more[Picked(s)] + sum[s \ {Picked(s)}]
        <3>1. /\ Picked(s) \in s /\ Picked(s) \in Labels /\ s \ {Picked(s)} \in SUBSET Labels
              /\ h[s] \in Nat /\ h[s \ {Picked(s)}] \in Nat /\ series[Picked(s)] \in Nat
            BY <2>1, PickedIsIn
        <3>2. h[s] = series[Picked(s)] + h[s \ {Picked(s)}]
            BY <1>3, <2>1 DEF Adds
        <3>3. CASE l \notin s
            BY <3>1, <3>2, <3>3
        <3>4. CASE Picked(s) = l
            BY <3>1, <3>2, <3>4
        <3>5. CASE l \in s /\ Picked(s) # l
            BY <3>1, <3>2, <3>5
        <3>6. QED
            BY <3>3, <3>4, <3>5
    <2>2. sum[{}] = 0
        BY <1>3 DEF Adds
    <2>3. QED
        BY <2>1, <2>2 DEF Adds
<1>6. g = sum
    <2> HIDE DEF g, more, sum
    <2>1. QED
        BY <1>2, <1>5, SumsAgree
<1>7. h[Labels] \in Nat /\ sum[Labels] = h[Labels] + n
    OBVIOUS
<1>8. QED
    BY <1>2, <1>4, <1>6, <1>7

-----------------------------------------------------------------------------
(***************************************************************************)
(* Shares in thousandths of a percent                                      *)
(***************************************************************************)
LEMMA RatioIs ==
    ASSUME NEW part \in Nat, NEW whole \in Nat, whole > 0, NEW limit \in Nat
    PROVE  Mo!RatioPercent(part, whole) > limit
                <=> 200000 * part + whole >= 2 * whole * (limit + 1)
<1> DEFINE a == 200000 * part + whole
           d == 2 * whole
           q == a \div d
<1>1. a \in Nat /\ d \in Nat /\ d > 0
    OBVIOUS
<1>2. q \in Nat /\ d * q <= a /\ a < d * (q + 1)
    <2> HIDE DEF a, d
    <2>1. QED
        BY <1>1
<1>3. q > limit <=> a >= d * (limit + 1)
    <2> HIDE DEF a, d, q
    <2>1. CASE q > limit
        <3>1. d * (limit + 1) <= d * q
            BY <1>1, <1>2, <2>1
        <3>2. QED
            BY <1>1, <1>2, <2>1, <3>1
    <2>2. CASE ~(q > limit)
        <3>1. d * (q + 1) <= d * (limit + 1)
            BY <1>1, <1>2, <2>2
        <3>2. QED
            BY <1>1, <1>2, <2>2, <3>1
    <2>3. QED
        BY <2>1, <2>2
<1>4. Mo!RatioPercent(part, whole) = q
    BY DEF Mo!RatioPercent
<1>5. QED
    BY <1>3, <1>4

LEMMA SharesAreExact ==
    ASSUME NEW part \in Nat, NEW rest \in Nat, part + rest <= 2000, NEW percent \in {2, 3, 5}
    PROVE  Mo!RatioPercent(part, part + rest) > 1000 * percent <=> Mo!MoreThan(percent, part, rest)
<1>1. CASE part + rest = 0
    BY <1>1 DEF Mo!RatioPercent, Mo!MoreThan
<1>2. CASE part + rest > 0
    <2> DEFINE w == part + rest
    <2>1. w \in Nat /\ w > 0 /\ w <= 2000 /\ 1000 * percent \in Nat
        BY <1>2
    <2>2. Mo!RatioPercent(part, w) > 1000 * percent
            <=> 200000 * part + w >= 2 * w * (1000 * percent + 1)
        <3> HIDE DEF w
        <3>1. QED
            BY <2>1, RatioIs
    <2>3. 200000 * part + w >= 2 * w * (1000 * percent + 1) <=> 100 * part > percent * w
        BY <2>1
    <2>4. QED
        BY <2>2, <2>3 DEF Mo!MoreThan
<1>3. QED
    BY <1>1, <1>2

-----------------------------------------------------------------------------
(***************************************************************************)
(* Alerts                                                                  *)
(***************************************************************************)

\* What the series of a metric add up to is what has happened.
TotalsFit ==
    /\ Mo!Total("http_requests") = happened["answered-badly"] + happened["answered"]
    /\ Mo!Total("http_5xx") = happened["answered-badly"]
    /\ Mo!Total("sends") = happened["not-sent"] + happened["sent"]
    /\ Mo!Total("send_failures") = happened["not-sent"]
    /\ Mo!Total("tickets") = happened["no-ticket"] + happened["ticket"]
    /\ Mo!Total("ticket_errors") = happened["no-ticket"]
    /\ Mo!Total("conflicts") = happened["conflict"]
    /\ Mo!Total("invalid_signatures") = happened["invalid-signature"]

MonitorInv ==
    /\ counters \in [Mo!Series -> Nat]
    /\ cases \in [Labels -> Nat]
    /\ happened \in [Mo!Kinds -> Nat]
    /\ TotalsFit

LEMMA LabelsAreFinite == IsFiniteSet(Labels)
BY PlatformAssumption DEF Mo!MonitoringAssumption, IsFiniteSet, Mo!IsFiniteSet

LEMMA Incremented ==
    ASSUME counters \in [Mo!Series -> Nat], NEW names, NEW l \in Labels, NEW n \in Nat,
           Mo!Increment(names, l, n)
    PROVE  /\ counters' \in [Mo!Series -> Nat]
           /\ \A m \in Mo!Counters :
                /\ Mo!Total(m) \in Nat
                /\ Mo!Total(m)' = Mo!Total(m) + IF m \in names THEN n ELSE 0
<1>1. counters' \in [Mo!Series -> Nat]
    BY DEF Mo!Increment
<1>2. ASSUME NEW m \in Mo!Counters
      PROVE  /\ Mo!Total(m) \in Nat
             /\ Mo!Total(m)' = Mo!Total(m) + IF m \in names THEN n ELSE 0
    <2> DEFINE old == [k \in Labels |-> counters[<<m, k>>]]
               new == [k \in Labels |-> counters'[<<m, k>>]]
    <2>1. old \in [Labels -> Nat] /\ \A k \in Labels : <<m, k>> \in Mo!Series
        BY DEF Mo!Series
    <2>2. Mo!SumSeriesValue(old) \in Nat
          /\ Mo!SumSeriesValue([old EXCEPT ![l] = @ + n]) = Mo!SumSeriesValue(old) + n
        <3> HIDE DEF old
        <3>1. QED
            BY <2>1, LabelsAreFinite, SumPlus, SumIsNat
    <2>3. \A k \in Labels :
            counters'[<<m, k>>] = counters[<<m, k>>] + IF m \in names /\ k = l THEN n ELSE 0
        BY <2>1 DEF Mo!Increment
    <2>4. CASE m \in names
        <3>1. \A k \in Labels : new[k] = [old EXCEPT ![l] = @ + n][k]
            BY <2>1, <2>3, <2>4
        <3>2. new = [old EXCEPT ![l] = @ + n]
            BY <3>1
        <3>3. QED
            BY <2>2, <2>4, <3>2 DEF Mo!Total
    <2>5. CASE m \notin names
        <3>1. new = old
            BY <2>1, <2>3, <2>5
        <3>2. QED
            BY <2>2, <2>5, <3>1 DEF Mo!Total
    <2>6. QED
        BY <2>4, <2>5
<1>3. QED
    BY <1>1, <1>2

LEMMA NothingCounted ==
    ASSUME NEW m \in Mo!Counters, counters = [s \in Mo!Series |-> 0]
    PROVE  Mo!Total(m) = 0
<1>1. [l \in Labels |-> counters[<<m, l>>]] = [l \in Labels |-> 0]
    BY DEF Mo!Series
<1>2. QED
    BY <1>1, LabelsAreFinite, SumOfZeros DEF Mo!Total

LEMMA InitMonitor == Mo!Init => MonitorInv
BY NothingCounted DEF Mo!Init, MonitorInv, TotalsFit, Mo!Kinds, Mo!Counters

\* Each kind of thing that happens is counted by the metrics that are about it.
CountedBy(names, kind) ==
    /\ "http_requests" \in names <=> kind \in {"answered-badly", "answered"}
    /\ "http_5xx" \in names <=> kind = "answered-badly"
    /\ "sends" \in names <=> kind \in {"not-sent", "sent"}
    /\ "send_failures" \in names <=> kind = "not-sent"
    /\ "tickets" \in names <=> kind \in {"no-ticket", "ticket"}
    /\ "ticket_errors" \in names <=> kind = "no-ticket"
    /\ "conflicts" \in names <=> kind = "conflict"
    /\ "invalid_signatures" \in names <=> kind = "invalid-signature"

LEMMA Tallied ==
    ASSUME MonitorInv, NEW names, NEW l \in Labels, NEW n \in Nat, NEW kind \in Mo!Kinds,
           CountedBy(names, kind), Mo!Increment(names, l, n),
           happened' = [happened EXCEPT ![kind] = @ + n], cases' = cases
    PROVE  MonitorInv'
<1>1. /\ counters' \in [Mo!Series -> Nat]
      /\ \A m \in Mo!Counters : Mo!Total(m)' = Mo!Total(m) + IF m \in names THEN n ELSE 0
    BY Incremented DEF MonitorInv
<1>2. /\ happened' \in [Mo!Kinds -> Nat]
      /\ \A k \in Mo!Kinds : /\ happened[k] \in Nat
                              /\ happened'[k] = happened[k] + IF k = kind THEN n ELSE 0
    BY DEF MonitorInv
<1> HIDE DEF Mo!Counters, Mo!Kinds
<1>3. Mo!Total("http_requests")' = happened'["answered-badly"] + happened'["answered"]
    <2>1. Mo!Total("http_requests") = happened["answered-badly"] + happened["answered"]
        BY DEF MonitorInv, TotalsFit
    <2>2. Mo!Total("http_requests")' =
              Mo!Total("http_requests") + IF "http_requests" \in names THEN n ELSE 0
        BY <1>1 DEF Mo!Counters
    <2>3. /\ happened["answered-badly"] \in Nat
          /\ happened'["answered-badly"] =
                 happened["answered-badly"] + IF kind = "answered-badly" THEN n ELSE 0
        BY <1>2 DEF Mo!Kinds
    <2>4. /\ happened["answered"] \in Nat
          /\ happened'["answered"] = happened["answered"] + IF kind = "answered" THEN n ELSE 0
        BY <1>2 DEF Mo!Kinds
    <2>5. QED
        BY <2>1, <2>2, <2>3, <2>4 DEF CountedBy
<1>4. Mo!Total("http_5xx")' = happened'["answered-badly"]
    <2>1. Mo!Total("http_5xx") = happened["answered-badly"]
        BY DEF MonitorInv, TotalsFit
    <2>2. Mo!Total("http_5xx")' = Mo!Total("http_5xx") + IF "http_5xx" \in names THEN n ELSE 0
        BY <1>1 DEF Mo!Counters
    <2>3. /\ happened["answered-badly"] \in Nat
          /\ happened'["answered-badly"] =
                 happened["answered-badly"] + IF kind = "answered-badly" THEN n ELSE 0
        BY <1>2 DEF Mo!Kinds
    <2>4. QED
        BY <2>1, <2>2, <2>3 DEF CountedBy
<1>5. Mo!Total("sends")' = happened'["not-sent"] + happened'["sent"]
    <2>1. Mo!Total("sends") = happened["not-sent"] + happened["sent"]
        BY DEF MonitorInv, TotalsFit
    <2>2. Mo!Total("sends")' = Mo!Total("sends") + IF "sends" \in names THEN n ELSE 0
        BY <1>1 DEF Mo!Counters
    <2>3. /\ happened["not-sent"] \in Nat
          /\ happened'["not-sent"] = happened["not-sent"] + IF kind = "not-sent" THEN n ELSE 0
        BY <1>2 DEF Mo!Kinds
    <2>4. /\ happened["sent"] \in Nat
          /\ happened'["sent"] = happened["sent"] + IF kind = "sent" THEN n ELSE 0
        BY <1>2 DEF Mo!Kinds
    <2>5. QED
        BY <2>1, <2>2, <2>3, <2>4 DEF CountedBy
<1>6. Mo!Total("send_failures")' = happened'["not-sent"]
    <2>1. Mo!Total("send_failures") = happened["not-sent"]
        BY DEF MonitorInv, TotalsFit
    <2>2. Mo!Total("send_failures")' =
              Mo!Total("send_failures") + IF "send_failures" \in names THEN n ELSE 0
        BY <1>1 DEF Mo!Counters
    <2>3. /\ happened["not-sent"] \in Nat
          /\ happened'["not-sent"] = happened["not-sent"] + IF kind = "not-sent" THEN n ELSE 0
        BY <1>2 DEF Mo!Kinds
    <2>4. QED
        BY <2>1, <2>2, <2>3 DEF CountedBy
<1>7. Mo!Total("tickets")' = happened'["no-ticket"] + happened'["ticket"]
    <2>1. Mo!Total("tickets") = happened["no-ticket"] + happened["ticket"]
        BY DEF MonitorInv, TotalsFit
    <2>2. Mo!Total("tickets")' = Mo!Total("tickets") + IF "tickets" \in names THEN n ELSE 0
        BY <1>1 DEF Mo!Counters
    <2>3. /\ happened["no-ticket"] \in Nat
          /\ happened'["no-ticket"] = happened["no-ticket"] + IF kind = "no-ticket" THEN n ELSE 0
        BY <1>2 DEF Mo!Kinds
    <2>4. /\ happened["ticket"] \in Nat
          /\ happened'["ticket"] = happened["ticket"] + IF kind = "ticket" THEN n ELSE 0
        BY <1>2 DEF Mo!Kinds
    <2>5. QED
        BY <2>1, <2>2, <2>3, <2>4 DEF CountedBy
<1>8. Mo!Total("ticket_errors")' = happened'["no-ticket"]
    <2>1. Mo!Total("ticket_errors") = happened["no-ticket"]
        BY DEF MonitorInv, TotalsFit
    <2>2. Mo!Total("ticket_errors")' =
              Mo!Total("ticket_errors") + IF "ticket_errors" \in names THEN n ELSE 0
        BY <1>1 DEF Mo!Counters
    <2>3. /\ happened["no-ticket"] \in Nat
          /\ happened'["no-ticket"] = happened["no-ticket"] + IF kind = "no-ticket" THEN n ELSE 0
        BY <1>2 DEF Mo!Kinds
    <2>4. QED
        BY <2>1, <2>2, <2>3 DEF CountedBy
<1>9. Mo!Total("conflicts")' = happened'["conflict"]
    <2>1. Mo!Total("conflicts") = happened["conflict"]
        BY DEF MonitorInv, TotalsFit
    <2>2. Mo!Total("conflicts")' = Mo!Total("conflicts") + IF "conflicts" \in names THEN n ELSE 0
        BY <1>1 DEF Mo!Counters
    <2>3. /\ happened["conflict"] \in Nat
          /\ happened'["conflict"] = happened["conflict"] + IF kind = "conflict" THEN n ELSE 0
        BY <1>2 DEF Mo!Kinds
    <2>4. QED
        BY <2>1, <2>2, <2>3 DEF CountedBy
<1>10. Mo!Total("invalid_signatures")' = happened'["invalid-signature"]
    <2>1. Mo!Total("invalid_signatures") = happened["invalid-signature"]
        BY DEF MonitorInv, TotalsFit
    <2>2. Mo!Total("invalid_signatures")' =
              Mo!Total("invalid_signatures") + IF "invalid_signatures" \in names THEN n ELSE 0
        BY <1>1 DEF Mo!Counters
    <2>3. /\ happened["invalid-signature"] \in Nat
          /\ happened'["invalid-signature"] =
                 happened["invalid-signature"] + IF kind = "invalid-signature" THEN n ELSE 0
        BY <1>2 DEF Mo!Kinds
    <2>4. QED
        BY <2>1, <2>2, <2>3 DEF CountedBy
<1>11. QED
    BY <1>1, <1>2, <1>3, <1>4, <1>5, <1>6, <1>7, <1>8, <1>9, <1>10
    DEF MonitorInv, TotalsFit

LEMMA NextMonitor == MonitorInv /\ [Mo!Next]_(Mo!vars) => MonitorInv'
<1> SUFFICES ASSUME MonitorInv, [Mo!Next]_(Mo!vars) PROVE MonitorInv'
    OBVIOUS
<1>1. ASSUME UNCHANGED <<counters, happened>> PROVE TotalsFit'
    BY <1>1 DEF MonitorInv, TotalsFit, Mo!Total
<1>2. Bursts \subseteq Nat /\ Counts \subseteq Int /\ Backlogs \subseteq Nat
    BY PlatformAssumption DEF Mo!MonitoringAssumption
<1>3. ASSUME NEW l \in Labels, NEW o \in {"2xx", "5xx", "no-code"}, NEW n \in Bursts,
             Mo!RecordHttpRequest(l, o, n)
      PROVE  MonitorInv'
    <2>1. n \in Nat
        BY <1>2
    <2>2. CASE o \in {"5xx", "no-code"}
        <3>1. Mo!Increment({"http_requests", "http_5xx"}, l, n)
            <4>1. {"http_requests"} \cup {m \in {"http_5xx"} : TRUE} = {"http_requests", "http_5xx"}
                OBVIOUS
            <4>2. QED
                BY <1>3, <2>2, <4>1 DEF Mo!RecordHttpRequest
        <3>2. happened' = [happened EXCEPT !["answered-badly"] = @ + n] /\ cases' = cases
            BY <1>3, <2>2 DEF Mo!RecordHttpRequest, Mo!Call
        <3>3. QED
            BY <2>1, <3>1, <3>2, Tallied DEF CountedBy, Mo!Kinds
    <2>3. CASE ~(o \in {"5xx", "no-code"})
        <3>1. Mo!Increment({"http_requests"}, l, n)
            <4>1. {"http_requests"} \cup {m \in {"http_5xx"} : FALSE} = {"http_requests"}
                OBVIOUS
            <4>2. QED
                BY <1>3, <2>3, <4>1 DEF Mo!RecordHttpRequest
        <3>2. happened' = [happened EXCEPT !["answered"] = @ + n] /\ cases' = cases
            BY <1>3, <2>3 DEF Mo!RecordHttpRequest, Mo!Call
        <3>3. QED
            BY <2>1, <3>1, <3>2, Tallied DEF CountedBy, Mo!Kinds
    <2>4. QED
        BY <2>2, <2>3
<1>4. ASSUME NEW l \in Labels, NEW s \in {"SENT", "FAILED", "SIMULATED"}, NEW n \in Bursts,
             Mo!RecordNotificationSend(l, s, n)
      PROVE  MonitorInv'
    <2>1. n \in Nat
        BY <1>2
    <2>2. CASE s \notin {"SENT", "SUCCESS"}
        <3>1. Mo!Increment({"sends", "send_failures"}, l, n)
            <4>1. {"sends"} \cup {m \in {"send_failures"} : TRUE} = {"sends", "send_failures"}
                OBVIOUS
            <4>2. QED
                BY <1>4, <2>2, <4>1 DEF Mo!RecordNotificationSend, Mo!Attempt
        <3>2. happened' = [happened EXCEPT !["not-sent"] = @ + n] /\ cases' = cases
            BY <1>4, <2>2 DEF Mo!RecordNotificationSend, Mo!Attempt, Mo!Call
        <3>3. QED
            BY <2>1, <3>1, <3>2, Tallied DEF CountedBy, Mo!Kinds
    <2>3. CASE ~(s \notin {"SENT", "SUCCESS"})
        <3>1. Mo!Increment({"sends"}, l, n)
            <4>1. {"sends"} \cup {m \in {"send_failures"} : FALSE} = {"sends"}
                OBVIOUS
            <4>2. QED
                BY <1>4, <2>3, <4>1 DEF Mo!RecordNotificationSend, Mo!Attempt
        <3>2. happened' = [happened EXCEPT !["sent"] = @ + n] /\ cases' = cases
            BY <1>4, <2>3 DEF Mo!RecordNotificationSend, Mo!Attempt, Mo!Call
        <3>3. QED
            BY <2>1, <3>1, <3>2, Tallied DEF CountedBy, Mo!Kinds
    <2>4. QED
        BY <2>2, <2>3
<1>5. ASSUME NEW l \in Labels, NEW s \in {"GENERATED", "FAILED"}, NEW n \in Bursts,
             Mo!RecordTicketGeneration(s, l, n)
      PROVE  MonitorInv'
    <2>1. n \in Nat
        BY <1>2
    <2>2. CASE s \notin {"SUCCESS", "GENERATED"}
        <3>1. Mo!Increment({"tickets", "ticket_errors"}, l, n)
            <4>1. {"tickets"} \cup {m \in {"ticket_errors"} : TRUE} = {"tickets", "ticket_errors"}
                OBVIOUS
            <4>2. QED
                BY <1>5, <2>2, <4>1 DEF Mo!RecordTicketGeneration, Mo!Attempt
        <3>2. happened' = [happened EXCEPT !["no-ticket"] = @ + n] /\ cases' = cases
            BY <1>5, <2>2 DEF Mo!RecordTicketGeneration, Mo!Attempt, Mo!Call
        <3>3. QED
            BY <2>1, <3>1, <3>2, Tallied DEF CountedBy, Mo!Kinds
    <2>3. CASE ~(s \notin {"SUCCESS", "GENERATED"})
        <3>1. Mo!Increment({"tickets"}, l, n)
            <4>1. {"tickets"} \cup {m \in {"ticket_errors"} : FALSE} = {"tickets"}
                OBVIOUS
            <4>2. QED
                BY <1>5, <2>3, <4>1 DEF Mo!RecordTicketGeneration, Mo!Attempt
        <3>2. happened' = [happened EXCEPT !["ticket"] = @ + n] /\ cases' = cases
            BY <1>5, <2>3 DEF Mo!RecordTicketGeneration, Mo!Attempt, Mo!Call
        <3>3. QED
            BY <2>1, <3>1, <3>2, Tallied DEF CountedBy, Mo!Kinds
    <2>4. QED
        BY <2>2, <2>3
<1>6. ASSUME NEW l \in Labels, NEW c \in Counts,
             Mo!RecordCapacityConflict(l, c) \/ Mo!RecordInvalidSignature(l, c)
      PROVE  MonitorInv'
    <2>1. Mo!Counted(c) \in Nat
        BY <1>2 DEF Mo!Counted
    <2>2. CASE Mo!RecordCapacityConflict(l, c)
        BY <2>1, <2>2, Tallied DEF Mo!RecordCapacityConflict, Mo!Call, CountedBy, Mo!Kinds
    <2>3. CASE Mo!RecordInvalidSignature(l, c)
        BY <2>1, <2>3, Tallied DEF Mo!RecordInvalidSignature, Mo!Call, CountedBy, Mo!Kinds
    <2>4. QED
        BY <1>6, <2>2, <2>3
<1>7. ASSUME NEW l \in Labels, NEW v \in Backlogs, Mo!SetCasesOpen(l, v) PROVE MonitorInv'
    BY <1>1, <1>2, <1>7 DEF Mo!SetCasesOpen, MonitorInv
<1>8. CASE Mo!Restart
    <2>1. counters' = [s \in Mo!Series |-> 0] /\ happened' = [k \in Mo!Kinds |-> 0]
          /\ cases' = [l \in Labels |-> 0]
        BY <1>8 DEF Mo!Restart
    <2>2. \A m \in Mo!Counters : Mo!Total(m)' = 0
        <3>1. ASSUME NEW m \in Mo!Counters PROVE Mo!Total(m)' = 0
            <4>1. [l \in Labels |-> counters'[<<m, l>>]] = [l \in Labels |-> 0]
                BY <2>1 DEF Mo!Series
            <4>2. QED
                BY <4>1, LabelsAreFinite, SumOfZeros DEF Mo!Total
        <3>2. QED
            BY <3>1
    <2>3. QED
        BY <2>1, <2>2 DEF MonitorInv, TotalsFit, Mo!Kinds, Mo!Counters
<1>9. CASE UNCHANGED Mo!vars
    BY <1>1, <1>9 DEF Mo!vars, MonitorInv
<1>10. QED
    BY <1>3, <1>4, <1>5, <1>6, <1>7, <1>8, <1>9 DEF Mo!Next

\* What the rules see is what has happened.
LEMMA RulesSee ==
    ASSUME MonitorInv, Mo!FewAttempts, NEW r \in Mo!Rules
    PROVE  Mo!Exceeds(Mo!Observed[r.id], r.operator, r.threshold) <=> r.id \in Mo!Warranted
<1>1. /\ happened["answered-badly"] \in Nat /\ happened["answered"] \in Nat
      /\ happened["not-sent"] \in Nat /\ happened["sent"] \in Nat
      /\ happened["no-ticket"] \in Nat /\ happened["ticket"] \in Nat
      /\ happened["conflict"] \in Nat /\ happened["invalid-signature"] \in Nat
    BY DEF MonitorInv, Mo!Kinds
<1>2. /\ happened["answered-badly"] + happened["answered"] <= 2000
      /\ happened["not-sent"] + happened["sent"] <= 2000
      /\ happened["no-ticket"] + happened["ticket"] <= 2000
    BY DEF MonitorInv, TotalsFit, Mo!FewAttempts
<1>3. /\ Mo!Observed.N01 =
            Mo!RatioPercent(happened["not-sent"], happened["not-sent"] + happened["sent"])
      /\ Mo!Observed.T01 =
            Mo!RatioPercent(happened["no-ticket"], happened["no-ticket"] + happened["ticket"])
      /\ Mo!Observed.G01 =
            Mo!RatioPercent(happened["answered-badly"],
                            happened["answered-badly"] + happened["answered"])
      /\ Mo!Observed.R01 = 1000 * happened["conflict"]
      /\ Mo!Observed.P01 = 1000 * happened["invalid-signature"]
      /\ Mo!Observed.P02 = 1000 * Mo!CasesOpen
    BY DEF Mo!Observed, MonitorInv, TotalsFit
<1>4. CASE r.id = "N01"
    <2>1. r.operator = "GT" /\ r.threshold = 1000 * 5
        BY <1>4 DEF Mo!Rules
    <2>2. Mo!RatioPercent(happened["not-sent"],
                           happened["not-sent"] + happened["sent"]) > 1000 * 5
            <=> Mo!MoreThan(5, happened["not-sent"], happened["sent"])
        BY <1>1, <1>2, SharesAreExact, SMTT(20)
    <2>3. QED
        BY <1>3, <1>4, <2>1, <2>2 DEF Mo!Exceeds, Mo!Warranted
<1>5. CASE r.id = "T01"
    <2>1. r.operator = "GT" /\ r.threshold = 1000 * 3
        BY <1>5 DEF Mo!Rules
    <2>2. Mo!RatioPercent(happened["no-ticket"],
                           happened["no-ticket"] + happened["ticket"]) > 1000 * 3
            <=> Mo!MoreThan(3, happened["no-ticket"], happened["ticket"])
        BY <1>1, <1>2, SharesAreExact, SMTT(20)
    <2>3. QED
        BY <1>3, <1>5, <2>1, <2>2 DEF Mo!Exceeds, Mo!Warranted
<1>6. CASE r.id = "G01"
    <2>1. r.operator = "GT" /\ r.threshold = 1000 * 2
        BY <1>6 DEF Mo!Rules
    <2>2. Mo!RatioPercent(happened["answered-badly"],
                           happened["answered-badly"] + happened["answered"]) > 1000 * 2
            <=> Mo!MoreThan(2, happened["answered-badly"], happened["answered"])
        BY <1>1, <1>2, SharesAreExact, SMTT(20)
    <2>3. QED
        BY <1>3, <1>6, <2>1, <2>2 DEF Mo!Exceeds, Mo!Warranted
<1>7. CASE r.id = "R01"
    <2>1. r.operator = "GTE" /\ r.threshold = 1000
        BY <1>7 DEF Mo!Rules
    <2>2. 1000 * happened["conflict"] >= 1000 <=> happened["conflict"] > 0
        BY <1>1
    <2>3. QED
        BY <1>3, <1>7, <2>1, <2>2 DEF Mo!Exceeds, Mo!Warranted
<1>8. CASE r.id = "P01"
    <2>1. r.operator = "GT" /\ r.threshold = 20000
        BY <1>8 DEF Mo!Rules
    <2>2. 1000 * happened["invalid-signature"] > 20000 <=> happened["invalid-signature"] > 20
        BY <1>1
    <2>3. QED
        BY <1>3, <1>8, <2>1, <2>2 DEF Mo!Exceeds, Mo!Warranted
<1>9. CASE r.id = "P02"
    <2>1. r.operator = "GT" /\ r.threshold = 30000
        BY <1>9 DEF Mo!Rules
    <2>2. Mo!CasesOpen \in Nat
        BY LabelsAreFinite, SumIsNat DEF Mo!CasesOpen, MonitorInv
    <2>3. 1000 * Mo!CasesOpen > 30000 <=> Mo!CasesOpen > 30
        BY <2>2
    <2>4. QED
        BY <1>3, <1>9, <2>1, <2>3 DEF Mo!Exceeds, Mo!Warranted
<1>10. r.id \in {"N01", "T01", "G01", "R01", "P01", "P02"}
    BY DEF Mo!Rules
<1>11. QED
    BY <1>4, <1>5, <1>6, <1>7, <1>8, <1>9, <1>10

\* Whatever is counted in whatever series, an alert is raised exactly if what has happened in
\* the process warrants it, up to 2000 attempts of a kind.
THEOREM AlertsAlwaysJustified == Mo!Spec => []AlertsJustified
<1>1. MonitorInv => AlertsJustified
    <2> SUFFICES ASSUME MonitorInv, Mo!FewAttempts PROVE
            Mo!Payloads = UNION {{<<r.id, c>> : c \in r.channels} :
                                    r \in {r \in Mo!Rules : r.id \in Mo!Warranted}}
        BY DEF AlertsJustified, Mo!AlertsJustified
    <2>1. Mo!Triggered = {r \in Mo!Rules : r.id \in Mo!Warranted}
        BY RulesSee DEF Mo!Triggered
    <2>2. QED
        BY <2>1 DEF Mo!Payloads
<1>2. QED
    BY <1>1, InitMonitor, NextMonitor, PTL DEF Mo!Spec

-----------------------------------------------------------------------------
(***************************************************************************)
(* The paths of the gateway                                                *)
(***************************************************************************)

\* The words that paths are made of, ":" for any other.
Words ==
    {":", "auth", "register", "login", "refresh", "forgot-password", "reset-password", "me",
     "admin", "users", "events", "catalog", "drafts", "publish", "cancel", "media",
     "organizer", "registrations", "export", "ping", "tickets", "download", "notifications",
     "read", "emit", "event", "payments", "session", "webhook", "profile", "participations"}
Path == Seq(Words)

\* Where paths have a name: what comes before it decides.
Regular(p) ==
    /\ p[1] = "tickets" => p[2] = ":"
    /\ p[1] \in {"registrations", "notifications"} /\ Len(p) = 3 => p[2] = ":"
    /\ p[1] = "events" /\ p[2] # "drafts" /\ Len(p) = 3 => p[2] = ":"
    /\ p[1] \in {"catalog", "organizer"} /\ Len(p) >= 3 => p[3] = ":"
    /\ p[1] = "events" /\ p[2] = "drafts" /\ Len(p) >= 3 => p[3] = ":"

\* As a pattern, it fits no regular path but itself.
Tight(q) == \A p \in Path : Regular(p) /\ Ga!Fits(p, q) => p = q

Sound(p) == p \in Path /\ Regular(p) /\ Tight(p)

LEMMA WordsAreWords ==
    /\ ":" \in Words /\ "auth" \in Words /\ "register" \in Words /\ "login" \in Words
    /\ "refresh" \in Words /\ "forgot-password" \in Words /\ "reset-password" \in Words
    /\ "me" \in Words
    /\ "admin" \in Words /\ "users" \in Words /\ "events" \in Words /\ "catalog" \in Words
    /\ "drafts" \in Words /\ "publish" \in Words /\ "cancel" \in Words /\ "media" \in Words
    /\ "organizer" \in Words /\ "registrations" \in Words /\ "export" \in Words /\ "ping" \in Words
    /\ "tickets" \in Words /\ "download" \in Words /\ "notifications" \in Words /\ "read" \in Words
    /\ "emit" \in Words /\ "event" \in Words /\ "payments" \in Words /\ "session" \in Words
    /\ "webhook" \in Words /\ "profile" \in Words /\ "participations" \in Words
BY DEF Words

\* A tuple of words is a path.
LEMMA TuplesArePaths ==
    /\ \A a \in Words : <<a>> \in Path
    /\ \A a, b \in Words : <<a, b>> \in Path
    /\ \A a, b, c \in Words : <<a, b, c>> \in Path
    /\ \A a, b, c, d \in Words : <<a, b, c, d>> \in Path
    /\ \A a, b, c, d, e \in Words : <<a, b, c, d, e>> \in Path
<1>1. ASSUME NEW a \in Words PROVE <<a>> \in Path
    BY DEF Path
<1>2. ASSUME NEW a \in Words, NEW b \in Words PROVE <<a, b>> \in Path
    BY DEF Path
<1>3. ASSUME NEW a \in Words, NEW b \in Words, NEW c \in Words PROVE <<a, b, c>> \in Path
    BY DEF Path
<1>4. ASSUME NEW a \in Words, NEW b \in Words, NEW c \in Words, NEW d \in Words
      PROVE  <<a, b, c, d>> \in Path
    BY DEF Path
<1>5. ASSUME NEW a \in Words, NEW b \in Words, NEW c \in Words, NEW d \in Words, NEW e \in Words
      PROVE  <<a, b, c, d, e>> \in Path
    BY DEF Path
<1>6. QED
    BY <1>1, <1>2, <1>3, <1>4, <1>5

LEMMA ShortPaths ==
    ASSUME NEW a \in Words \ {":", "tickets"}, NEW b \in Words \ {":"}
    PROVE  Sound(<<a>>) /\ Sound(<<a, b>>)
<1>1. Regular(<<a>>) /\ Regular(<<a, b>>)
    BY DEF Regular
<1>2. Tight(<<a>>) /\ Tight(<<a, b>>)
    BY DEF Tight, Ga!Fits, Path
<1>3. <<a>> \in Path /\ <<a, b>> \in Path
    BY TuplesArePaths
<1>4. QED
    BY <1>1, <1>2, <1>3 DEF Sound

LEMMA LongPaths ==
    /\ Sound(<<"catalog", "events", ":">>)
    /\ Sound(<<"events", "drafts", ":">>)
    /\ Sound(<<"events", "drafts", ":", "publish">>)
    /\ Sound(<<"events", "drafts", ":", "media">>)
    /\ Sound(<<"events", ":", "cancel">>)
    /\ Sound(<<"organizer", "events", ":", "registrations">>)
    /\ Sound(<<"organizer", "events", ":", "registrations", "export">>)
    /\ Sound(<<"registrations", ":", "cancel">>)
    /\ Sound(<<"tickets", ":">>)
    /\ Sound(<<"tickets", ":", "download">>)
    /\ Sound(<<"notifications", ":", "read">>)
<1>1. /\ <<"catalog", "events", ":">> \in Path
      /\ <<"events", "drafts", ":">> \in Path
      /\ <<"events", "drafts", ":", "publish">> \in Path
      /\ <<"events", "drafts", ":", "media">> \in Path
      /\ <<"events", ":", "cancel">> \in Path
      /\ <<"organizer", "events", ":", "registrations">> \in Path
      /\ <<"organizer", "events", ":", "registrations", "export">> \in Path
      /\ <<"registrations", ":", "cancel">> \in Path
      /\ <<"tickets", ":">> \in Path
      /\ <<"tickets", ":", "download">> \in Path
      /\ <<"notifications", ":", "read">> \in Path
    BY WordsAreWords, TuplesArePaths
<1>2. /\ Regular(<<"catalog", "events", ":">>)
      /\ Regular(<<"events", "drafts", ":">>)
      /\ Regular(<<"events", "drafts", ":", "publish">>)
      /\ Regular(<<"events", "drafts", ":", "media">>)
      /\ Regular(<<"events", ":", "cancel">>)
      /\ Regular(<<"organizer", "events", ":", "registrations">>)
      /\ Regular(<<"organizer", "events", ":", "registrations", "export">>)
      /\ Regular(<<"registrations", ":", "cancel">>)
      /\ Regular(<<"tickets", ":">>)
      /\ Regular(<<"tickets", ":", "download">>)
      /\ Regular(<<"notifications", ":", "read">>)
    BY DEF Regular
<1>3. Tight(<<"catalog", "events", ":">>)
    BY DEF Tight, Regular, Ga!Fits, Path
<1>4. Tight(<<"events", "drafts", ":">>)
    BY DEF Tight, Regular, Ga!Fits, Path
<1>5. Tight(<<"events", "drafts", ":", "publish">>)
    BY DEF Tight, Regular, Ga!Fits, Path
<1>6. Tight(<<"events", "drafts", ":", "media">>)
    BY DEF Tight, Regular, Ga!Fits, Path
<1>7. Tight(<<"events", ":", "cancel">>)
    <2>1. ASSUME NEW q \in Path, Regular(q), Ga!Fits(q, <<"events", ":", "cancel">>)
          PROVE  q = <<"events", ":", "cancel">>
        <3>1. Len(q) = 3 /\ q[1] = "events" /\ q[3] = "cancel"
            BY <2>1 DEF Ga!Fits
        <3>2. q[2] = ":"
            BY <2>1, <3>1 DEF Regular
        <3>3. QED
            BY <3>1, <3>2 DEF Path
    <2>2. QED
        BY <2>1 DEF Tight
<1>8. Tight(<<"organizer", "events", ":", "registrations">>)
    BY DEF Tight, Regular, Ga!Fits, Path
<1>9. Tight(<<"organizer", "events", ":", "registrations", "export">>)
    BY DEF Tight, Regular, Ga!Fits, Path
<1>10. Tight(<<"registrations", ":", "cancel">>)
    BY DEF Tight, Regular, Ga!Fits, Path
<1>11. Tight(<<"tickets", ":">>)
    BY DEF Tight, Regular, Ga!Fits, Path
<1>12. Tight(<<"tickets", ":", "download">>)
    BY DEF Tight, Regular, Ga!Fits, Path
<1>13. Tight(<<"notifications", ":", "read">>)
    BY DEF Tight, Regular, Ga!Fits, Path
<1>14. QED
    BY <1>1, <1>2, <1>3, <1>4, <1>5, <1>6, <1>7, <1>8, <1>9, <1>10, <1>11, <1>12, <1>13 DEF Sound

EntriesOf(table) == {table[i] : i \in DOMAIN table}

\* The call is one of those that the entries are for.
Known(method, path, entries) == \E e \in entries : e.method = method /\ e.path = path

\* What is sent for ":" is in no pattern.
LEMMA SentFits ==
    ASSUME NEW p \in Path, NEW q \in Path, NEW x
    PROVE  Ga!Fits(Ga!Sent(p, x), q) <=> Ga!Fits(p, q)
<1> DEFINE it == IF x \in Ga!NoIds THEN x ELSE "it"
<1>1. /\ Len(Ga!Sent(p, x)) = Len(p)
      /\ \A i \in DOMAIN p : Ga!Sent(p, x)[i] = IF p[i] = ":" THEN it ELSE p[i]
    BY DEF Ga!Sent, Path
<1>2. \A i \in DOMAIN q : q[i] # it
    BY DEF Path, Words, Ga!NoIds, Ga!Dots
<1> HIDE DEF it
<1>3. DOMAIN p = 1 .. Len(p) /\ DOMAIN q = 1 .. Len(q)
    BY DEF Path
<1>4. QED
    BY <1>1, <1>2, <1>3 DEF Ga!Fits

\* What a table has for a path that is sent is for this path.
LEMMA Matched ==
    ASSUME NEW table, NEW method, NEW p \in Path, Regular(p),
           \A e \in EntriesOf(table) : Sound(e.path),
           NEW x, NEW e \in Ga!Matching(table, method, Ga!Sent(p, x))
    PROVE  e \in EntriesOf(table) /\ e.method = method /\ e.path = p
<1>1. PICK i \in DOMAIN table :
          e = table[i] /\ table[i].method = method /\ Ga!Fits(Ga!Sent(p, x), table[i].path)
    BY DEF Ga!Matching
<1>2. e \in EntriesOf(table)
    BY <1>1 DEF EntriesOf
<1>3. e.path \in Path /\ Tight(e.path)
    BY <1>2 DEF Sound
<1>4. Ga!Fits(p, e.path)
    BY <1>1, <1>3, SentFits
<1>5. QED
    BY <1>1, <1>2, <1>3, <1>4 DEF Tight

\* It has something for every path that it knows.
LEMMA Found ==
    ASSUME NEW table, DOMAIN table \subseteq Nat, NEW method, NEW p \in Path,
           Known(method, p, EntriesOf(table)), NEW x
    PROVE  Ga!Matching(table, method, Ga!Sent(p, x)) # {}
<1> DEFINE fitting == {i \in DOMAIN table : table[i].method = method
                                             /\ Ga!Fits(Ga!Sent(p, x), table[i].path)}
<1>1. PICK i \in DOMAIN table : table[i].method = method /\ table[i].path = p
    BY DEF Known, EntriesOf
<1>2. Ga!Fits(p, p)
    BY DEF Ga!Fits
<1>3. i \in fitting /\ fitting \subseteq Nat
    BY <1>1, <1>2, SentFits
<1>4. PICK k \in fitting : \A j \in fitting : k <= j
    BY <1>3, HasLeast
<1>5. table[k] \in Ga!Matching(table, method, Ga!Sent(p, x))
    BY <1>4 DEF Ga!Matching
<1>6. QED
    BY <1>5

LEMMA JoinedEntries ==
    ASSUME NEW S, NEW s \in Seq(S), NEW t \in Seq(S)
    PROVE  s \o t \in Seq(S) /\ EntriesOf(s \o t) = EntriesOf(s) \cup EntriesOf(t)
<1>1. /\ DOMAIN s = 1 .. Len(s) /\ DOMAIN t = 1 .. Len(t)
      /\ DOMAIN (s \o t) = 1 .. Len(s) + Len(t)
      /\ Len(s) \in Nat /\ Len(t) \in Nat
    OBVIOUS
<1>2. \A i \in DOMAIN s : i \in DOMAIN (s \o t) /\ (s \o t)[i] = s[i]
    BY <1>1
<1>3. \A i \in DOMAIN t : i + Len(s) \in DOMAIN (s \o t) /\ (s \o t)[i + Len(s)] = t[i]
    BY <1>1
<1>4. \A i \in DOMAIN (s \o t) :
        i \in DOMAIN s \/ (i - Len(s) \in DOMAIN t /\ (s \o t)[i] = t[i - Len(s)])
    BY <1>1
<1>5. EntriesOf(s \o t) = EntriesOf(s) \cup EntriesOf(t)
    <2>1. ASSUME NEW e \in EntriesOf(s \o t) PROVE e \in EntriesOf(s) \cup EntriesOf(t)
        <3>1. PICK i \in DOMAIN (s \o t) : e = (s \o t)[i]
            BY DEF EntriesOf
        <3>2. CASE i \in DOMAIN s
            BY <1>2, <3>1, <3>2 DEF EntriesOf
        <3>3. CASE i - Len(s) \in DOMAIN t /\ (s \o t)[i] = t[i - Len(s)]
            BY <3>1, <3>3 DEF EntriesOf
        <3>4. QED
            BY <1>4, <3>2, <3>3
    <2>2. \A i \in DOMAIN s : s[i] \in EntriesOf(s \o t)
        BY <1>2 DEF EntriesOf
    <2>3. \A i \in DOMAIN t : t[i] \in EntriesOf(s \o t)
        BY <1>3 DEF EntriesOf
    <2>4. QED
        BY <2>1, <2>2, <2>3 DEF EntriesOf
<1>6. QED
    BY <1>5

\* The roles that a call needs, told from the call alone.
Needed(method, path) ==
    IF path[1] = "auth" THEN (IF path[2] = "me" THEN Ga!Everyone ELSE Ga!Public)
    ELSE IF path[1] = "admin" THEN Ga!Administrators
    ELSE IF path[1] = "catalog" THEN Ga!Public
    ELSE IF path[1] = "events" \/ path[1] = "organizer" THEN Ga!Organizers
    ELSE IF path[1] = "notifications"
    THEN (IF method = "POST" THEN Ga!Organizers ELSE Ga!Everyone)
    ELSE IF path[1] = "payments" /\ path[2] = "webhook" THEN Ga!Public
    ELSE Ga!Participants

\* An entry is for a sound path, and asks for the roles that the call needs.
Proper(e) == Sound(e.path) /\ e.roles = Needed(e.method, e.path)

-----------------------------------------------------------------------------
(***************************************************************************)
(* The tables of the gateway and of the services                           *)
(***************************************************************************)
LEMMA EntriesOfTables ==
    /\ \A a, b, c, d, e, f, g : EntriesOf(<<a, b, c, d, e, f, g>>) = {a, b, c, d, e, f, g}
    /\ \A a, b, c, d, e, f, g, h, i, j, k :
        EntriesOf(<<a, b, c, d, e, f, g, h, i, j, k>>) = {a, b, c, d, e, f, g, h, i, j, k}
BY DEF EntriesOf

LEMMA IdentityHandlersAre ==
    EntriesOf(Ga!IdentityHandlers) =
        {Ga!Handler("POST", <<"auth", "register">>, Ga!Public, "write"),
         Ga!Handler("POST", <<"auth", "login">>, Ga!Public, "write"),
         Ga!Handler("POST", <<"auth", "refresh">>, Ga!Public, "write"),
         Ga!Handler("POST", <<"auth", "forgot-password">>, Ga!Public, "write"),
         Ga!Handler("POST", <<"auth", "reset-password">>, Ga!Public, "write"),
         Ga!Handler("GET", <<"auth", "me">>, Ga!Everyone, "me"),
         Ga!Handler("GET", <<"admin", "users">>, Ga!Administrators, "users")}
BY EntriesOfTables DEF Ga!IdentityHandlers

LEMMA EventHandlersAre ==
    EntriesOf(Ga!EventHandlers) =
        {Ga!Handler("GET", <<"catalog", "events">>, Ga!Public, "catalog"),
         Ga!Handler("GET", <<"catalog", "events", ":">>, Ga!Public, "public event"),
         Ga!Handler("GET", <<"admin", "events">>, Ga!Administrators, "managed"),
         Ga!Handler("POST", <<"events", "drafts">>, Ga!Organizers, "write"),
         Ga!Handler("GET", <<"events", "drafts">>, Ga!Organizers, "drafts"),
         Ga!Handler("GET", <<"events", "me">>, Ga!Organizers, "managed"),
         Ga!Handler("GET", <<"events", "drafts", ":">>, Ga!Organizers, "event"),
         Ga!Handler("PATCH", <<"events", "drafts", ":">>, Ga!Organizers, "write"),
         Ga!Handler("DELETE", <<"events", "drafts", ":">>, Ga!Organizers, "write"),
         Ga!Handler("POST", <<"events", "drafts", ":", "publish">>, Ga!Organizers, "write"),
         Ga!Handler("POST", <<"events", ":", "cancel">>, Ga!Organizers, "write"),
         Ga!Handler("POST", <<"events", "drafts", ":", "media">>, Ga!Organizers, "write"),
         Ga!Handler("DELETE", <<"events", "drafts", ":", "media">>, Ga!Organizers, "write")}
<1>1. DOMAIN Ga!EventHandlers = {1, 2, 3, 4, 5, 6, 7, 8, 9, 10, 11, 12, 13}
    BY DEF Ga!EventHandlers
<1>2. EntriesOf(Ga!EventHandlers) =
         {Ga!EventHandlers[1], Ga!EventHandlers[2], Ga!EventHandlers[3],
          Ga!EventHandlers[4], Ga!EventHandlers[5], Ga!EventHandlers[6],
          Ga!EventHandlers[7], Ga!EventHandlers[8], Ga!EventHandlers[9],
          Ga!EventHandlers[10], Ga!EventHandlers[11], Ga!EventHandlers[12],
          Ga!EventHandlers[13]}
    BY <1>1 DEF EntriesOf
<1>3. QED
    BY <1>2 DEF Ga!EventHandlers

LEMMA RegistrationHandlersAre ==
    EntriesOf(Ga!RegistrationHandlers) =
        {Ga!Handler("POST", <<"registrations">>, Ga!Participants, "write"),
         Ga!Handler("POST", <<"registrations", ":", "cancel">>, Ga!Participants, "write"),
         Ga!Handler("GET", <<"tickets", ":">>, Ga!Participants, "ticket"),
         Ga!Handler("GET", <<"tickets", ":", "download">>, Ga!Participants, "download"),
         Ga!Handler("GET", <<"notifications">>, Ga!Everyone, "notices"),
         Ga!Handler("PATCH", <<"notifications", ":", "read">>, Ga!Everyone, "read notice"),
         Ga!Handler("POST", <<"notifications", "emit">>, Ga!Organizers, "write"),
         Ga!Handler("POST", <<"notifications", "event">>, Ga!Organizers, "write"),
         Ga!Handler("POST", <<"payments", "session">>, Ga!Participants, "write"),
         Ga!Handler("POST", <<"payments", "webhook">>, Ga!Public, "write"),
         Ga!Handler("GET", <<"profile", "participations">>, Ga!Participants, "participations"),
         Ga!Handler("GET", <<"organizer", "events", ":", "registrations">>,
                    Ga!Organizers, "rows"),
         Ga!Handler("GET", <<"organizer", "events", ":", "registrations", "export">>,
                    Ga!Organizers, "rows")}
<1>1. DOMAIN Ga!RegistrationHandlers = {1, 2, 3, 4, 5, 6, 7, 8, 9, 10, 11, 12, 13}
    BY DEF Ga!RegistrationHandlers
<1>2. EntriesOf(Ga!RegistrationHandlers) =
         {Ga!RegistrationHandlers[1], Ga!RegistrationHandlers[2], Ga!RegistrationHandlers[3],
          Ga!RegistrationHandlers[4], Ga!RegistrationHandlers[5], Ga!RegistrationHandlers[6],
          Ga!RegistrationHandlers[7], Ga!RegistrationHandlers[8], Ga!RegistrationHandlers[9],
          Ga!RegistrationHandlers[10], Ga!RegistrationHandlers[11], Ga!RegistrationHandlers[12],
          Ga!RegistrationHandlers[13]}
    BY <1>1 DEF EntriesOf
<1>3. QED
    BY <1>2 DEF Ga!RegistrationHandlers

LEMMA IdentityRoutesAre ==
    EntriesOf(Ga!IdentityRoutes) =
        {Ga!Route("POST", <<"auth", "register">>, Ga!Public, "identity"),
         Ga!Route("POST", <<"auth", "login">>, Ga!Public, "identity"),
         Ga!Route("POST", <<"auth", "refresh">>, Ga!Public, "identity"),
         Ga!Route("POST", <<"auth", "forgot-password">>, Ga!Public, "identity"),
         Ga!Route("POST", <<"auth", "reset-password">>, Ga!Public, "identity"),
         Ga!Route("GET", <<"auth", "me">>, Ga!Everyone, "identity"),
         Ga!Route("GET", <<"admin", "users">>, Ga!Administrators, "identity")}
BY EntriesOfTables DEF Ga!IdentityRoutes

LEMMA EventRoutesAre ==
    EntriesOf(Ga!EventRoutes) =
        {Ga!Route("GET", <<"admin", "events">>, Ga!Administrators, "events"),
         Ga!Route("GET", <<"catalog", "events">>, Ga!Public, "events"),
         Ga!Route("GET", <<"catalog", "events", ":">>, Ga!Public, "events"),
         Ga!Route("POST", <<"events", "drafts">>, Ga!Organizers, "events"),
         Ga!Route("GET", <<"events", "drafts">>, Ga!Organizers, "events"),
         Ga!Route("GET", <<"events", "drafts", ":">>, Ga!Organizers, "events"),
         Ga!Route("PATCH", <<"events", "drafts", ":">>, Ga!Organizers, "events"),
         Ga!Route("DELETE", <<"events", "drafts", ":">>, Ga!Organizers, "events"),
         Ga!Route("POST", <<"events", "drafts", ":", "publish">>, Ga!Organizers, "events"),
         Ga!Route("POST", <<"events", ":", "cancel">>, Ga!Organizers, "events"),
         Ga!Route("GET", <<"events", "me">>, Ga!Organizers, "events")}
BY EntriesOfTables DEF Ga!EventRoutes

LEMMA RegistrationRoutesAre ==
    EntriesOf(Ga!RegistrationRoutes) =
        {Ga!Route("GET", <<"organizer", "events", ":", "registrations">>,
                  Ga!Organizers, "registration"),
         Ga!Route("GET", <<"organizer", "events", ":", "registrations", "export">>,
                  Ga!Organizers, "registration"),
         Ga!Route("POST", <<"registrations">>, Ga!Participants, "registration"),
         Ga!Route("POST", <<"registrations", ":", "cancel">>, Ga!Participants, "registration"),
         Ga!Route("GET", <<"tickets", ":">>, Ga!Participants, "registration"),
         Ga!Route("GET", <<"tickets", ":", "download">>, Ga!Participants, "registration"),
         Ga!Route("GET", <<"notifications">>, Ga!Everyone, "registration"),
         Ga!Route("PATCH", <<"notifications", ":", "read">>, Ga!Everyone, "registration"),
         Ga!Route("POST", <<"payments", "session">>, Ga!Participants, "registration"),
         Ga!Route("POST", <<"payments", "webhook">>, Ga!Public, "registration"),
         Ga!Route("GET", <<"profile", "participations">>, Ga!Participants, "registration")}
BY EntriesOfTables DEF Ga!RegistrationRoutes

LEMMA HandlersKnown ==
    \A S, m, p, r, d : Ga!Handler(m, p, r, d) \in S => Known(m, p, S)
BY DEF Ga!Handler, Known

LEMMA RoutesKnown ==
    \A S, m, p, r, d : Ga!Route(m, p, r, d) \in S => Known(m, p, S)
BY DEF Ga!Route, Known

LEMMA ProperHandlers ==
    \A m, p, r, d : Sound(p) /\ r = Needed(m, p) => Proper(Ga!Handler(m, p, r, d))
BY DEF Proper, Ga!Handler

LEMMA ProperRoutes ==
    \A m, p, r, d : Sound(p) /\ r = Needed(m, p) => Proper(Ga!Route(m, p, r, d))
BY DEF Proper, Ga!Route

LEMMA IdentityHandlersAreProper == \A e \in EntriesOf(Ga!IdentityHandlers) : Proper(e)
BY IdentityHandlersAre, ShortPaths, LongPaths, WordsAreWords,
   ProperHandlers, ZenonT(30) DEF Needed

LEMMA EventHandlersAreProper == \A e \in EntriesOf(Ga!EventHandlers) : Proper(e)
BY EventHandlersAre, ShortPaths, LongPaths, WordsAreWords,
   ProperHandlers, ZenonT(30) DEF Needed

LEMMA RegistrationHandlersAreProper == \A e \in EntriesOf(Ga!RegistrationHandlers) : Proper(e)
BY RegistrationHandlersAre, ShortPaths, LongPaths, WordsAreWords,
   ProperHandlers, ZenonT(30) DEF Needed

LEMMA IdentityRoutesAreProper == \A e \in EntriesOf(Ga!IdentityRoutes) : Proper(e)
BY IdentityRoutesAre, ShortPaths, LongPaths, WordsAreWords,
   ProperRoutes DEF Needed

LEMMA EventRoutesAreProper == \A e \in EntriesOf(Ga!EventRoutes) : Proper(e)
BY EventRoutesAre, ShortPaths, LongPaths, WordsAreWords,
   ProperRoutes DEF Needed

LEMMA RegistrationRoutesAreProper == \A e \in EntriesOf(Ga!RegistrationRoutes) : Proper(e)
BY RegistrationRoutesAre, ShortPaths, LongPaths, WordsAreWords,
   ProperRoutes DEF Needed

\* The gateway serves a route itself, or some service has a handler for it.
Routed(e) ==
    \/ e.service = "gateway" /\ e.method = "GET" /\ e.path = <<"organizer", "ping">>
    \/ e.service \in {"identity", "events", "registration"}
       /\ Known(e.method, e.path, EntriesOf(Ga!HandlersOf[e.service]))

LEMMA RoutedRoutes ==
    \A m, p, r, s :
        s \in {"identity", "events", "registration"} /\ Known(m, p, EntriesOf(Ga!HandlersOf[s]))
            => Routed(Ga!Route(m, p, r, s))
BY DEF Routed, Ga!Route

LEMMA HandlersOfServices ==
    /\ Ga!HandlersOf["identity"] = Ga!IdentityHandlers
    /\ Ga!HandlersOf["events"] = Ga!EventHandlers
    /\ Ga!HandlersOf["registration"] = Ga!RegistrationHandlers
BY DEF Ga!HandlersOf

LEMMA IdentityRoutesAreRouted == \A e \in EntriesOf(Ga!IdentityRoutes) : Routed(e)
BY IdentityRoutesAre, IdentityHandlersAre, HandlersKnown, RoutedRoutes,
   HandlersOfServices

LEMMA EventRoutesAreRouted == \A e \in EntriesOf(Ga!EventRoutes) : Routed(e)
BY EventRoutesAre, EventHandlersAre, HandlersKnown, RoutedRoutes,
   HandlersOfServices, ZenonT(30)

LEMMA RegistrationRoutesAreRouted == \A e \in EntriesOf(Ga!RegistrationRoutes) : Routed(e)
BY RegistrationRoutesAre, RegistrationHandlersAre, HandlersKnown, RoutedRoutes,
   HandlersOfServices, ZenonT(30)

LEMMA FourJoined ==
    ASSUME NEW S, NEW s \in Seq(S), NEW t \in Seq(S), NEW u \in Seq(S), NEW v \in Seq(S)
    PROVE  /\ s \o t \o u \o v \in Seq(S)
           /\ EntriesOf(s \o t \o u \o v) =
                EntriesOf(s) \cup EntriesOf(t) \cup EntriesOf(u) \cup EntriesOf(v)
<1>1. PICK st \in Seq(S) : st = s \o t /\ EntriesOf(st) = EntriesOf(s) \cup EntriesOf(t)
    BY JoinedEntries, ZenonT(30)
<1>2. PICK stu \in Seq(S) : stu = st \o u /\ EntriesOf(stu) = EntriesOf(st) \cup EntriesOf(u)
    BY JoinedEntries, ZenonT(30)
<1>3. stu \o v \in Seq(S) /\ EntriesOf(stu \o v) = EntriesOf(stu) \cup EntriesOf(v)
    BY JoinedEntries, ZenonT(30)
<1>4. QED
    BY <1>1, <1>2, <1>3

Ping == Ga!Route("GET", <<"organizer", "ping">>, Ga!Organizers, "gateway")

LEMMA RoutesAre ==
    /\ DOMAIN Ga!RouteTable \subseteq Nat
    /\ EntriesOf(Ga!RouteTable) =
            EntriesOf(Ga!IdentityRoutes) \cup EntriesOf(Ga!EventRoutes)
            \cup EntriesOf(Ga!RegistrationRoutes) \cup {Ping}
<1> DEFINE I == Ga!IdentityRoutes
           E == Ga!EventRoutes
           R == Ga!RegistrationRoutes
           P == <<Ping>>
           S == EntriesOf(I) \cup EntriesOf(E) \cup EntriesOf(R) \cup {Ping}
<1>1. I \in Seq(S)
    <2>1. \A i \in {1, 2, 3, 4, 5, 6, 7} : I[i] \in S
        BY DEF EntriesOf, Ga!IdentityRoutes
    <2> HIDE DEF S
    <2>2. QED
        BY <2>1 DEF Ga!IdentityRoutes
<1>2. E \in Seq(S)
    <2>1. \A i \in {1, 2, 3, 4, 5, 6, 7, 8, 9, 10, 11} : E[i] \in S
        BY DEF EntriesOf, Ga!EventRoutes
    <2> HIDE DEF S
    <2>2. QED
        BY <2>1 DEF Ga!EventRoutes
<1>3. R \in Seq(S)
    <2>1. \A i \in {1, 2, 3, 4, 5, 6, 7, 8, 9, 10, 11} : R[i] \in S
        BY DEF EntriesOf, Ga!RegistrationRoutes
    <2> HIDE DEF S
    <2>2. QED
        BY <2>1 DEF Ga!RegistrationRoutes
<1>4. P \in Seq(S) /\ EntriesOf(P) = {Ping}
    BY DEF EntriesOf
<1>5. /\ I \o E \o R \o P \in Seq(S)
      /\ EntriesOf(I \o E \o R \o P) =
            EntriesOf(I) \cup EntriesOf(E) \cup EntriesOf(R) \cup EntriesOf(P)
    <2> HIDE DEF I, E, R, P, S
    <2>1. QED
        BY <1>1, <1>2, <1>3, <1>4, FourJoined
<1>6. Ga!RouteTable = I \o E \o R \o P
    BY DEF Ga!RouteTable, Ping
<1>7. DOMAIN Ga!RouteTable \subseteq Nat
    <2> HIDE DEF I, E, R, P, S
    <2>1. QED
        BY <1>5, <1>6
<1>8. QED
    BY <1>4, <1>5, <1>6, <1>7

LEMMA RoutesAreProper == \A e \in EntriesOf(Ga!RouteTable) : Proper(e) /\ Routed(e)
<1>1. Proper(Ping) /\ Routed(Ping)
    <2>1. Proper(Ping)
        BY ShortPaths, WordsAreWords, ProperRoutes DEF Needed, Ping
    <2>2. QED
        BY <2>1 DEF Routed, Ga!Route, Ping
<1>2. QED
    BY <1>1, RoutesAre, IdentityRoutesAreProper, EventRoutesAreProper, RegistrationRoutesAreProper,
       IdentityRoutesAreRouted, EventRoutesAreRouted, RegistrationRoutesAreRouted

\* What a service has for a path.
LEMMA HandlersAreProper ==
    ASSUME NEW s \in {"identity", "events", "registration"}
    PROVE  /\ DOMAIN Ga!HandlersOf[s] \subseteq Nat
           /\ \A e \in EntriesOf(Ga!HandlersOf[s]) : Proper(e)
<1>1. CASE s = "identity"
    <2>1. DOMAIN Ga!IdentityHandlers \subseteq Nat
        BY DEF Ga!IdentityHandlers
    <2>2. QED
        BY <1>1, <2>1, HandlersOfServices, IdentityHandlersAreProper
<1>2. CASE s = "events"
    <2>1. DOMAIN Ga!EventHandlers \subseteq Nat
        BY DEF Ga!EventHandlers
    <2>2. QED
        BY <1>2, <2>1, HandlersOfServices, EventHandlersAreProper
<1>3. CASE s = "registration"
    <2>1. DOMAIN Ga!RegistrationHandlers \subseteq Nat
        BY DEF Ga!RegistrationHandlers
    <2>2. QED
        BY <1>3, <2>1, HandlersOfServices, RegistrationHandlersAreProper
<1>4. QED
    BY <1>1, <1>2, <1>3

-----------------------------------------------------------------------------
(***************************************************************************)
(* Dot segments                                                            *)
(***************************************************************************)

\* Without a dot segment, a path stays as it is.
LEMMA NoDots ==
    ASSUME NEW p \in Path, NEW x, x \notin Ga!NoIds
    PROVE  Ga!Resolved(Ga!Sent(p, x)) = Ga!Sent(p, x)
<1>1. \A i \in DOMAIN p : p[i] \notin Ga!Dots
    BY DEF Path, Words, Ga!Dots
<1>2. \A i \in DOMAIN Ga!Sent(p, x) : Ga!Sent(p, x)[i] \notin Ga!Dots
    BY <1>1 DEF Ga!Sent, Ga!Dots
<1>3. QED
    BY <1>2 DEF Ga!Resolved

\* What is left of a path with a name in one place, if a dot segment is sent for the name.
LEMMA DotTaken ==
    ASSUME NEW p \in Path, NEW i \in DOMAIN p, i >= 2, NEW x \in Ga!Dots,
           \A j \in DOMAIN p : p[j] = ":" <=> j = i,
           NEW cut \in Nat, cut = IF x = "." THEN 1 ELSE 2
    PROVE  LET t == Ga!Resolved(Ga!Sent(p, x)) IN
           /\ Len(t) = Len(p) - cut
           /\ \A j \in 1 .. i - cut : t[j] = p[j]
           /\ \A j \in 1 .. Len(p) - cut : j > i - cut => t[j] = p[j + cut]
<1> DEFINE q == Ga!Sent(p, x)
           S == Words \cup Ga!Dots
           a == SubSeq(q, 1, i - cut)
           b == SubSeq(q, i + 1, Len(q))
<1>1. Len(p) \in Nat /\ DOMAIN p = 1 .. Len(p) /\ i \in 2 .. Len(p) /\ cut \in {1, 2}
      /\ \A j \in DOMAIN p : p[j] \in Words
    BY DEF Path
<1>2. q = [j \in 1 .. Len(p) |-> IF j = i THEN x ELSE p[j]]
    BY <1>1 DEF Ga!Sent, Ga!NoIds
<1>3. q \in Seq(S) /\ Len(q) = Len(p) /\ DOMAIN q = 1 .. Len(p)
    BY <1>1, <1>2
<1>4. {j \in DOMAIN q : q[j] \in Ga!Dots} = {i}
    <2>1. \A w \in Words : w \notin Ga!Dots
        BY DEF Words, Ga!Dots
    <2>2. QED
        BY <1>1, <1>2, <1>3, <2>1
<1>5. (CHOOSE j \in {i} : TRUE) = i
    OBVIOUS
<1>6. q[i] = x
    BY <1>1, <1>2
<1>7. Ga!Resolved(q) = a \o b
    <2> HIDE DEF q
    <2>1. CASE x = "."
        BY <1>4, <1>5, <1>6, <2>1 DEF Ga!Resolved
    <2>2. CASE x # "."
        <3>1. (i - 1) - 1 = i - cut
            BY <1>1, <2>2
        <3>2. QED
            BY <1>4, <1>5, <1>6, <2>2, <3>1 DEF Ga!Resolved
    <2>3. QED
        BY <2>1, <2>2
<1>8. /\ a \in Seq(S) /\ Len(a) = i - cut
      /\ \A j \in 1 .. i - cut : a[j] = q[j]
    <2> HIDE DEF q
    <2>1. i - cut \in Nat /\ \A j \in 1 .. i - cut : j \in 1 .. Len(p) /\ q[j] \in S
        BY <1>1, <1>3
    <2> HIDE DEF S
    <2>2. QED
        BY <2>1, SubSeqProperties
<1>9. /\ b \in Seq(S) /\ Len(b) = Len(p) - i
      /\ \A j \in 1 .. Len(p) - i : b[j] = q[i + j]
    <2> HIDE DEF q
    <2>1. i + 1 \in Int /\ Len(q) \in Int /\ \A j \in i + 1 .. Len(q) : q[j] \in S
        BY <1>1, <1>3
    <2> HIDE DEF S
    <2>2. /\ b \in Seq(S) /\ Len(b) = (IF i + 1 <= Len(q) THEN Len(q) - (i + 1) + 1 ELSE 0)
          /\ \A j \in 1 .. Len(q) - (i + 1) + 1 : b[j] = q[(i + 1) + j - 1]
        BY <2>1, SubSeqProperties
    <2> HIDE DEF b
    <2>3. Len(b) = Len(p) - i /\ Len(q) - (i + 1) + 1 = Len(p) - i
        BY <1>1, <1>3, <2>2
    <2>4. ASSUME NEW j \in 1 .. Len(p) - i PROVE b[j] = q[i + j]
        <3>1. (i + 1) + j - 1 = i + j
            BY <1>1
        <3>2. QED
            BY <2>2, <2>3, <3>1
    <2>5. QED
        BY <2>2, <2>3, <2>4
<1>10. /\ Len(a \o b) = Len(p) - cut
       /\ \A j \in 1 .. Len(p) - cut : (a \o b)[j] = IF j <= i - cut THEN q[j] ELSE q[j + cut]
    <2> HIDE DEF a, b, S, q
    <2>1. /\ Len(a \o b) = Len(a) + Len(b)
          /\ \A j \in 1 .. Len(a) + Len(b) :
                (a \o b)[j] = IF j <= Len(a) THEN a[j] ELSE b[j - Len(a)]
        BY <1>8, <1>9, ConcatProperties, ZenonT(40)
    <2>2. Len(a) + Len(b) = Len(p) - cut
        BY <1>1, <1>8, <1>9
    <2>3. ASSUME NEW j \in 1 .. Len(p) - cut, ~(j <= i - cut)
          PROVE  j - (i - cut) \in 1 .. Len(p) - i /\ i + (j - (i - cut)) = j + cut
        BY <1>1, <2>3
    <2>4. ASSUME NEW j \in 1 .. Len(p) - cut
          PROVE  (a \o b)[j] = IF j <= i - cut THEN q[j] ELSE q[j + cut]
        <3>1. (a \o b)[j] = IF j <= i - cut THEN a[j] ELSE b[j - (i - cut)]
            BY <1>8, <2>1, <2>2
        <3>2. CASE j <= i - cut
            BY <1>1, <1>8, <3>1, <3>2
        <3>3. CASE ~(j <= i - cut)
            BY <1>9, <2>3, <3>1, <3>3
        <3>4. QED
            BY <3>2, <3>3
    <2>5. QED
        BY <2>1, <2>2, <2>4
<1>11. QED
    <2>1. \A j \in 1 .. i - cut : q[j] = p[j] /\ j \in 1 .. Len(p) - cut
        BY <1>1, <1>2
    <2>2. \A j \in 1 .. Len(p) - cut : j > i - cut => q[j + cut] = p[j + cut]
        BY <1>1, <1>2
    <2> HIDE DEF q, a, b
    <2>3. QED
        BY <1>1, <1>7, <1>10, <2>1, <2>2, SMTT(30) DEF q

\* A handler that a dot segment can lead to is that of a list, or gets another segment in the
\* place of an id.
Astray(h, method, path, target) ==
    /\ h.roles = Needed(method, path)
    /\ \/ /\ h.path = <<"catalog", "events">> /\ h.does = "catalog"
          /\ method = "GET" /\ path[1] = "catalog"
       \/ /\ h.path = <<"events", "drafts">> /\ h.does = "drafts"
          /\ method = "GET" /\ path[1] = "events" /\ path # <<"events", "drafts">>
       \/ h.path = <<"tickets", ":">> /\ target[2] # "it"

\* The shape of the paths of a service, as far as it tells where dot segments lead.
EventShape(h) ==
    /\ Len(h.path) >= 2 /\ h.path[1] \in {"catalog", "admin", "events"}
    /\ Len(h.path) = 2 /\ h.path[1] = "catalog" =>
        h.path = <<"catalog", "events">> /\ h.does = "catalog" /\ h.roles = Ga!Public
    /\ Len(h.path) = 2 /\ h.path[1] = "events" =>
        h.path[2] \in {"drafts", "me"} /\ h.method \in {"GET", "POST"}
    /\ Len(h.path) = 2 /\ h.path[1] = "events" /\ h.path[2] = "drafts" /\ h.method = "GET" =>
        h.path = <<"events", "drafts">> /\ h.does = "drafts" /\ h.roles = Ga!Organizers
    /\ Len(h.path) = 2 /\ h.method = "POST" => h.path[2] = "drafts"
    /\ Len(h.path) = 3 /\ h.method = "POST" => h.path[3] = "cancel"

RegistrationShape(h) ==
    /\ Len(h.path) >= 1
    /\ h.path[1] \in {"registrations", "tickets", "notifications", "payments", "profile",
                      "organizer"}
    /\ h.path[1] = "organizer" =>
        Len(h.path) = 5 \/ (Len(h.path) = 4 /\ h.path[4] = "registrations")
    /\ h.path[1] = "registrations" => Len(h.path) \in {1, 3}
    /\ h.path[1] = "tickets" => Len(h.path) \in {2, 3}
    /\ Len(h.path) = 2 /\ h.path[1] = "tickets" =>
        h.path = <<"tickets", ":">> /\ h.roles = Ga!Participants
    /\ h.method = "PATCH" => Len(h.path) = 3

LEMMA EventHandlersFit == \A h \in EntriesOf(Ga!EventHandlers) : EventShape(h)
<1>1. /\ EventShape(Ga!Handler("GET", <<"catalog", "events">>, Ga!Public, "catalog"))
      /\ EventShape(Ga!Handler("GET", <<"catalog", "events", ":">>, Ga!Public, "public event"))
      /\ EventShape(Ga!Handler("GET", <<"admin", "events">>, Ga!Administrators, "managed"))
    BY DEF EventShape, Ga!Handler
<1>2. /\ EventShape(Ga!Handler("POST", <<"events", "drafts">>, Ga!Organizers, "write"))
      /\ EventShape(Ga!Handler("GET", <<"events", "drafts">>, Ga!Organizers, "drafts"))
      /\ EventShape(Ga!Handler("GET", <<"events", "me">>, Ga!Organizers, "managed"))
    BY DEF EventShape, Ga!Handler
<1>3. /\ EventShape(Ga!Handler("GET", <<"events", "drafts", ":">>, Ga!Organizers, "event"))
      /\ EventShape(Ga!Handler("PATCH", <<"events", "drafts", ":">>, Ga!Organizers, "write"))
      /\ EventShape(Ga!Handler("DELETE", <<"events", "drafts", ":">>, Ga!Organizers, "write"))
      /\ EventShape(Ga!Handler("POST", <<"events", ":", "cancel">>, Ga!Organizers, "write"))
    BY DEF EventShape, Ga!Handler
<1>4. \A m, word : EventShape(Ga!Handler(m, <<"events", "drafts", ":", word>>, Ga!Organizers, "write"))
    BY DEF EventShape, Ga!Handler
<1>5. QED
    BY <1>1, <1>2, <1>3, <1>4, EventHandlersAre

LEMMA RegistrationHandlersFit == \A h \in EntriesOf(Ga!RegistrationHandlers) : RegistrationShape(h)
<1>1. /\ RegistrationShape(Ga!Handler("POST", <<"registrations">>, Ga!Participants, "write"))
      /\ RegistrationShape(Ga!Handler("POST", <<"registrations", ":", "cancel">>,
                                      Ga!Participants, "write"))
      /\ RegistrationShape(Ga!Handler("GET", <<"tickets", ":">>, Ga!Participants, "ticket"))
      /\ RegistrationShape(Ga!Handler("GET", <<"tickets", ":", "download">>,
                                      Ga!Participants, "download"))
    BY DEF RegistrationShape, Ga!Handler
<1>2. /\ RegistrationShape(Ga!Handler("GET", <<"notifications">>, Ga!Everyone, "notices"))
      /\ RegistrationShape(Ga!Handler("PATCH", <<"notifications", ":", "read">>,
                                      Ga!Everyone, "read notice"))
      /\ RegistrationShape(Ga!Handler("POST", <<"notifications", "emit">>, Ga!Organizers, "write"))
      /\ RegistrationShape(Ga!Handler("POST", <<"notifications", "event">>, Ga!Organizers, "write"))
    BY DEF RegistrationShape, Ga!Handler
<1>3. /\ RegistrationShape(Ga!Handler("POST", <<"payments", "session">>, Ga!Participants, "write"))
      /\ RegistrationShape(Ga!Handler("POST", <<"payments", "webhook">>, Ga!Public, "write"))
      /\ RegistrationShape(Ga!Handler("GET", <<"profile", "participations">>,
                                      Ga!Participants, "participations"))
    BY DEF RegistrationShape, Ga!Handler
<1>4. /\ RegistrationShape(Ga!Handler("GET", <<"organizer", "events", ":", "registrations">>,
                                      Ga!Organizers, "rows"))
      /\ RegistrationShape(Ga!Handler("GET", <<"organizer", "events", ":", "registrations", "export">>,
                                      Ga!Organizers, "rows"))
    BY DEF RegistrationShape, Ga!Handler
<1>5. QED
    BY <1>1, <1>2, <1>3, <1>4, RegistrationHandlersAre

\* The routes with a name in them.
LEMMA NamedRoutes ==
    \A e \in EntriesOf(Ga!RouteTable) :
        \/ \A i \in DOMAIN e.path : e.path[i] # ":"
        \/ /\ e.service = "events"
           /\ \/ e.method = "GET" /\ e.path = <<"catalog", "events", ":">>
              \/ e.method \in {"GET", "PATCH", "DELETE"} /\ e.path = <<"events", "drafts", ":">>
              \/ e.method = "POST" /\ e.path = <<"events", "drafts", ":", "publish">>
              \/ e.method = "POST" /\ e.path = <<"events", ":", "cancel">>
        \/ /\ e.service = "registration"
           /\ \/ e.method = "GET" /\ e.path = <<"organizer", "events", ":", "registrations">>
              \/ e.method = "GET"
                 /\ e.path = <<"organizer", "events", ":", "registrations", "export">>
              \/ e.method = "POST" /\ e.path = <<"registrations", ":", "cancel">>
              \/ e.method = "GET" /\ e.path = <<"tickets", ":">>
              \/ e.method = "GET" /\ e.path = <<"tickets", ":", "download">>
              \/ e.method = "PATCH" /\ e.path = <<"notifications", ":", "read">>
<1> DEFINE Nameless(e) == \A i \in DOMAIN e.path : e.path[i] # ":"
<1>1. \A e \in EntriesOf(Ga!IdentityRoutes) \cup {Ping} : Nameless(e)
    BY IdentityRoutesAre DEF Ga!Route, Ping
<1>2. \A e \in EntriesOf(Ga!EventRoutes) :
        \/ Nameless(e)
        \/ /\ e.service = "events"
           /\ \/ e.method = "GET" /\ e.path = <<"catalog", "events", ":">>
              \/ e.method \in {"GET", "PATCH", "DELETE"} /\ e.path = <<"events", "drafts", ":">>
              \/ e.method = "POST" /\ e.path = <<"events", "drafts", ":", "publish">>
              \/ e.method = "POST" /\ e.path = <<"events", ":", "cancel">>
    BY EventRoutesAre DEF Ga!Route
<1>3. \A e \in EntriesOf(Ga!RegistrationRoutes) :
        \/ Nameless(e)
        \/ /\ e.service = "registration"
           /\ \/ e.method = "GET" /\ e.path = <<"organizer", "events", ":", "registrations">>
              \/ e.method = "GET"
                 /\ e.path = <<"organizer", "events", ":", "registrations", "export">>
              \/ e.method = "POST" /\ e.path = <<"registrations", ":", "cancel">>
              \/ e.method = "GET" /\ e.path = <<"tickets", ":">>
              \/ e.method = "GET" /\ e.path = <<"tickets", ":", "download">>
              \/ e.method = "PATCH" /\ e.path = <<"notifications", ":", "read">>
    BY RegistrationRoutesAre DEF Ga!Route
<1>4. QED
    BY <1>1, <1>2, <1>3, RoutesAre

\* Where a dot segment leads, if it is sent for the name.
LEMMA DotsLead ==
    ASSUME NEW e \in EntriesOf(Ga!RouteTable), NEW x \in Ga!Dots,
           \E i \in DOMAIN e.path : e.path[i] = ":",
           NEW t, t = Ga!Resolved(Ga!Sent(e.path, x)),
           NEW h \in Ga!Matching(Ga!HandlersOf[e.service], e.method, t)
    PROVE  Astray(h, e.method, e.path, t)
<1>1. /\ h \in EntriesOf(Ga!HandlersOf[e.service]) /\ h.method = e.method
      /\ Len(h.path) = Len(t) /\ \A i \in DOMAIN h.path : h.path[i] \in {":", t[i]}
    BY DEF Ga!Matching, EntriesOf, Ga!Fits
<1>2. h.path \in Path /\ DOMAIN h.path = 1 .. Len(h.path)
    <2>1. e.service \in {"identity", "events", "registration"}
        BY NamedRoutes
    <2>2. QED
        BY <1>1, <2>1, HandlersAreProper DEF Proper, Sound, Path
<1>3. x = "." \/ x = ".."
    BY DEF Ga!Dots
<1>4. ASSUME NEW i \in {2, 3}, e.path \in Path, i \in DOMAIN e.path,
             \A j \in DOMAIN e.path : e.path[j] = ":" <=> j = i
      PROVE  /\ x = "." =>
                /\ Len(t) = Len(e.path) - 1
                /\ \A j \in 1 .. i - 1 : t[j] = e.path[j]
                /\ \A j \in 1 .. Len(e.path) - 1 : j > i - 1 => t[j] = e.path[j + 1]
             /\ x = ".." =>
                /\ Len(t) = Len(e.path) - 2
                /\ \A j \in 1 .. i - 2 : t[j] = e.path[j]
                /\ \A j \in 1 .. Len(e.path) - 2 : j > i - 2 => t[j] = e.path[j + 2]
    <2>1. CASE x = "."
        BY <1>4, <2>1, DotTaken, SMTT(30)
    <2>2. CASE x = ".."
        BY <1>4, <2>2, DotTaken
    <2>3. QED
        BY <1>3, <2>1, <2>2
<1>5. CASE e.service = "events"
    <2>1. EventShape(h)
        BY <1>1, <1>5, EventHandlersFit, HandlersOfServices
    <2>2. CASE e.method = "GET" /\ e.path = <<"catalog", "events", ":">>
        <3>0. /\ e.path \in Path /\ Len(e.path) = 3 /\ 3 \in DOMAIN e.path
              /\ \A j \in DOMAIN e.path : e.path[j] = ":" <=> j = 3
            BY <2>2, LongPaths DEF Sound
        <3>a. /\ x = "." => Len(t) = 2 /\ t[1] = e.path[1] /\ t[2] = e.path[2]
              /\ x = ".." => Len(t) = 1 /\ t[1] = e.path[1]
            BY <1>4, <3>0
        <3>1. /\ x = "." => Len(t) = 2 /\ t[1] = "catalog"
              /\ x = ".." => Len(t) = 1
            BY <3>a, <2>2
        <3>2. Len(h.path) = 2 /\ h.path[1] = "catalog"
            BY <1>1, <1>2, <1>3, <2>1, <3>1 DEF EventShape
        <3>3. QED
            BY <2>1, <2>2, <3>2 DEF Astray, Needed, EventShape
    <2>3. CASE e.method \in {"GET", "PATCH", "DELETE"} /\ e.path = <<"events", "drafts", ":">>
        <3>0. /\ e.path \in Path /\ Len(e.path) = 3 /\ 3 \in DOMAIN e.path
              /\ \A j \in DOMAIN e.path : e.path[j] = ":" <=> j = 3
            BY <2>3, LongPaths DEF Sound
        <3>a. /\ x = "." => Len(t) = 2 /\ t[1] = e.path[1] /\ t[2] = e.path[2]
              /\ x = ".." => Len(t) = 1 /\ t[1] = e.path[1]
            BY <1>4, <3>0
        <3>1. /\ x = "." => Len(t) = 2 /\ t[1] = "events" /\ t[2] = "drafts"
              /\ x = ".." => Len(t) = 1
            BY <3>a, <2>3
        <3>2. Len(h.path) = 2 /\ h.path[1] = "events" /\ h.path[2] \in {":", "drafts"}
            BY <1>1, <1>2, <1>3, <2>1, <3>1 DEF EventShape
        <3>3. e.method = "GET" /\ h.path[2] = "drafts"
            BY <1>1, <2>1, <2>3, <3>2 DEF EventShape
        <3>4. QED
            BY <1>1, <2>1, <2>3, <3>2, <3>3 DEF Astray, Needed, EventShape
    <2>4. CASE e.method = "POST" /\ e.path = <<"events", "drafts", ":", "publish">>
        <3>0. /\ e.path \in Path /\ Len(e.path) = 4 /\ 3 \in DOMAIN e.path
              /\ \A j \in DOMAIN e.path : e.path[j] = ":" <=> j = 3
            BY <2>4, LongPaths DEF Sound
        <3>a. /\ x = "." => Len(t) = 3 /\ t[1] = e.path[1] /\ t[2] = e.path[2] /\ t[3] = e.path[4]
              /\ x = ".." => Len(t) = 2 /\ t[1] = e.path[1] /\ t[2] = e.path[4]
            BY <1>4, <3>0
        <3>1. /\ x = "." => Len(t) = 3 /\ t[3] = "publish"
              /\ x = ".." => Len(t) = 2 /\ t[2] = "publish"
            BY <3>a, <2>4
        <3>2. QED
            BY <1>1, <1>2, <1>3, <2>1, <2>4, <3>1 DEF EventShape
    <2>5. CASE e.method = "POST" /\ e.path = <<"events", ":", "cancel">>
        <3>0. /\ e.path \in Path /\ Len(e.path) = 3 /\ 2 \in DOMAIN e.path
              /\ \A j \in DOMAIN e.path : e.path[j] = ":" <=> j = 2
            BY <2>5, LongPaths DEF Sound
        <3>a. /\ x = "." => Len(t) = 2 /\ t[1] = e.path[1] /\ t[2] = e.path[3]
              /\ x = ".." => Len(t) = 1 /\ t[1] = e.path[3]
            BY <1>4, <3>0
        <3>1. /\ x = "." => Len(t) = 2 /\ t[2] = "cancel"
              /\ x = ".." => Len(t) = 1
            BY <3>a, <2>5
        <3>2. QED
            BY <1>1, <1>2, <1>3, <2>1, <2>5, <3>1 DEF EventShape
    <2>6. QED
        BY <1>5, <2>2, <2>3, <2>4, <2>5, NamedRoutes
<1>6. CASE e.service = "registration"
    <2>1. RegistrationShape(h)
        BY <1>1, <1>6, RegistrationHandlersFit, HandlersOfServices
    <2>2. /\ Len(t) >= 1 /\ h.path[1] = t[1]
          /\ t[1] \in {"registrations", "tickets", "notifications", "payments", "profile",
                      "organizer"}
          /\ t[1] = "organizer" => Len(t) = 5 \/ (Len(t) = 4 /\ t[4] = "registrations")
          /\ t[1] = "registrations" => Len(t) = 1 \/ Len(t) = 3
          /\ t[1] = "tickets" => Len(t) = 2 \/ Len(t) = 3
          /\ e.method = "PATCH" => Len(t) = 3
        <3>1. /\ Len(t) >= 1 /\ h.path[1] = t[1]
              /\ t[1] \in {"registrations", "tickets", "notifications", "payments", "profile",
                          "organizer"}
            BY <1>1, <1>2, <2>1 DEF RegistrationShape
        <3>2. t[1] = "organizer" => Len(t) = 5 \/ (Len(t) = 4 /\ t[4] = "registrations")
            <4>1. SUFFICES ASSUME t[1] = "organizer", Len(t) # 5
                           PROVE  Len(t) = 4 /\ t[4] = "registrations"
                OBVIOUS
            <4>2. Len(h.path) = 4 /\ h.path[4] = "registrations"
                BY <1>1, <2>1, <3>1, <4>1 DEF RegistrationShape
            <4>3. h.path[4] \in {":", t[4]}
                BY <1>1, <1>2, <4>2
            <4>4. QED
                BY <1>1, <4>2, <4>3
        <3>3. QED
            BY <1>1, <2>1, <3>1, <3>2 DEF RegistrationShape
    <2>3. CASE e.method = "GET" /\ e.path = <<"organizer", "events", ":", "registrations">>
        <3>0. /\ e.path \in Path /\ Len(e.path) = 4 /\ 3 \in DOMAIN e.path
              /\ \A j \in DOMAIN e.path : e.path[j] = ":" <=> j = 3
            BY <2>3, LongPaths DEF Sound
        <3>a. /\ x = "." => Len(t) = 3 /\ t[1] = e.path[1] /\ t[2] = e.path[2] /\ t[3] = e.path[4]
              /\ x = ".." => Len(t) = 2 /\ t[1] = e.path[1] /\ t[2] = e.path[4]
            BY <1>4, <3>0
        <3>1. /\ x = "." => Len(t) = 3 /\ t[1] = "organizer"
              /\ x = ".." => Len(t) = 2 /\ t[1] = "organizer"
            BY <3>a, <2>3
        <3>2. ASSUME x = "." PROVE FALSE
            BY <2>2, <3>1, <3>2
        <3>3. ASSUME x = ".." PROVE FALSE
            BY <2>2, <3>1, <3>3
        <3>4. QED
            BY <1>3, <3>2, <3>3
    <2>4. CASE e.method = "GET"
               /\ e.path = <<"organizer", "events", ":", "registrations", "export">>
        <3>0. /\ e.path \in Path /\ Len(e.path) = 5 /\ 3 \in DOMAIN e.path
              /\ \A j \in DOMAIN e.path : e.path[j] = ":" <=> j = 3
            BY <2>4, LongPaths DEF Sound
        <3>a. /\ x = "." => Len(t) = 4 /\ t[1] = e.path[1] /\ t[2] = e.path[2]
                            /\ t[3] = e.path[4] /\ t[4] = e.path[5]
              /\ x = ".." => Len(t) = 3 /\ t[1] = e.path[1] /\ t[2] = e.path[4] /\ t[3] = e.path[5]
            BY <1>4, <3>0
        <3>1. /\ x = "." => Len(t) = 4 /\ t[1] = "organizer" /\ t[4] = "export"
              /\ x = ".." => Len(t) = 3 /\ t[1] = "organizer"
            BY <3>a, <2>4
        <3>2. ASSUME x = "." PROVE FALSE
            BY <2>2, <3>1, <3>2
        <3>3. ASSUME x = ".." PROVE FALSE
            BY <2>2, <3>1, <3>3
        <3>4. QED
            BY <1>3, <3>2, <3>3
    <2>5. CASE e.method = "POST" /\ e.path = <<"registrations", ":", "cancel">>
        <3>0. /\ e.path \in Path /\ Len(e.path) = 3 /\ 2 \in DOMAIN e.path
              /\ \A j \in DOMAIN e.path : e.path[j] = ":" <=> j = 2
            BY <2>5, LongPaths DEF Sound
        <3>a. /\ x = "." => Len(t) = 2 /\ t[1] = e.path[1] /\ t[2] = e.path[3]
              /\ x = ".." => Len(t) = 1 /\ t[1] = e.path[3]
            BY <1>4, <3>0
        <3>1. /\ x = "." => Len(t) = 2 /\ t[1] = "registrations"
              /\ x = ".." => Len(t) = 1 /\ t[1] = "cancel"
            BY <3>a, <2>5
        <3>2. ASSUME x = "." PROVE FALSE
            <4>1. Len(t) = 2 /\ t[1] = "registrations"
                BY <3>1, <3>2
            <4>2. Len(t) = 1 \/ Len(t) = 3
                BY <2>2, <4>1
            <4>3. QED
                BY <4>1, <4>2
        <3>3. ASSUME x = ".." PROVE FALSE
            BY <2>2, <3>1, <3>3
        <3>4. QED
            BY <1>3, <3>2, <3>3
    <2>6. CASE e.method = "GET" /\ e.path = <<"tickets", ":">>
        <3>0. /\ e.path \in Path /\ Len(e.path) = 2 /\ 2 \in DOMAIN e.path
              /\ \A j \in DOMAIN e.path : e.path[j] = ":" <=> j = 2
            BY <2>6, LongPaths DEF Sound
        <3>a. /\ x = "." => Len(t) = 1 /\ t[1] = e.path[1]
              /\ x = ".." => Len(t) = 0
            BY <1>4, <3>0
        <3>1. /\ x = "." => Len(t) = 1 /\ t[1] = "tickets"
              /\ x = ".." => Len(t) = 0
            BY <3>a, <2>6
        <3>2. ASSUME x = "." PROVE FALSE
            BY <2>2, <3>1, <3>2, SMTT(30)
        <3>3. ASSUME x = ".." PROVE FALSE
            BY <2>2, <3>1, <3>3
        <3>4. QED
            BY <1>3, <3>2, <3>3
    <2>7. CASE e.method = "GET" /\ e.path = <<"tickets", ":", "download">>
        <3>0. /\ e.path \in Path /\ Len(e.path) = 3 /\ 2 \in DOMAIN e.path
              /\ \A j \in DOMAIN e.path : e.path[j] = ":" <=> j = 2
            BY <2>7, LongPaths DEF Sound
        <3>a. /\ x = "." => Len(t) = 2 /\ t[1] = e.path[1] /\ t[2] = e.path[3]
              /\ x = ".." => Len(t) = 1 /\ t[1] = e.path[3]
            BY <1>4, <3>0
        <3>1. /\ x = "." => Len(t) = 2 /\ t[1] = "tickets" /\ t[2] = "download"
              /\ x = ".." => Len(t) = 1 /\ t[1] = "download"
            BY <3>a, <2>7
        <3>2. Len(h.path) = 2 /\ h.path[1] = "tickets" /\ t[2] # "it"
            BY <1>1, <1>3, <2>2, <3>1
        <3>3. QED
            BY <2>1, <2>7, <3>2 DEF Astray, Needed, RegistrationShape
    <2>8. CASE e.method = "PATCH" /\ e.path = <<"notifications", ":", "read">>
        <3>0. /\ e.path \in Path /\ Len(e.path) = 3 /\ 2 \in DOMAIN e.path
              /\ \A j \in DOMAIN e.path : e.path[j] = ":" <=> j = 2
            BY <2>8, LongPaths DEF Sound
        <3>a. /\ x = "." => Len(t) = 2 /\ t[1] = e.path[1] /\ t[2] = e.path[3]
              /\ x = ".." => Len(t) = 1 /\ t[1] = e.path[3]
            BY <1>4, <3>0
        <3>1. Len(t) = 1 \/ Len(t) = 2
            BY <1>3, <3>a
        <3>2. Len(t) = 3
            BY <2>2, <2>8
        <3>3. FALSE
            BY <3>1, <3>2
        <3>4. QED
            BY <3>3
    <2>9. QED
        BY <1>6, <2>3, <2>4, <2>5, <2>6, <2>7, <2>8, NamedRoutes
<1>7. QED
    BY <1>5, <1>6, NamedRoutes

-----------------------------------------------------------------------------
(***************************************************************************)
(* The calls of the gateway                                                *)
(***************************************************************************)
HasRoute(c) ==
    c = Ga!Call(c.method, c.path) /\ Known(c.method, c.path, EntriesOf(Ga!RouteTable))

LEMMA CallsWithRoute ==
    \A m, p : Known(m, p, EntriesOf(Ga!IdentityRoutes)) \/ Known(m, p, EntriesOf(Ga!EventRoutes))
              \/ Known(m, p, EntriesOf(Ga!RegistrationRoutes))
        => HasRoute(Ga!Call(m, p))
BY RoutesAre DEF Known, HasRoute, Ga!Call

LEMMA FrontendIsRouted == \A c \in Ga!FrontendCalls : HasRoute(c)
<1>1. \A a \in {"login", "refresh", "register", "forgot-password", "reset-password"} :
          HasRoute(Ga!Call("POST", <<"auth", a>>))
    BY IdentityRoutesAre, RoutesKnown, CallsWithRoute
<1>2. /\ HasRoute(Ga!Call("GET", <<"auth", "me">>))
      /\ HasRoute(Ga!Call("GET", <<"admin", "users">>))
    BY IdentityRoutesAre, RoutesKnown, CallsWithRoute
<1>3. /\ HasRoute(Ga!Call("GET", <<"catalog", "events">>))
      /\ HasRoute(Ga!Call("GET", <<"catalog", "events", ":">>))
      /\ HasRoute(Ga!Call("GET", <<"events", "me">>))
      /\ HasRoute(Ga!Call("POST", <<"events", "drafts">>))
      /\ HasRoute(Ga!Call("POST", <<"events", "drafts", ":", "publish">>))
      /\ HasRoute(Ga!Call("POST", <<"events", ":", "cancel">>))
    BY EventRoutesAre, RoutesKnown, CallsWithRoute
<1>4. /\ HasRoute(Ga!Call("POST", <<"registrations">>))
      /\ HasRoute(Ga!Call("GET", <<"profile", "participations">>))
      /\ HasRoute(Ga!Call("POST", <<"registrations", ":", "cancel">>))
      /\ HasRoute(Ga!Call("GET", <<"organizer", "events", ":", "registrations">>))
      /\ HasRoute(Ga!Call("GET", <<"organizer", "events", ":", "registrations", "export">>))
      /\ HasRoute(Ga!Call("GET", <<"tickets", ":", "download">>))
    BY RegistrationRoutesAre, RoutesKnown, CallsWithRoute
<1>5. \A m \in {"GET", "PATCH", "DELETE"} : HasRoute(Ga!Call(m, <<"events", "drafts", ":">>))
    BY EventRoutesAre, RoutesKnown, CallsWithRoute
<1>6. QED
    BY <1>1, <1>2, <1>3, <1>4, <1>5 DEF Ga!FrontendCalls

Unrouted ==
    {Ga!Call("POST", <<"events", "drafts", ":", "media">>),
     Ga!Call("POST", <<"notifications", "emit">>)}

LEMMA CallsAre ==
    \A c \in Ga!Calls :
        /\ c = Ga!Call(c.method, c.path) /\ c.path \in Path /\ Regular(c.path)
        /\ HasRoute(c) \/ c \in Unrouted
<1>1. \A i \in DOMAIN Ga!RouteTable :
          HasRoute(Ga!Call(Ga!RouteTable[i].method, Ga!RouteTable[i].path))
    BY DEF HasRoute, Ga!Call, Known, EntriesOf
<1>2. \A c \in Ga!Calls : HasRoute(c) \/ c \in Unrouted
    BY <1>1, FrontendIsRouted DEF Ga!Calls, Unrouted
<1>3. \A c : HasRoute(c) => c = Ga!Call(c.method, c.path) /\ Sound(c.path)
    BY RoutesAreProper DEF HasRoute, Known, Proper
<1>4. \A c \in Unrouted : c = Ga!Call(c.method, c.path) /\ Sound(c.path)
    <2>1. Sound(<<"notifications", "emit">>)
        BY ShortPaths, WordsAreWords
    <2>2. QED
        BY <2>1, LongPaths DEF Unrouted, Ga!Call
<1>5. QED
    BY <1>2, <1>3, <1>4 DEF Sound

-----------------------------------------------------------------------------
(***************************************************************************)
(* What is right, case by case                                             *)
(***************************************************************************)
Reads(call, word) == call.method = "GET" /\ call.path[1] = word

LEMMA RightIs ==
    ASSUME NEW call, NEW who, NEW x
    PROVE  /\ call.method # "GET" /\ call # Ga!Call("PATCH", <<"notifications", ":", "read">>)
                => Ga!Right(call, who, x) = {}
           /\ Reads(call, "catalog") =>
                Ga!Right(call, who, x) = {e \in Ga!Visible : x \in {"nothing", e} \cup Ga!Dots}
           /\ Reads(call, "events") =>
                Ga!Right(call, who, x) =
                    {e \in Ga!There : /\ Ga!CanAccess(who, e)
                                      /\ x \in {"nothing", e} \cup Ga!Dots
                                      /\ call.path = <<"events", "drafts">>
                                            => offers[e].status = "DRAFT"}
           /\ Reads(call, "tickets") => Ga!Right(call, who, x) = Ga!TicketOf(who, x)
           /\ Reads(call, "profile") => Ga!Right(call, who, x) = Ga!ListParticipations(who)
           /\ Reads(call, "notifications") => Ga!Right(call, who, x) = Ga!ListNotifications(who)
           /\ Reads(call, "organizer") =>
                Ga!Right(call, who, x) =
                    {r \in Ga!ListEventRegistrations(x) : Ga!CanAccess(who, x)}
           /\ /\ call.method = "GET"
              /\ \/ call.path[1] \notin {"auth", "admin", "catalog", "events", "tickets",
                                         "profile", "notifications", "organizer"}
                 \/ call.path[1] = "auth" /\ call.path # <<"auth", "me">>
              => Ga!Right(call, who, x) = {}
<1>1. call = Ga!Call("PATCH", <<"notifications", ":", "read">>) => call.method = "PATCH"
    BY DEF Ga!Call
<1>2. ASSUME NEW p, p = <<"auth", "me">> PROVE p[1] = "auth"
    BY <1>2
<1>3. ASSUME NEW p, p = <<"admin", "users">> \/ p = <<"admin", "events">> PROVE p[1] = "admin"
    BY <1>3
<1>4. call.method # "GET" /\ call # Ga!Call("PATCH", <<"notifications", ":", "read">>)
        => Ga!Right(call, who, x) = {}
    BY DEF Ga!Right
<1>5. Reads(call, "catalog") =>
                Ga!Right(call, who, x) = {e \in Ga!Visible : x \in {"nothing", e} \cup Ga!Dots}
    BY <1>1, <1>2, <1>3 DEF Ga!Right, Reads, Ga!Visible
<1>6. Reads(call, "events") =>
                Ga!Right(call, who, x) =
                    {e \in Ga!There : /\ Ga!CanAccess(who, e)
                                      /\ x \in {"nothing", e} \cup Ga!Dots
                                      /\ call.path = <<"events", "drafts">>
                                            => offers[e].status = "DRAFT"}
    BY <1>1, <1>2, <1>3 DEF Ga!Right, Reads, Ga!There, Ga!CanAccess, Ga!Owns
<1>7. Reads(call, "tickets") => Ga!Right(call, who, x) = Ga!TicketOf(who, x)
    BY <1>1, <1>2, <1>3 DEF Ga!Right, Reads, Ga!TicketOf
<1>8. Reads(call, "profile") => Ga!Right(call, who, x) = Ga!ListParticipations(who)
    BY <1>1, <1>2, <1>3 DEF Ga!Right, Reads, Ga!ListParticipations
<1>9. Reads(call, "notifications") => Ga!Right(call, who, x) = Ga!ListNotifications(who)
    BY <1>1, <1>2, <1>3 DEF Ga!Right, Reads, Ga!ListNotifications
<1>10. Reads(call, "organizer") =>
                Ga!Right(call, who, x) =
                    {r \in Ga!ListEventRegistrations(x) : Ga!CanAccess(who, x)}
    BY <1>1, <1>2, <1>3 DEF Ga!Right, Reads, Ga!ListEventRegistrations, Ga!CanAccess, Ga!Owns
<1>11. ASSUME \/ call.path[1] \notin {"auth", "admin", "catalog", "events", "tickets", "profile",
                                      "notifications", "organizer"}
              \/ call.path[1] = "auth" /\ call.path # <<"auth", "me">>,
              call.method = "GET"
       PROVE  Ga!Right(call, who, x) = {}
    BY <1>1, <1>2, <1>3, <1>11 DEF Ga!Right
<1>12. QED
    BY <1>4, <1>5, <1>6, <1>7, <1>8, <1>9, <1>10, <1>11

LEMMA RightOfAdmins ==
    ASSUME NEW who, NEW x
    PROVE  /\ Ga!Right(Ga!Call("GET", <<"auth", "me">>), who, x) = {u \in {who} : session}
           /\ Ga!Right(Ga!Call("GET", <<"admin", "users">>), who, x)
                = {u \in Ga!People : who = Admin /\ session}
           /\ Ga!Right(Ga!Call("GET", <<"admin", "events">>), who, x)
                = {e \in Ga!There : who = Admin}
           /\ Ga!Right(Ga!Call("PATCH", <<"notifications", ":", "read">>), who, x)
                = Ga!ListNotifications(who) \cap {x}
<1>1. Ga!Right(Ga!Call("GET", <<"auth", "me">>), who, x) = {u \in {who} : session}
    BY DEF Ga!Right, Ga!Call
<1>2. Ga!Right(Ga!Call("GET", <<"admin", "users">>), who, x)
                = {u \in Ga!People : who = Admin /\ session}
    BY DEF Ga!Right, Ga!Call
<1>3. Ga!Right(Ga!Call("GET", <<"admin", "events">>), who, x)
                = {e \in Ga!There : who = Admin}
    BY DEF Ga!Right, Ga!Call, Ga!There
<1>4. Ga!Right(Ga!Call("PATCH", <<"notifications", ":", "read">>), who, x)
                = Ga!ListNotifications(who) \cap {x}
    BY DEF Ga!Right, Ga!Call, Ga!ListNotifications
<1>5. QED
    BY <1>1, <1>2, <1>3, <1>4

\* The caller has a role that is asked for.
May(who, roles) == roles = Ga!Public \/ (who \in Ga!People /\ Ga!Role[who] \in roles)

\* A handler that is asked for an id, or for none, shows what is right to those who may call
\* it, at once or after a second look.
Honest(e) ==
    \A who : \A x \in Ga!Things(Ga!Call(e.method, e.path)) \ Ga!NoIds :
        May(who, e.roles) =>
            /\ e.does = "me" => e.method = "GET" /\ e.path = <<"auth", "me">>
            /\ e.does = "users" => e.method = "GET" /\ e.path = <<"admin", "users">> /\ who = Admin
            /\ e.does = "rows" => Reads(e, "organizer") /\ x \in Ga!Events
            /\ e.does \notin {"me", "users", "rows"} =>
                    Ga!Shown(e.does, who, x) = Ga!Right(Ga!Call(e.method, e.path), who, x)

LEMMA RolesAre ==
    /\ \A who : May(who, Ga!Administrators) => who = Admin
    /\ \A who : May(who, Ga!Organizers) => who \in {Organizer, Admin}
BY DEF May, Ga!Administrators, Ga!Organizers, Ga!Role, Ga!People, Ga!Public

LEMMA WritesAreHonest ==
    \A m, p, r : m # "GET" /\ Ga!Call(m, p) # Ga!Call("PATCH", <<"notifications", ":", "read">>)
        => Honest(Ga!Handler(m, p, r, "write"))
<1> SUFFICES ASSUME NEW m, NEW p, NEW r, m # "GET",
                    Ga!Call(m, p) # Ga!Call("PATCH", <<"notifications", ":", "read">>)
             PROVE  Honest(Ga!Handler(m, p, r, "write"))
    OBVIOUS
<1>1. Ga!Call(m, p).method # "GET"
    BY DEF Ga!Call
<1>2. \A who, x : Ga!Right(Ga!Call(m, p), who, x) = {}
    BY <1>1, RightIs
<1>3. \A who, x : Ga!Shown("write", who, x) = {}
    BY DEF Ga!Shown
<1>4. QED
    BY <1>2, <1>3 DEF Honest, Ga!Handler

LEMMA Named ==
    \A m : \A p \in Path :
        (\E i \in DOMAIN p : p[i] = ":") =>
            Ga!Things(Ga!Call(m, p)) \subseteq Ga!NoIds \cup
                IF p[1] = "tickets" \/ p[1] = "registrations" THEN Rows
                ELSE IF p[1] = "notifications" THEN Notices ELSE Ga!Events
BY DEF Ga!Things, Ga!Call

LEMMA IdentityHandlersAreHonest == \A e \in EntriesOf(Ga!IdentityHandlers) : Honest(e)
<1>1. Honest(Ga!Handler("GET", <<"auth", "me">>, Ga!Everyone, "me"))
    BY DEF Honest, Ga!Handler
<1>2. Honest(Ga!Handler("GET", <<"admin", "users">>, Ga!Administrators, "users"))
    BY RolesAre DEF Honest, Ga!Handler
<1>3. /\ Honest(Ga!Handler("POST", <<"auth", "register">>, Ga!Public, "write"))
      /\ Honest(Ga!Handler("POST", <<"auth", "login">>, Ga!Public, "write"))
      /\ Honest(Ga!Handler("POST", <<"auth", "refresh">>, Ga!Public, "write"))
      /\ Honest(Ga!Handler("POST", <<"auth", "forgot-password">>, Ga!Public, "write"))
      /\ Honest(Ga!Handler("POST", <<"auth", "reset-password">>, Ga!Public, "write"))
    BY WritesAreHonest DEF Ga!Call
<1>4. QED
    BY IdentityHandlersAre, <1>1, <1>2, <1>3

LEMMA EventHandlersAreHonest == \A e \in EntriesOf(Ga!EventHandlers) : Honest(e)
<1>1. Honest(Ga!Handler("GET", <<"catalog", "events">>, Ga!Public, "catalog"))
    <2> DEFINE call == Ga!Call("GET", <<"catalog", "events">>)
    <2> SUFFICES ASSUME NEW who, NEW x \in Ga!Things(call) \ Ga!NoIds, May(who, Ga!Public)
                 PROVE  Ga!Shown("catalog", who, x) = Ga!Right(call, who, x)
        BY DEF Honest, Ga!Handler
    <2>1. x = "nothing"
        BY DEF Ga!Things, Ga!Call
    <2>2. call.path = <<"catalog", "events">> /\ Reads(call, "catalog")
        BY DEF Ga!Call, Reads
    <2>3. QED
        BY <2>1, <2>2, RightIs DEF Ga!Shown, Ga!Visible
<1>2. Honest(Ga!Handler("GET", <<"catalog", "events", ":">>, Ga!Public, "public event"))
    <2> DEFINE call == Ga!Call("GET", <<"catalog", "events", ":">>)
    <2> SUFFICES ASSUME NEW who, NEW x \in Ga!Things(call) \ Ga!NoIds, May(who, Ga!Public)
                 PROVE  Ga!Shown("public event", who, x) = Ga!Right(call, who, x)
        BY DEF Honest, Ga!Handler
    <2>1. x \in Ga!Events
        BY Named, LongPaths DEF Sound
    <2>2. call.path = <<"catalog", "events", ":">> /\ Reads(call, "catalog")
        BY DEF Ga!Call, Reads
    <2>3. QED
        BY <2>1, <2>2, RightIs, PlatformAssumption DEF Ga!Shown, Ga!Visible, Ga!GatewayAssumption, Ga!NoIds
<1>3. Honest(Ga!Handler("GET", <<"admin", "events">>, Ga!Administrators, "managed"))
    <2> DEFINE call == Ga!Call("GET", <<"admin", "events">>)
    <2> SUFFICES ASSUME NEW who, NEW x \in Ga!Things(call) \ Ga!NoIds, May(who, Ga!Administrators)
                 PROVE  Ga!Shown("managed", who, x) = Ga!Right(call, who, x)
        BY DEF Honest, Ga!Handler
    <2>1. x = "nothing"
        BY DEF Ga!Things, Ga!Call
    <2>2. QED
        BY RolesAre, RightOfAdmins DEF Ga!Shown, Ga!ListManagedEvents, Ga!CanAccess
<1>4. Honest(Ga!Handler("GET", <<"events", "drafts">>, Ga!Organizers, "drafts"))
    <2> DEFINE call == Ga!Call("GET", <<"events", "drafts">>)
    <2> SUFFICES ASSUME NEW who, NEW x \in Ga!Things(call) \ Ga!NoIds, May(who, Ga!Organizers)
                 PROVE  Ga!Shown("drafts", who, x) = Ga!Right(call, who, x)
        BY DEF Honest, Ga!Handler
    <2>1. x = "nothing"
        BY DEF Ga!Things, Ga!Call
    <2>2. call.path = <<"events", "drafts">> /\ Reads(call, "events")
        BY DEF Ga!Call, Reads
    <2>3. QED
        BY <2>1, <2>2, RightIs DEF Ga!Shown, Ga!ListDrafts
<1>5. Honest(Ga!Handler("GET", <<"events", "me">>, Ga!Organizers, "managed"))
    <2> DEFINE call == Ga!Call("GET", <<"events", "me">>)
    <2> SUFFICES ASSUME NEW who, NEW x \in Ga!Things(call) \ Ga!NoIds, May(who, Ga!Organizers)
                 PROVE  Ga!Shown("managed", who, x) = Ga!Right(call, who, x)
        BY DEF Honest, Ga!Handler
    <2>1. x = "nothing"
        BY DEF Ga!Things, Ga!Call
    <2>2. call.path = <<"events", "me">> /\ Reads(call, "events")
        BY DEF Ga!Call, Reads
    <2>3. QED
        BY <2>1, <2>2, RightIs DEF Ga!Shown, Ga!ListManagedEvents
<1>6. Honest(Ga!Handler("GET", <<"events", "drafts", ":">>, Ga!Organizers, "event"))
    <2> DEFINE call == Ga!Call("GET", <<"events", "drafts", ":">>)
    <2> SUFFICES ASSUME NEW who, NEW x \in Ga!Things(call) \ Ga!NoIds, May(who, Ga!Organizers)
                 PROVE  Ga!Shown("event", who, x) = Ga!Right(call, who, x)
        BY DEF Honest, Ga!Handler
    <2>1. x \in Ga!Events
        BY Named, LongPaths DEF Sound
    <2>2. call.path = <<"events", "drafts", ":">> /\ Reads(call, "events")
        BY DEF Ga!Call, Reads
    <2>3. QED
        BY <2>1, <2>2, RightIs, PlatformAssumption DEF Ga!Shown, Ga!EventDetails, Ga!There,
           Ga!GatewayAssumption, Ga!NoIds
<1>7. /\ Honest(Ga!Handler("POST", <<"events", "drafts">>, Ga!Organizers, "write"))
      /\ Honest(Ga!Handler("PATCH", <<"events", "drafts", ":">>, Ga!Organizers, "write"))
      /\ Honest(Ga!Handler("DELETE", <<"events", "drafts", ":">>, Ga!Organizers, "write"))
      /\ Honest(Ga!Handler("POST", <<"events", "drafts", ":", "publish">>, Ga!Organizers, "write"))
      /\ Honest(Ga!Handler("POST", <<"events", ":", "cancel">>, Ga!Organizers, "write"))
      /\ Honest(Ga!Handler("POST", <<"events", "drafts", ":", "media">>, Ga!Organizers, "write"))
      /\ Honest(Ga!Handler("DELETE", <<"events", "drafts", ":", "media">>, Ga!Organizers, "write"))
    BY WritesAreHonest DEF Ga!Call
<1>8. QED
    BY EventHandlersAre, <1>1, <1>2, <1>3, <1>4, <1>5, <1>6, <1>7

LEMMA RegistrationHandlersAreHonest == \A e \in EntriesOf(Ga!RegistrationHandlers) : Honest(e)
<1>1. Honest(Ga!Handler("GET", <<"tickets", ":">>, Ga!Participants, "ticket"))
    <2> DEFINE call == Ga!Call("GET", <<"tickets", ":">>)
    <2> SUFFICES ASSUME NEW who, NEW x \in Ga!Things(call) \ Ga!NoIds, May(who, Ga!Participants)
                 PROVE  Ga!Shown("ticket", who, x) = Ga!Right(call, who, x)
        BY DEF Honest, Ga!Handler
    <2>1. x \in Rows
        BY Named, LongPaths DEF Sound
    <2>2. call.path = <<"tickets", ":">> /\ Reads(call, "tickets")
        BY DEF Ga!Call, Reads
    <2>3. QED
        BY <2>1, <2>2, RightIs DEF Ga!Shown
<1>2. Honest(Ga!Handler("GET", <<"tickets", ":", "download">>, Ga!Participants, "download"))
    <2> DEFINE call == Ga!Call("GET", <<"tickets", ":", "download">>)
    <2> SUFFICES ASSUME NEW who, NEW x \in Ga!Things(call) \ Ga!NoIds, May(who, Ga!Participants)
                 PROVE  Ga!Shown("download", who, x) = Ga!Right(call, who, x)
        BY DEF Honest, Ga!Handler
    <2>1. x \in Rows
        BY Named, LongPaths DEF Sound
    <2>2. call.path = <<"tickets", ":", "download">> /\ Reads(call, "tickets")
        BY DEF Ga!Call, Reads
    <2>3. QED
        BY <2>1, <2>2, RightIs DEF Ga!Shown
<1>3. Honest(Ga!Handler("GET", <<"notifications">>, Ga!Everyone, "notices"))
    <2> DEFINE call == Ga!Call("GET", <<"notifications">>)
    <2> SUFFICES ASSUME NEW who, NEW x \in Ga!Things(call) \ Ga!NoIds, May(who, Ga!Everyone)
                 PROVE  Ga!Shown("notices", who, x) = Ga!Right(call, who, x)
        BY DEF Honest, Ga!Handler
    <2>1. x = "nothing"
        BY DEF Ga!Things, Ga!Call
    <2>2. call.path = <<"notifications">> /\ Reads(call, "notifications")
        BY DEF Ga!Call, Reads
    <2>3. QED
        BY <2>1, <2>2, RightIs DEF Ga!Shown
<1>4. Honest(Ga!Handler("PATCH", <<"notifications", ":", "read">>, Ga!Everyone, "read notice"))
    <2> DEFINE call == Ga!Call("PATCH", <<"notifications", ":", "read">>)
    <2> SUFFICES ASSUME NEW who, NEW x \in Ga!Things(call) \ Ga!NoIds, May(who, Ga!Everyone)
                 PROVE  Ga!Shown("read notice", who, x) = Ga!Right(call, who, x)
        BY DEF Honest, Ga!Handler
    <2>1. x \in Notices
        BY Named, LongPaths DEF Sound
    <2>2. QED
        BY RightOfAdmins DEF Ga!Shown
<1>5. Honest(Ga!Handler("GET", <<"profile", "participations">>, Ga!Participants, "participations"))
    <2> DEFINE call == Ga!Call("GET", <<"profile", "participations">>)
    <2> SUFFICES ASSUME NEW who, NEW x \in Ga!Things(call) \ Ga!NoIds, May(who, Ga!Participants)
                 PROVE  Ga!Shown("participations", who, x) = Ga!Right(call, who, x)
        BY DEF Honest, Ga!Handler
    <2>1. x = "nothing"
        BY DEF Ga!Things, Ga!Call
    <2>2. call.path = <<"profile", "participations">> /\ Reads(call, "profile")
        BY DEF Ga!Call, Reads
    <2>3. QED
        BY <2>1, <2>2, RightIs DEF Ga!Shown
<1>6. Honest(Ga!Handler("GET", <<"organizer", "events", ":", "registrations">>, Ga!Organizers, "rows"))
    <2>1. Ga!Things(Ga!Call("GET", <<"organizer", "events", ":", "registrations">>)) \ Ga!NoIds
            \subseteq Ga!Events
        BY Named, LongPaths DEF Sound
    <2>2. QED
        BY <2>1 DEF Honest, Ga!Handler, Reads
<1>7. Honest(Ga!Handler("GET", <<"organizer", "events", ":", "registrations", "export">>,
                        Ga!Organizers, "rows"))
    <2>1. Ga!Things(Ga!Call("GET", <<"organizer", "events", ":", "registrations", "export">>))
            \ Ga!NoIds \subseteq Ga!Events
        BY Named, LongPaths DEF Sound
    <2>2. QED
        BY <2>1 DEF Honest, Ga!Handler, Reads
<1>8. /\ Honest(Ga!Handler("POST", <<"registrations">>, Ga!Participants, "write"))
      /\ Honest(Ga!Handler("POST", <<"registrations", ":", "cancel">>, Ga!Participants, "write"))
      /\ Honest(Ga!Handler("POST", <<"notifications", "emit">>, Ga!Organizers, "write"))
      /\ Honest(Ga!Handler("POST", <<"notifications", "event">>, Ga!Organizers, "write"))
      /\ Honest(Ga!Handler("POST", <<"payments", "session">>, Ga!Participants, "write"))
      /\ Honest(Ga!Handler("POST", <<"payments", "webhook">>, Ga!Public, "write"))
    BY WritesAreHonest DEF Ga!Call
<1>9. QED
    BY RegistrationHandlersAre, <1>1, <1>2, <1>3, <1>4, <1>5, <1>6, <1>7, <1>8

LEMMA HandlersAreHonest ==
    \A s \in {"identity", "events", "registration"} :
        \A e \in EntriesOf(Ga!HandlersOf[s]) : Honest(e)
BY HandlersOfServices, IdentityHandlersAreHonest, EventHandlersAreHonest,
   RegistrationHandlersAreHonest

\* Who has none of the roles that a call needs has no right to see anything.
LEMMA RefusedSeesNothing ==
    ASSUME NEW m, NEW p, NEW who \in Ga!People, NEW x,
           Needed(m, p) # Ga!Public, Ga!Role[who] \notin Needed(m, p)
    PROVE  Ga!Right(Ga!Call(m, p), who, x) = {}
<1> DEFINE c == Ga!Call(m, p)
<1>1. c.method = m /\ c.path = p
    BY DEF Ga!Call
<1>2. Ga!Role[who] \in {"PARTICIPANT", "ORGANIZER", "ADMIN"}
    BY DEF Ga!Role
<1>3. c # Ga!Call("PATCH", <<"notifications", ":", "read">>)
    <2>1. ASSUME m = "PATCH", p = <<"notifications", ":", "read">> PROVE FALSE
        BY <2>1, <1>2 DEF Needed, Ga!Everyone
    <2>2. QED
        BY <1>1, <2>1 DEF Ga!Call
<1>4. CASE m # "GET"
    BY <1>1, <1>3, <1>4, RightIs
<1>5. CASE m = "GET"
    <2>1. p[1] # "catalog" /\ p[1] # "notifications"
        BY <1>2, <1>5 DEF Needed, Ga!Everyone
    <2>2. CASE p[1] = "auth"
        <3>1. p # <<"auth", "me">>
            BY <1>2 DEF Needed, Ga!Everyone
        <3>2. QED
            BY <1>1, <1>5, <2>2, <3>1, RightIs
    <2>3. CASE p[1] = "admin"
        <3>1. who # Admin
            BY <2>3 DEF Needed, Ga!Administrators, Ga!Role
        <3>2. p # <<"auth", "me">>
            BY <2>3
        <3>3. QED
            BY <1>1, <1>3, <1>5, <2>3, <3>1, <3>2 DEF Ga!Right, Ga!Call
    <2>4. CASE p[1] \in {"events", "organizer"}
        <3>1. \A y : ~Ga!CanAccess(who, y)
            BY <2>4 DEF Needed, Ga!Organizers, Ga!Role, Ga!CanAccess
        <3>2. QED
            BY <1>1, <1>5, <2>4, <3>1, RightIs DEF Reads
    <2>5. CASE p[1] \in {"tickets", "profile"}
        <3>1. who \in {Organizer, Admin}
            BY <2>5 DEF Needed, Ga!Participants, Ga!Role, Ga!Public
        <3>2. \A r \in Rows : Holder[r] # who
            BY <3>1, PlatformAssumption DEF Ga!GatewayAssumption
        <3>3. Ga!TicketOf(who, x) = {} /\ Ga!ListParticipations(who) = {}
            BY <3>2 DEF Ga!TicketOf, Ga!ListParticipations
        <3>4. QED
            BY <1>1, <1>5, <2>5, <3>3, RightIs DEF Reads
    <2>6. CASE p[1] \notin {"auth", "admin", "catalog", "events", "tickets", "profile",
                            "notifications", "organizer"}
        BY <1>1, <1>5, <2>6, RightIs
    <2>7. QED
        BY <2>1, <2>2, <2>3, <2>4, <2>5, <2>6
<1>6. QED
    BY <1>4, <1>5

-----------------------------------------------------------------------------
(***************************************************************************)
(* Gateway: a request on its way                                           *)
(***************************************************************************)

\* A request, whatever it is about.
Asking(q) == [who : {q.who}, call : {q.call}, about : {q.about},
              stage : {"idle", "gateway", "service", "reading", "answered"},
              service : {q.service}, target : {q.target}, named : BOOLEAN,
              served : {q.served}, does : {q.does}, answer : {q.answer}, items : {q.items},
              trouble : BOOLEAN]

\* Only those who have signed in have a token.
AskedWell ==
    /\ request \in Asking(request)
    /\ request.stage # "idle" =>
        /\ request.call \in Ga!Calls
        /\ request.about \in Ga!Things(request.call)
        /\ request.about \in Ga!NoIds => always = {}
        /\ token => request.who \in Ga!People

\* A registration is for an event that was published.
RowsHaveEvents ==
    /\ offers \in [Ga!Events -> [status : {"DRAFT", "PUBLISHED", "CANCELLED", "DELETED"},
                                 public : BOOLEAN]]
    /\ passes = [r \in Rows |-> passes[r]]
    /\ \A r \in Rows : passes[r] # "NONE" => offers[EventOf[r]].status \in {"PUBLISHED", "CANCELLED"}

\* What is right is known while the request is on its way.
RightKept ==
    request.stage \in {"gateway", "service", "reading"} =>
        /\ always \subseteq Ga!Right(request.call, request.who, request.about)
        /\ Ga!Right(request.call, request.who, request.about) \subseteq ever

\* The gateway has looked at the role, and at the service that has a handler.
LedOn ==
    request.stage = "service" =>
        /\ May(request.who, Needed(request.call.method, request.call.path))
        /\ request.service \in {"identity", "events", "registration"}
        /\ Known(request.call.method, request.call.path, EntriesOf(Ga!HandlersOf[request.service]))
        /\ request.named = (Needed(request.call.method, request.call.path) # Ga!Public)
        /\ request.about # "%"
        /\ IF request.about \in Ga!NoIds
           THEN \A h \in Ga!Matching(Ga!HandlersOf[request.service], request.call.method,
                                     request.target) :
                    Astray(h, request.call.method, request.call.path, request.target)
           ELSE request.target = Ga!Sent(request.call.path, request.about)

\* The handler has looked at the session, or at the event.
LookedFirst ==
    request.stage = "reading" =>
        /\ request.does \in {"me", "users", "rows"}
        /\ request.does = "me" =>
            request.call = Ga!Call("GET", <<"auth", "me">>) /\ request.who \in ever
        /\ request.does = "users" =>
            request.call = Ga!Call("GET", <<"admin", "users">>) /\ Ga!People \subseteq ever
        /\ request.does = "rows" =>
            Reads(request.call, "organizer") /\ Ga!CanAccess(request.who, request.about)

GatewayInv ==
    /\ AskedWell
    /\ RowsHaveEvents
    /\ RightKept
    /\ LedOn
    /\ LookedFirst
    /\ RoutesServed
    /\ AnswersFit

LEMMA InitGateway == Ga!Init => GatewayInv
<1> SUFFICES ASSUME Ga!Init PROVE GatewayInv
    OBVIOUS
<1>1. AskedWell
    BY DEF Ga!Init, Ga!Idle, AskedWell, Asking
<1>2. RowsHaveEvents
    <2>1. offers \in [Ga!Events -> [status : {"DRAFT", "PUBLISHED", "CANCELLED", "DELETED"},
                                    public : BOOLEAN]]
        <3>1. /\ {[status |-> "PUBLISHED", public |-> p] : p \in BOOLEAN}
                  = {[status |-> "PUBLISHED", public |-> TRUE],
                     [status |-> "PUBLISHED", public |-> FALSE]}
              /\ \A s \in {"DRAFT", "PUBLISHED"}, p \in {TRUE, FALSE} :
                    [status |-> s, public |-> p]
                      \in [status : {"DRAFT", "PUBLISHED", "CANCELLED", "DELETED"}, public : BOOLEAN]
            OBVIOUS
        <3>2. QED
            BY <3>1, ZenonT(40) DEF Ga!Init
    <2>2. passes = [r \in Rows |-> "NONE"]
        BY DEF Ga!Init
    <2>3. QED
        BY <2>1, <2>2 DEF RowsHaveEvents
<1>3. RightKept /\ LedOn /\ LookedFirst
    BY DEF Ga!Init, Ga!Idle, RightKept, LedOn, LookedFirst
<1>4. RoutesServed /\ AnswersFit
    BY DEF Ga!Init, Ga!Idle, RoutesServed, Ga!RoutesServed, AnswersFit, Ga!AnswersFit
<1>5. QED
    BY <1>1, <1>2, <1>3, <1>4 DEF GatewayInv

\* The data changes while a request is on its way, or while there is none.
LEMMA DataChanges ==
    ASSUME GatewayInv, Ga!Change, RowsHaveEvents', token' => token
    PROVE  GatewayInv'
<1>1. AskedWell'
    <2>1. always = {} => always' = {}
        BY DEF Ga!Change, Ga!Remember
    <2>2. QED
        BY <2>1 DEF GatewayInv, Ga!Change, AskedWell, Asking
<1>2. RightKept'
    <2>1. CASE request.stage \in {"idle", "answered"}
        BY <2>1 DEF Ga!Change, RightKept
    <2>2. CASE request.stage \notin {"idle", "answered"}
        BY <2>2 DEF GatewayInv, Ga!Change, Ga!Remember, RightKept
    <2>3. QED
        BY <2>1, <2>2
<1>3. LedOn'
    BY DEF GatewayInv, Ga!Change, LedOn
<1>4. ever \subseteq ever'
    BY DEF Ga!Change, Ga!Remember
<1>5. LookedFirst'
    BY <1>4 DEF GatewayInv, Ga!Change, LookedFirst, Reads, Ga!CanAccess
<1>6. RoutesServed'
    BY DEF GatewayInv, Ga!Change, RoutesServed, Ga!RoutesServed
<1>7. AnswersFit'
    BY DEF GatewayInv, Ga!Change, Ga!Remember, AnswersFit, Ga!AnswersFit
<1>8. QED
    BY <1>1, <1>2, <1>3, <1>5, <1>6, <1>7 DEF GatewayInv

LEMMA EventSteps ==
    ASSUME GatewayInv, NEW e \in Ga!Events, NEW status \in {"PUBLISHED", "CANCELLED", "DELETED"},
           Ga!EventChanges(e, status)
    PROVE  GatewayInv'
<1>1. RowsHaveEvents'
    BY PlatformAssumption DEF GatewayInv, RowsHaveEvents, Ga!EventChanges, Ga!GatewayAssumption
<1>2. QED
    BY <1>1, DataChanges DEF Ga!EventChanges

LEMMA TicketSteps ==
    ASSUME GatewayInv, NEW r \in Rows,
           NEW status \in {"WAITLISTED", "PENDING", "ISSUED", "CANCELLED"},
           Ga!TicketChanges(r, status)
    PROVE  GatewayInv'
<1>1. passes[r] = "NONE" => offers[EventOf[r]].status = "PUBLISHED"
    BY DEF Ga!TicketChanges, Ga!Visible
<1>2. RowsHaveEvents'
    BY <1>1 DEF GatewayInv, RowsHaveEvents, Ga!TicketChanges
<1>3. QED
    BY <1>2, DataChanges DEF Ga!TicketChanges

LEMMA OtherChanges ==
    ASSUME GatewayInv, (\E n \in Notices : Ga!NoticeSent(n)) \/ Ga!SessionEnds \/ Ga!TokenExpires
    PROVE  GatewayInv'
<1>1. RowsHaveEvents'
    BY DEF GatewayInv, RowsHaveEvents, Ga!NoticeSent, Ga!SessionEnds, Ga!TokenExpires
<1>2. Ga!Change /\ (token' => token)
    BY DEF Ga!NoticeSent, Ga!SessionEnds, Ga!TokenExpires
<1>3. QED
    BY <1>1, <1>2, DataChanges

LEMMA AskStep ==
    ASSUME GatewayInv, NEW call \in Ga!Calls, NEW x \in Ga!Things(call),
           NEW who \in Ga!People \cup {Ga!Visitor}, Ga!Ask(who, call, x)
    PROVE  GatewayInv'
<1>1. /\ request' \in Asking(request')
      /\ request'.stage = "gateway" /\ request'.call = call /\ request'.who = who
      /\ request'.about = x /\ request'.served = Ga!Idle.served /\ request'.answer = ""
    BY DEF Ga!Ask, Ga!Idle, Asking
<1>2. AskedWell'
    BY <1>1 DEF Ga!Ask, AskedWell
<1>3. RowsHaveEvents'
    BY DEF GatewayInv, RowsHaveEvents, Ga!Ask
<1>4. RightKept'
    <2>1. Ga!Right(request.call, request.who, request.about)' = Ga!Right(call, who, x)'
        BY <1>1, Zenon
    <2>2. QED
        BY <2>1 DEF Ga!Ask, RightKept
<1>5. LedOn' /\ LookedFirst' /\ RoutesServed' /\ AnswersFit'
    BY <1>1 DEF LedOn, LookedFirst, RoutesServed, Ga!RoutesServed, AnswersFit, Ga!AnswersFit
<1>6. QED
    BY <1>2, <1>3, <1>4, <1>5 DEF GatewayInv

LEMMA LeaveStep == ASSUME GatewayInv, Ga!Leave PROVE GatewayInv'
<1>1. AskedWell'
    BY DEF Ga!Leave, Ga!Idle, AskedWell, Asking
<1>2. RowsHaveEvents'
    BY DEF GatewayInv, RowsHaveEvents, Ga!Leave
<1>3. RightKept' /\ LedOn' /\ LookedFirst'
    BY DEF Ga!Leave, Ga!Idle, RightKept, LedOn, LookedFirst
<1>4. RoutesServed' /\ AnswersFit'
    BY DEF Ga!Leave, Ga!Idle, RoutesServed, Ga!RoutesServed, AnswersFit, Ga!AnswersFit
<1>5. QED
    BY <1>1, <1>2, <1>3, <1>4 DEF GatewayInv

\* As long as nothing changes, the same is right.
LEMMA RightStays ==
    ASSUME UNCHANGED <<offers, passes, inbox, session>>, request'.call = request.call,
           request'.who = request.who, request'.about = request.about
    PROVE  Ga!Right(request.call, request.who, request.about)' =
                Ga!Right(request.call, request.who, request.about)
<1>1. ASSUME NEW y
      PROVE  y \in Ga!Right(request.call, request.who, request.about)'
                <=> y \in Ga!Right(request.call, request.who, request.about)
    BY DEF Ga!Right
<1>2. QED
    BY <1>1

\* A request that is answered is through; what is left to show is that the answer fits.
LEMMA AnswerGiven ==
    ASSUME GatewayInv, request.stage # "idle",
           UNCHANGED <<offers, passes, token, ever, always>>,
           request' \in Asking(request'), request'.stage = "answered",
           request'.call = request.call, request'.who = request.who,
           request'.about = request.about,
           \/ request'.trouble = TRUE
           \/ always \subseteq request'.items /\ request'.items \subseteq ever,
           \/ request'.served = request.served /\ request'.does = request.does
           \/ request.about \in Ga!NoIds /\ request'.does \in {"catalog", "drafts"}
           \/ request.about \notin Ga!NoIds /\ request'.served = request.call,
           request'.answer \in {"no handler", "malformed"} => request.about \in Ga!NoIds,
           request'.answer # "refused",
           request'.answer = "no route" => request.call \notin Ga!FrontendCalls
    PROVE  GatewayInv'
<1>1. AskedWell' /\ RowsHaveEvents'
    BY DEF GatewayInv, AskedWell, RowsHaveEvents
<1>2. RightKept' /\ LedOn' /\ LookedFirst'
    BY DEF RightKept, LedOn, LookedFirst
<1>3. RoutesServed'
    BY DEF GatewayInv, RoutesServed, Ga!RoutesServed
<1>4. AnswersFit'
    BY DEF AnswersFit, Ga!AnswersFit
<1>5. QED
    BY <1>1, <1>2, <1>3, <1>4 DEF GatewayInv

LEMMA StoppedGiven ==
    ASSUME GatewayInv, request.stage # "idle", UNCHANGED <<offers, passes, token, ever, always>>,
           NEW said \in {"unauthorized", "not found", "bad gateway"}, Ga!Trouble(said)
    PROVE  GatewayInv'
<1>1. /\ request' \in Asking(request') /\ request'.stage = "answered" /\ request'.trouble = TRUE
      /\ request'.call = request.call /\ request'.who = request.who
      /\ request'.about = request.about
      /\ request'.served = request.served /\ request'.does = request.does
      /\ request'.answer = said
    BY DEF Ga!Trouble, GatewayInv, AskedWell, Asking
<1>2. /\ request'.answer \notin {"no handler", "malformed"} /\ request'.answer # "refused"
      /\ request'.answer # "no route"
    BY <1>1
<1>3. QED
    BY <1>1, <1>2, AnswerGiven

LEMMA TroubleGiven ==
    ASSUME GatewayInv, request.stage # "idle", UNCHANGED <<Ga!data, ever, always>>,
           NEW said \in {"unauthorized", "not found", "bad gateway"}, Ga!Trouble(said)
    PROVE  GatewayInv'
BY StoppedGiven DEF Ga!data

\* The answer of a handler or of the gateway.
LEMMA AnswerFits ==
    ASSUME GatewayInv, request.stage # "idle", UNCHANGED <<offers, passes, token, ever, always>>,
           NEW said, said # "refused",
           said \in {"no handler", "malformed"} => request.about \in Ga!NoIds,
           said = "no route" => request.call \notin Ga!FrontendCalls,
           NEW items, Ga!Answer(said, items), always \subseteq items, items \subseteq ever
    PROVE  GatewayInv'
<1>1. /\ request' \in Asking(request') /\ request'.stage = "answered"
      /\ request'.call = request.call /\ request'.who = request.who
      /\ request'.about = request.about /\ request'.items = items
      /\ request'.served = request.served /\ request'.does = request.does
      /\ request'.answer = said
    BY DEF Ga!Answer, GatewayInv, AskedWell, Asking
<1>2. QED
    BY <1>1, AnswerGiven

LEMMA FailureSteps == ASSUME GatewayInv, Ga!FetchFails \/ Ga!UpstreamFails PROVE GatewayInv'
BY TroubleGiven DEF Ga!FetchFails, Ga!UpstreamFails

\* What a call leads to in the table of routes.
LEMMA RouteOf ==
    ASSUME NEW c \in Ga!Calls,
           NEW x, NEW route \in Ga!Matching(Ga!RouteTable, c.method, Ga!Sent(c.path, x))
    PROVE  /\ route \in EntriesOf(Ga!RouteTable) /\ route.method = c.method /\ route.path = c.path
           /\ route.roles = Needed(c.method, c.path)
           /\ \/ route.service = "gateway" /\ c = Ga!Call("GET", <<"organizer", "ping">>)
              \/ /\ route.service \in {"identity", "events", "registration"}
                 /\ Known(c.method, c.path, EntriesOf(Ga!HandlersOf[route.service]))
<1>1. c.path \in Path /\ Regular(c.path) /\ c = Ga!Call(c.method, c.path)
    BY CallsAre
<1>2. \A e \in EntriesOf(Ga!RouteTable) : Sound(e.path)
    BY RoutesAreProper DEF Proper
<1>3. route \in EntriesOf(Ga!RouteTable) /\ route.method = c.method /\ route.path = c.path
    BY <1>1, <1>2, Matched
<1>4. QED
    BY <1>1, <1>3, RoutesAreProper DEF Proper, Routed

LEMMA NoRoute ==
    ASSUME NEW c \in Ga!Calls, NEW x,
           Ga!Matching(Ga!RouteTable, c.method, Ga!Sent(c.path, x)) = {}
    PROVE  /\ c \notin Ga!FrontendCalls
           /\ \A who : Ga!Right(c, who, x) = {}
<1>1. c.path \in Path
    BY CallsAre
<1>2. ~HasRoute(c)
    BY <1>1, Found, RoutesAre DEF HasRoute
<1>3. c \in Unrouted /\ c.method # "GET" /\ c # Ga!Call("PATCH", <<"notifications", ":", "read">>)
    BY <1>2, CallsAre DEF Unrouted, Ga!Call
<1>4. QED
    BY <1>2, <1>3, FrontendIsRouted, RightIs

LEMMA AdmitStep == ASSUME GatewayInv, Ga!Admit PROVE GatewayInv'
<1> DEFINE c == request.call
           who == request.who
           x == request.about
<1>1. /\ request.stage = "gateway" /\ UNCHANGED <<Ga!data, ever, always>>
      /\ c \in Ga!Calls /\ x \in Ga!Things(c) /\ (x \in Ga!NoIds => always = {})
      /\ always \subseteq Ga!Right(c, who, x) /\ Ga!Right(c, who, x) \subseteq ever
      /\ c = Ga!Call(c.method, c.path)
    BY CallsAre DEF Ga!Admit, GatewayInv, AskedWell, RightKept
<1>2. CASE Ga!Matching(Ga!RouteTable, c.method, Ga!Sent(c.path, x)) = {}
    <2>1. Ga!Answer("no route", {}) /\ c \notin Ga!FrontendCalls /\ Ga!Right(c, who, x) = {}
        BY <1>1, <1>2, NoRoute DEF Ga!Admit
    <2>2. QED
        BY <1>1, <2>1, AnswerFits DEF Ga!data
<1>3. CASE Ga!Matching(Ga!RouteTable, c.method, Ga!Sent(c.path, x)) # {} /\ x = "%"
    <2>1. Ga!Answer("malformed", {}) /\ x \in Ga!NoIds
        BY <1>3 DEF Ga!Admit, Ga!NoIds
    <2>2. QED
        BY <1>1, <2>1, AnswerFits DEF Ga!data
<1>4. CASE Ga!Matching(Ga!RouteTable, c.method, Ga!Sent(c.path, x)) # {} /\ x # "%"
    <2>1. PICK route \in Ga!Matching(Ga!RouteTable, c.method, Ga!Sent(c.path, x)) :
            IF route.roles # Ga!Public /\ ~token
            THEN Ga!Trouble("unauthorized")
            ELSE IF route.roles # Ga!Public /\ Ga!Role[who] \notin route.roles
            THEN Ga!Answer("forbidden", {})
            ELSE IF route.service = "gateway" THEN Ga!Answer("pong", {})
            ELSE request' = [request EXCEPT !.stage = "service", !.service = route.service,
                                            !.target = Ga!Resolved(Ga!Sent(route.path, x)),
                                            !.named = route.roles # Ga!Public]
        BY <1>4 DEF Ga!Admit
    <2>2. /\ route \in EntriesOf(Ga!RouteTable) /\ route.method = c.method /\ route.path = c.path
          /\ route.roles = Needed(c.method, c.path)
          /\ \/ route.service = "gateway" /\ c = Ga!Call("GET", <<"organizer", "ping">>)
             \/ /\ route.service \in {"identity", "events", "registration"}
                /\ Known(c.method, c.path, EntriesOf(Ga!HandlersOf[route.service]))
        BY <1>1, RouteOf
    <2>3. token => who \in Ga!People
        BY <1>1 DEF GatewayInv, AskedWell
    <2>4. CASE route.roles # Ga!Public /\ ~token
        BY <1>1, <2>1, <2>4, TroubleGiven
    <2>5. CASE route.roles # Ga!Public /\ token /\ Ga!Role[who] \notin route.roles
        <3>1. Ga!Right(c, who, x) = {}
            BY <1>1, <2>2, <2>3, <2>5, RefusedSeesNothing
        <3>2. Ga!Answer("forbidden", {})
            BY <2>1, <2>5
        <3>3. QED
            BY <1>1, <3>1, <3>2, AnswerFits DEF Ga!data
    <2>6. CASE May(who, route.roles) /\ (route.roles # Ga!Public => token)
               /\ route.service = "gateway"
        <3>1. c = Ga!Call("GET", <<"organizer", "ping">>)
            BY <2>2, <2>6
        <3>2. Ga!Right(c, who, x) = {}
            <4>1. x = "nothing"
                BY <1>1, <3>1 DEF Ga!Things, Ga!Call
            <4>2. Ga!ListEventRegistrations(x) = {}
                BY <4>1, PlatformAssumption DEF Ga!GatewayAssumption, Ga!ListEventRegistrations
            <4>3. Reads(c, "organizer")
                BY <3>1 DEF Reads, Ga!Call
            <4>4. QED
                BY <4>2, <4>3, RightIs
        <3>3. Ga!Answer("pong", {})
            BY <2>1, <2>6 DEF May
        <3>4. QED
            BY <1>1, <3>2, <3>3, AnswerFits DEF Ga!data
    <2>7. CASE May(who, route.roles) /\ (route.roles # Ga!Public => token)
               /\ route.service # "gateway"
        <3>1. request' = [request EXCEPT !.stage = "service", !.service = route.service,
                                         !.target = Ga!Resolved(Ga!Sent(route.path, x)),
                                         !.named = route.roles # Ga!Public]
            BY <2>1, <2>7 DEF May
        <3>2. request \in Asking(request)
            BY DEF GatewayInv, AskedWell
        <3>3. /\ request' \in Asking(request') /\ request'.stage = "service"
              /\ request'.service = route.service
              /\ request'.target = Ga!Resolved(Ga!Sent(c.path, x))
              /\ request'.named = (route.roles # Ga!Public)
              /\ request'.call = c /\ request'.who = who /\ request'.about = x
              /\ request'.served = request.served /\ request'.answer = request.answer
              /\ request'.does = request.does
            BY <2>2, <3>1, <3>2 DEF Asking
        <3>4. AskedWell' /\ RowsHaveEvents'
            BY <1>1, <3>3 DEF GatewayInv, AskedWell, RowsHaveEvents, Ga!data
        <3>5. RightKept'
            BY <1>1, <3>3, RightStays DEF RightKept, Ga!data
        <3>6. LedOn' /\ LookedFirst'
            <4>1. c.path \in Path
                BY <1>1, CallsAre
            <4>2. x \notin Ga!NoIds => request'.target = Ga!Sent(c.path, x)
                BY <3>3, <4>1, NoDots
            <4>3. x \in Ga!NoIds =>
                    \A h \in Ga!Matching(Ga!HandlersOf[route.service], c.method, request'.target) :
                        Astray(h, c.method, c.path, request'.target)
                <5>1. CASE x \in Ga!NoIds
                    <6>1. x \in Ga!Dots
                        BY <1>4, <5>1 DEF Ga!NoIds
                    <6>2. \E i \in DOMAIN c.path : c.path[i] = ":"
                        BY <1>1, <5>1 DEF Ga!Things, Ga!NoIds, Ga!Dots
                    <6>3. QED
                        BY <2>2, <3>3, <6>1, <6>2, DotsLead
                <5>2. QED
                    BY <5>1
            <4>4. QED
                BY <1>4, <2>2, <2>7, <3>3, <4>2, <4>3 DEF LedOn, LookedFirst
        <3>7. RoutesServed' /\ AnswersFit'
            BY <3>3 DEF GatewayInv, RoutesServed, Ga!RoutesServed, AnswersFit, Ga!AnswersFit
        <3>8. QED
            BY <3>4, <3>5, <3>6, <3>7 DEF GatewayInv
    <2>8. CASE route.roles = Ga!Public
        <3>1. May(who, route.roles)
            BY <2>8 DEF May
        <3>2. QED
            BY <2>6, <2>7, <2>8, <3>1, Zenon
    <2>9. CASE route.roles # Ga!Public
        <3>1. token /\ Ga!Role[who] \in route.roles => May(who, route.roles)
            BY <2>3 DEF May
        <3>2. QED
            BY <2>4, <2>5, <2>6, <2>7, <2>9, <3>1, Zenon
    <2>10. QED
        BY <2>8, <2>9
<1>5. QED
    BY <1>2, <1>3, <1>4

\* What a call leads to in the service.
LEMMA HandlerOf ==
    ASSUME NEW c \in Ga!Calls, NEW s \in {"identity", "events", "registration"},
           NEW x, NEW h \in Ga!Matching(Ga!HandlersOf[s], c.method, Ga!Sent(c.path, x))
    PROVE  /\ Ga!Call(h.method, h.path) = c /\ h.method = c.method /\ h.path = c.path
           /\ h.roles = Needed(c.method, c.path)
           /\ Honest(h)
<1>1. c.path \in Path /\ Regular(c.path) /\ c = Ga!Call(c.method, c.path)
    BY CallsAre
<1>2. \A e \in EntriesOf(Ga!HandlersOf[s]) : Proper(e) /\ Sound(e.path)
    BY HandlersAreProper DEF Proper
<1>3. h \in EntriesOf(Ga!HandlersOf[s]) /\ h.method = c.method /\ h.path = c.path
    BY <1>1, <1>2, Matched
<1>4. Proper(h) /\ Honest(h)
    BY <1>2, <1>3, HandlersAreHonest
<1>5. QED
    BY <1>1, <1>3, <1>4 DEF Proper

LEMMA HandlerFound ==
    ASSUME NEW c \in Ga!Calls, NEW s \in {"identity", "events", "registration"},
           Known(c.method, c.path, EntriesOf(Ga!HandlersOf[s])), NEW x
    PROVE  Ga!Matching(Ga!HandlersOf[s], c.method, Ga!Sent(c.path, x)) # {}
<1>1. c.path \in Path
    BY CallsAre
<1>2. QED
    BY <1>1, HandlersAreProper, Found

\* The event of a registration is there; nobody else has its registrations.
LEMMA NoEventNoRows ==
    ASSUME GatewayInv, NEW who, NEW x \in Ga!Events, Ga!Shown("event", who, x) = {}
    PROVE  {r \in Ga!ListEventRegistrations(x) : Ga!CanAccess(who, x)} = {}
<1>1. x \notin Ga!There \/ ~Ga!CanAccess(who, x)
    BY DEF Ga!Shown, Ga!EventDetails, Ga!There
<1>2. \A r \in Ga!ListEventRegistrations(x) : x \in Ga!There
    BY DEF Ga!ListEventRegistrations, Ga!There, GatewayInv, RowsHaveEvents
<1>3. QED
    BY <1>1, <1>2

LEMMA ServeIdStep == ASSUME GatewayInv, Ga!Serve, request.about \notin Ga!NoIds PROVE GatewayInv'
<1> DEFINE c == request.call
           who == request.who
           x == request.about
<1>1. /\ request.stage = "service" /\ UNCHANGED <<offers, passes, session, token, ever, always>>
      /\ c \in Ga!Calls /\ x \in Ga!Things(c)
      /\ always \subseteq Ga!Right(c, who, x) /\ Ga!Right(c, who, x) \subseteq ever
      /\ request \in Asking(request)
    BY DEF Ga!Serve, GatewayInv, AskedWell, RightKept
<1>2. /\ May(who, Needed(c.method, c.path))
      /\ request.service \in {"identity", "events", "registration"}
      /\ Known(c.method, c.path, EntriesOf(Ga!HandlersOf[request.service]))
      /\ request.target = Ga!Sent(c.path, x)
      /\ request.named = (Needed(c.method, c.path) # Ga!Public)
    BY <1>1 DEF GatewayInv, LedOn
<1>3. Ga!Matching(Ga!HandlersOf[request.service], c.method, Ga!Sent(c.path, x)) # {}
    BY <1>1, <1>2, HandlerFound
<1>4. PICK h \in Ga!Matching(Ga!HandlersOf[request.service], c.method, Ga!Sent(c.path, x)) :
          Ga!Handle(h) /\ (h.does # "read notice" => inbox' = inbox)
    BY <1>1, <1>2, <1>3 DEF Ga!Serve
<1>5. /\ Ga!Call(h.method, h.path) = c /\ h.method = c.method /\ h.path = c.path
      /\ h.roles = Needed(c.method, c.path)
      /\ Honest(h)
    BY <1>1, <1>2, HandlerOf
<1>6. /\ h.does = "me" => c = Ga!Call("GET", <<"auth", "me">>)
      /\ h.does = "users" => c = Ga!Call("GET", <<"admin", "users">>) /\ who = Admin
      /\ h.does = "rows" => Reads(c, "organizer") /\ x \in Ga!Events
      /\ h.does \notin {"me", "users", "rows"} => Ga!Shown(h.does, who, x) = Ga!Right(c, who, x)
    BY <1>1, <1>2, <1>5 DEF Honest, Reads
<1>7. /\ ~(h.roles # Ga!Public /\ ~(request.named /\ Ga!Role[who] \in h.roles))
      /\ ~\E i \in DOMAIN h.path : h.path[i] = ":" /\ request.target[i] # "it"
    BY <1>2, <1>5 DEF May, Ga!Sent
<1>8. CASE h.does \in {"me", "users"} /\ ~session
    <2>1. Ga!Right(c, who, x) = {}
        BY <1>6, <1>8, RightOfAdmins
    <2>2. Ga!Answer("session not active", {})
        BY <1>4, <1>7, <1>8 DEF Ga!Handle
    <2>3. QED
        BY <1>1, <2>1, <2>2, AnswerFits
<1>9. CASE h.does = "rows" /\ Ga!Shown("event", who, x) = {}
    <2>1. Ga!Right(c, who, x) = {}
        BY <1>6, <1>9, RightIs, NoEventNoRows
    <2>2. Ga!Answer("not found", {})
        BY <1>4, <1>7, <1>9 DEF Ga!Handle
    <2>3. QED
        BY <1>1, <2>1, <2>2, AnswerFits
<1>10. CASE /\ h.does \in {"me", "users"} => session
            /\ h.does = "rows" => Ga!Shown("event", who, x) # {}
            /\ h.does \in {"me", "users", "rows"}
    <2>1. request' = [request EXCEPT !.stage = "reading", !.does = h.does, !.served = c]
        BY <1>4, <1>5, <1>7, <1>10 DEF Ga!Handle
    <2>2. /\ request' \in Asking(request') /\ request'.stage = "reading"
          /\ request'.call = c /\ request'.who = who /\ request'.about = x
          /\ request'.does = h.does /\ request'.served = c /\ request'.answer = request.answer
        BY <1>1, <2>1 DEF Asking
    <2>3. AskedWell' /\ RowsHaveEvents'
        BY <1>1, <2>2 DEF GatewayInv, AskedWell, RowsHaveEvents
    <2>4. RightKept'
        BY <1>1, <1>4, <1>10, <2>2, RightStays DEF RightKept
    <2>5. LedOn'
        BY <2>2 DEF LedOn
    <2>6. LookedFirst'
        <3>1. h.does = "me" => who \in ever
            BY <1>1, <1>6, <1>10, RightOfAdmins
        <3>2. h.does = "users" => Ga!People \subseteq ever
            BY <1>1, <1>6, <1>10, RightOfAdmins
        <3>3. h.does = "rows" => Ga!CanAccess(who, x)
            BY <1>10 DEF Ga!Shown, Ga!EventDetails
        <3>4. QED
            BY <1>1, <1>6, <1>10, <2>2, <3>1, <3>2, <3>3 DEF LookedFirst, Reads, Ga!CanAccess
    <2>7. RoutesServed' /\ AnswersFit'
        BY <2>2 DEF GatewayInv, RoutesServed, Ga!RoutesServed, AnswersFit, Ga!AnswersFit
    <2>8. QED
        BY <2>3, <2>4, <2>5, <2>6, <2>7 DEF GatewayInv
<1>11. CASE h.does \notin {"me", "users", "rows"} /\ h.does \in Ga!One
            /\ Ga!Shown(h.does, who, x) = {}
    <2>1. Ga!Answer(Ga!Refusal(h.does, who, x), {})
        BY <1>4, <1>7, <1>11 DEF Ga!Handle
    <2>2. Ga!Refusal(h.does, who, x)
            \in {"forbidden", "not found", "inactive", "not ready"}
        BY DEF Ga!Refusal
    <2>3. QED
        BY <1>1, <1>6, <1>11, <2>1, <2>2, AnswerFits
<1>12. CASE h.does \notin {"me", "users", "rows"}
            /\ ~(h.does \in Ga!One /\ Ga!Shown(h.does, who, x) = {})
    <2>1. request' = [request EXCEPT !.stage = "answered", !.does = h.does, !.served = c,
                                     !.answer = "ok", !.items = Ga!Shown(h.does, who, x)]
        BY <1>4, <1>5, <1>7, <1>12 DEF Ga!Handle
    <2>2. /\ request' \in Asking(request') /\ request'.stage = "answered"
          /\ request'.call = c /\ request'.who = who /\ request'.about = x
          /\ request'.served = c /\ request'.answer = "ok"
          /\ request'.items = Ga!Shown(h.does, who, x)
        BY <1>1, <2>1 DEF Asking
    <2>3. always \subseteq request'.items /\ request'.items \subseteq ever
        BY <1>1, <1>6, <1>12, <2>2
    <2>4. QED
        BY <1>1, <2>2, <2>3, AnswerGiven
<1>13. QED
    BY <1>8, <1>9, <1>10, <1>11, <1>12

\* With a dot segment for an id.
LEMMA ServeDotStep == ASSUME GatewayInv, Ga!Serve, request.about \in Ga!NoIds PROVE GatewayInv'
<1> DEFINE c == request.call
           who == request.who
           x == request.about
           handlers == Ga!Matching(Ga!HandlersOf[request.service], c.method, request.target)
<1>1. /\ request.stage = "service" /\ UNCHANGED <<offers, passes, session, token, ever, always>>
      /\ always = {} /\ Ga!Right(c, who, x) \subseteq ever
      /\ request \in Asking(request)
    BY DEF Ga!Serve, GatewayInv, AskedWell, RightKept
<1>2. /\ May(who, Needed(c.method, c.path))
      /\ request.named = (Needed(c.method, c.path) # Ga!Public)
      /\ \A h \in handlers : Astray(h, c.method, c.path, request.target)
    BY <1>1 DEF GatewayInv, LedOn
<1>3. CASE handlers = {}
    <2>1. Ga!Answer("no handler", {})
        BY <1>3 DEF Ga!Serve
    <2>2. /\ request.stage # "idle" /\ UNCHANGED <<offers, passes, token, ever, always>>
          /\ always \subseteq {} /\ {} \subseteq ever
        BY <1>1
    <2>3. QED
        BY <2>1, <2>2, AnswerFits
<1>4. ASSUME NEW h \in handlers, Ga!Handle(h) PROVE GatewayInv'
    <2>1. Astray(h, c.method, c.path, request.target)
        BY <1>2
    <2>2. ~(h.roles # Ga!Public /\ ~(request.named /\ Ga!Role[who] \in h.roles))
        BY <1>2, <2>1 DEF Astray, May
    <2>3. CASE h.path = <<"tickets", ":">> /\ request.target[2] # "it"
        <3>1. \E i \in DOMAIN h.path : h.path[i] = ":" /\ request.target[i] # "it"
            BY <2>3
        <3>2. Ga!Trouble("bad gateway")
            BY <1>4, <2>2, <3>1 DEF Ga!Handle
        <3>3. QED
            BY <1>1, <3>2, StoppedGiven
    <2>4. ASSUME h.does \in {"catalog", "drafts"},
                 ~\E i \in DOMAIN h.path : h.path[i] = ":",
                 Ga!Shown(h.does, who, x) \subseteq Ga!Right(c, who, x)
          PROVE  GatewayInv'
        <3>1. request' = [request EXCEPT !.stage = "answered", !.does = h.does,
                                         !.served = Ga!Call(h.method, h.path),
                                         !.answer = "ok", !.items = Ga!Shown(h.does, who, x)]
            BY <1>4, <2>2, <2>4 DEF Ga!Handle, Ga!One
        <3>2. /\ request' \in Asking(request') /\ request'.stage = "answered"
              /\ request'.call = c /\ request'.who = who /\ request'.about = x
              /\ request'.does = h.does /\ request'.answer = "ok"
              /\ request'.items = Ga!Shown(h.does, who, x)
            BY <1>1, <3>1 DEF Asking
        <3>3. always \subseteq request'.items /\ request'.items \subseteq ever
            BY <1>1, <2>4, <3>2
        <3>4. QED
            BY <1>1, <2>4, <3>2, <3>3, AnswerGiven
    <2>5. CASE h.path = <<"catalog", "events">> /\ h.does = "catalog" /\ Reads(c, "catalog")
        <3>1. Ga!Shown("catalog", who, x) \subseteq Ga!Right(c, who, x)
            <4>1. x = "%" => FALSE
                BY <1>1 DEF GatewayInv, LedOn
            <4>2. QED
                BY <2>5, <4>1, RightIs DEF Ga!Shown, Ga!NoIds
        <3>2. QED
            BY <2>4, <2>5, <3>1
    <2>6. CASE h.path = <<"events", "drafts">> /\ h.does = "drafts" /\ Reads(c, "events")
               /\ c.path # <<"events", "drafts">>
        <3>1. Ga!Shown("drafts", who, x) \subseteq Ga!Right(c, who, x)
            <4>1. x = "%" => FALSE
                BY <1>1 DEF GatewayInv, LedOn
            <4>2. QED
                BY <2>6, <4>1, RightIs DEF Ga!Shown, Ga!NoIds, Ga!ListDrafts
        <3>2. QED
            BY <2>4, <2>6, <3>1
    <2>7. QED
        BY <2>1, <2>3, <2>5, <2>6 DEF Astray, Reads
<1>5. QED
    BY <1>3, <1>4 DEF Ga!Serve

LEMMA ServeStep == ASSUME GatewayInv, Ga!Serve PROVE GatewayInv'
BY ServeIdStep, ServeDotStep

LEMMA ReadStep == ASSUME GatewayInv, Ga!Read PROVE GatewayInv'
<1> DEFINE c == request.call
           who == request.who
           x == request.about
           read == CASE request.does = "me" -> {who}
                     [] request.does = "users" -> Ga!People
                     [] request.does = "rows" -> Ga!ListEventRegistrations(x)
<1>1. /\ request.stage = "reading" /\ UNCHANGED <<offers, passes, token, ever, always>>
      /\ always \subseteq Ga!Right(c, who, x) /\ Ga!Right(c, who, x) \subseteq ever
      /\ Ga!Answer("ok", read)
    BY DEF Ga!Read, GatewayInv, RightKept, Ga!data
<1>2. /\ request.does \in {"me", "users", "rows"}
      /\ request.does = "me" => c = Ga!Call("GET", <<"auth", "me">>) /\ who \in ever
      /\ request.does = "users" =>
            c = Ga!Call("GET", <<"admin", "users">>) /\ Ga!People \subseteq ever
      /\ request.does = "rows" => Reads(c, "organizer") /\ Ga!CanAccess(who, x)
    BY <1>1 DEF GatewayInv, LookedFirst
<1>3. CASE request.does = "me"
    <2>1. read = {who}
        BY <1>3
    <2>2. Ga!Right(c, who, x) \subseteq {who} /\ {who} \subseteq ever
        BY <1>2, <1>3, RightOfAdmins
    <2>3. QED
        BY <1>1, <2>1, <2>2, AnswerFits
<1>4. CASE request.does = "users"
    <2>1. read = Ga!People
        BY <1>4
    <2>2. Ga!Right(c, who, x) \subseteq Ga!People /\ Ga!People \subseteq ever
        BY <1>2, <1>4, RightOfAdmins
    <2>3. QED
        BY <1>1, <2>1, <2>2, AnswerFits
<1>5. CASE request.does = "rows"
    <2>1. read = Ga!ListEventRegistrations(x)
        BY <1>5
    <2>2. Ga!Right(c, who, x) = Ga!ListEventRegistrations(x)
        BY <1>2, <1>5, RightIs DEF Ga!ListEventRegistrations
    <2>3. QED
        BY <1>1, <2>1, <2>2, AnswerFits
<1>6. QED
    BY <1>2, <1>3, <1>4, <1>5

LEMMA NextGateway == GatewayInv /\ [Ga!Next]_(Ga!vars) => GatewayInv'
<1> SUFFICES ASSUME GatewayInv, [Ga!Next]_(Ga!vars) PROVE GatewayInv'
    OBVIOUS
<1>1. CASE UNCHANGED Ga!vars
    <2>1. UNCHANGED <<offers, passes, inbox, session, token, request, ever, always>>
        BY <1>1 DEF Ga!vars, Ga!data
    <2>2. AskedWell' /\ RowsHaveEvents'
        BY <2>1 DEF GatewayInv, AskedWell, Asking, RowsHaveEvents
    <2>3. RightKept'
        BY <2>1, RightStays DEF GatewayInv, RightKept
    <2>4. LedOn' /\ LookedFirst'
        BY <2>1 DEF GatewayInv, LedOn, LookedFirst, Reads, Ga!CanAccess
    <2>5. RoutesServed' /\ AnswersFit'
        BY <2>1 DEF GatewayInv, RoutesServed, Ga!RoutesServed, AnswersFit, Ga!AnswersFit
    <2>6. QED
        BY <2>2, <2>3, <2>4, <2>5 DEF GatewayInv
<1>2. CASE Ga!Next
    BY <1>2, EventSteps, TicketSteps, OtherChanges, AskStep, LeaveStep, AdmitStep, ServeStep,
       ReadStep, FailureSteps DEF Ga!Next
<1>3. QED
    BY <1>1, <1>2

\* What the gateway lets pass with an id in it, or without any, reaches the handler that was
\* meant; with a dot segment for an id, none but a list; no handler refuses a role that has
\* satisfied the gateway, and there is a route for everything that the frontend asks.
THEOREM RoutesAreServed == Ga!Spec => []RoutesServed
<1>1. GatewayInv => RoutesServed
    BY DEF GatewayInv
<1>2. QED
    BY <1>1, InitGateway, NextGateway, PTL DEF Ga!Spec

\* A caller is shown nothing that he had at no time a right to see, and, if he sent an id where
\* one belongs, everything that he had a right to see all the time, while the data changes
\* under his request.
THEOREM AnswersAlwaysFit == Ga!Spec => []AnswersFit
<1>1. GatewayInv => AnswersFit
    BY DEF GatewayInv
<1>2. QED
    BY <1>1, InitGateway, NextGateway, PTL DEF Ga!Spec
===============================================================================
