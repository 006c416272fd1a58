-------------------------- MODULE RegistrationDesk --------------------------
(***************************************************************************)
(* What the registration service promises for one event: a desk that deals *)
(* with one request at a time.  Registering, and cancelling together with  *)
(* the promotion it causes, are single steps.  A crash may cut one         *)
(* cancellation short, after which its seat is offered to nobody on the    *)
(* waitlist and its ticket may still be valid.                             *)
(*                                                                         *)
(* The decision rules are those of services/registration-service; what is  *)
(* abstracted is that the code takes several statements for each of them.  *)
(***************************************************************************)
EXTENDS RegistrationTables

CONSTANTS
    Capacity,       \* seats of the event
    Stamps,         \* the values created_at may take
    MaxCrashes      \* bound: crashes

VARIABLES rows, tickets, crashes

vars == <<rows, tickets, crashes>>

Init ==
    /\ rows = [r \in Registers |-> AbsentRow]
    /\ tickets = [r \in Registers |-> "NONE"]
    /\ crashes = 0

\* The seat is taken while there is one, else the request joins the end of the
\* waitlist, whose position is the number of those who wait, plus one.
Register(r) ==
    /\ rows[r].status = "ABSENT"
    /\ ActiveRowsOf(rows, Owner[r]) = {}
    /\ LET status == IF CountConfirmed(rows) < Capacity THEN "CONFIRMED" ELSE "WAITLISTED"
       IN  /\ \E stamp \in Stamps :
                 rows' = [rows EXCEPT ![r] = NewRow(status, CountWaitlisted(rows) + 1, stamp)]
           /\ tickets' = IF status = "CONFIRMED" THEN [tickets EXCEPT ![r] = "ISSUED"] ELSE tickets
    /\ UNCHANGED crashes

WithoutSeat(r) == [rows EXCEPT ![r] = CancelledRow(@)]

WithoutTicket(r) == [tickets EXCEPT ![r] = IF rows[r].ticketed THEN "CANCELLED" ELSE @]

\* A confirmed registration hands its seat to the first in line, if there is one.
HandOver(r) ==
    /\ rows[r].status = "CONFIRMED"
    /\ \E q \in FirstInLine(WithoutSeat(r), {}) :
          /\ rows' = [WithoutSeat(r) EXCEPT ![q] = PromotedRow(@)]
          /\ tickets' = [WithoutTicket(r) EXCEPT ![q] = "ISSUED"]
    /\ UNCHANGED crashes

Withdraw(r) ==
    /\ Active(rows[r])
    /\ rows[r].status = "CONFIRMED" => CountWaitlisted(rows) = 0
    /\ rows' = WithoutSeat(r)
    /\ tickets' = WithoutTicket(r)
    /\ UNCHANGED crashes

Crash ==
    /\ crashes < MaxCrashes
    /\ crashes' = crashes + 1
    /\ \/ UNCHANGED <<rows, tickets>>
       \/ \E r \in Registers :
             /\ Active(rows[r])
             /\ rows' = WithoutSeat(r)
             /\ tickets' \in {tickets, WithoutTicket(r)}

Next ==
    \/ \E r \in Registers : Register(r) \/ HandOver(r) \/ Withdraw(r)
    \/ Crash

Spec == Init /\ [][Next]_vars
=============================================================================
