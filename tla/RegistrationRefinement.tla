----------------------- MODULE RegistrationRefinement -----------------------
(***************************************************************************)
(* When requests do not overlap (MaxInFlight = 1), the handlers of         *)
(* Registration implement the one-step requests of RegistrationDesk.       *)
(*                                                                         *)
(* An insert is seen at the desk when it is committed.  A cancellation is  *)
(* seen when it is complete: until then the desk shows the row as the      *)
(* handler read it, with the ticket that goes with it.                     *)
(***************************************************************************)
EXTENDS Registration

CONSTANT Stamps     \* the values created_at may take

\* Cancel handlers that have changed the row and have not finished.
Unfinished == {c \in Cancels : pc[c] \in {"cancelTicket", "selectNext", "promoteNext"}}

HandlersOf(r) == {c \in Unfinished : target[c] = r}

DeskRows ==
    [r \in Registers |->
        IF HandlersOf(r) = {} THEN rows[r] ELSE seen[CHOOSE c \in HandlersOf(r) : TRUE]]

DeskTickets ==
    [r \in Registers |->
        IF HandlersOf(r) = {} THEN tickets[r]
        ELSE IF DeskRows[r].ticketed THEN "ISSUED" ELSE "NONE"]

Desk == INSTANCE RegistrationDesk WITH rows <- DeskRows, tickets <- DeskTickets

\* Served one after the other, the requests have exactly the effects of the desk:
\* no statement of a handler shows in between, and after a crash the tables are
\* as if the cancellation had only been begun.
ImplementsDesk == Desk!Spec
=============================================================================
