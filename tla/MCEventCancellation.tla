------------------------ MODULE MCEventCancellation ------------------------
(***************************************************************************)
(* Instance of EventCancellation for TLC.                                  *)
(***************************************************************************)
EXTENDS EventCancellation, TLC

CONSTANTS p1, p2, r1, r2, c1

\* Every request comes from a participant of its own.
MCOwner == [r \in Registers |-> IF r = r1 THEN p1 ELSE p2]
=============================================================================
