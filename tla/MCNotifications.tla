--------------------------- MODULE MCNotifications ---------------------------
(***************************************************************************)
(* An instance of Notifications for TLC: the cancellation of an event with *)
(* three participants, one of them without an address, a reminder by mail  *)
(* and one by text message.                                                *)
(***************************************************************************)
EXTENDS Notifications, TLC

CONSTANTS cancelled, R1, R2, s1, s2

MCDueAt == (R1 :> 1 @@ R2 :> 1)
MCFan == (cancelled :> 2 @@ R1 :> 1 @@ R2 :> 1)
MCInvalid == {[message |-> cancelled, place |-> 1]}
=============================================================================
