------------------------------ MODULE MCPlatform ------------------------------
(***************************************************************************)
(* Platform for TLC.                                                       *)
(***************************************************************************)
EXTENDS Platform, TLC

CONSTANTS participant, organizer, admin, stranger, mine, other, r1, r2, n1

CountsTaken == {-1, 0, 1, 20}

\* An event of the organizer and one of somebody else; a registration of each, by the
\* participant and by a stranger; a notification.
HolderOf == (r1 :> participant) @@ (r2 :> stranger)
EventAt == (r1 :> mine) @@ (r2 :> other)
RecipientOf == (n1 :> participant)

\* Nothing happens to a platform that nobody starts, no plan is chosen, and only the
\* organizer's event is a draft or private at first.
PInit ==
    /\ focus \in Parts
    /\ Init
    /\ Mo!Init
    /\ Pr!Init /\ (focus # "procedure" => plan = Pr!BackupPlan)
    /\ Re!InitAs(focus = "platform")
    /\ Se!Init
    /\ Ga!Init
    /\ offers[other] = [status |-> "PUBLISHED", public |-> TRUE]
    /\ focus # "gateway" => offers[mine] = offers[other]

\* Where a part is not in focus, none of its fair actions is enabled.
PSpec == PInit /\ [][PNext]_pvars /\ Fairness /\ Re!Fairness
=============================================================================
