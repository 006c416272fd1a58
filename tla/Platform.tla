------------------------------- MODULE Platform -------------------------------
(***************************************************************************)
(* The parts of the repository that share no state with each other: the    *)
(* desk for payments, the counters and their alerts, the backup and        *)
(* restore procedures, the containers of the platform, the demonstration   *)
(* data, and a request on its way through the gateway.  They are looked at *)
(* one at a time: focus says which one moves, and the others stay as they  *)
(* are at the beginning.                                                   *)
(***************************************************************************)
EXTENDS TicketDesk, Integers

CONSTANTS
    Labels, Bursts, Counts, Backlogs, MaxCalls,     \* of Monitoring
    MaxMistakes, MaxExecuted,                       \* of Procedures
    MaxBootAttempts, Retries, MaxTroubles,          \* of Readiness
    CatalogueSize, MaxChanges, MaxSeeds,            \* of Seeding
    Participant, Organizer, Admin, Mine, Others,    \* of Gateway
    Rows, Holder, EventOf, Notices, Recipient, MaxMoves

VARIABLES
    focus,
    counters, cases, happened, calls,
    plan, executed, open, handled, checked,
    database, process, attempts, failures, healthy, starting, probe, verdict, away, troubles,
    account, owned, events, rows, tickets, notices, payments, stage, left, changes, seeds,
    offers, passes, inbox, session, token, request, ever, always, made

Mo == INSTANCE Monitoring
Pr == INSTANCE Procedures
Re == INSTANCE Readiness
Se == INSTANCE Seeding
Ga == INSTANCE Gateway WITH events <- offers, tickets <- passes, MaxChanges <- MaxMoves

ASSUME PlatformAssumption ==
    /\ Mo!MonitoringAssumption
    /\ Pr!ProceduresAssumption
    /\ Re!ReadinessAssumption
    /\ Se!SeedingAssumption
    /\ Ga!GatewayAssumption

Parts == {"desk", "counters", "procedure", "platform", "seeds", "gateway"}

monitoring == <<counters, cases, happened, calls>>
procedure == <<plan, executed, open, handled, checked>>
platform == <<database, process, attempts, failures, healthy, starting, probe, verdict, away,
              troubles>>
data == <<account, owned, events, rows, tickets, notices, payments, stage, left, changes, seeds>>
gateway == <<offers, passes, inbox, session, token, request, ever, always, made>>

pvars == <<focus, vars, monitoring, procedure, platform, data, gateway>>

PNext ==
    /\ UNCHANGED focus
    /\ \/ focus = "desk" /\ Next
            /\ UNCHANGED <<monitoring, procedure, platform, data, gateway>>
       \/ focus = "counters" /\ Mo!Next
            /\ UNCHANGED <<vars, procedure, platform, data, gateway>>
       \/ focus = "procedure" /\ Pr!Next
            /\ UNCHANGED <<vars, monitoring, platform, data, gateway>>
       \/ focus = "platform" /\ Re!Next
            /\ UNCHANGED <<vars, monitoring, procedure, data, gateway>>
       \/ focus = "seeds" /\ Se!Next
            /\ UNCHANGED <<vars, monitoring, procedure, platform, gateway>>
       \/ focus = "gateway" /\ Ga!Next
            /\ UNCHANGED <<vars, monitoring, procedure, platform, data>>

-----------------------------------------------------------------------------
(***************************************************************************)
(* The properties of the parts under names that the .cfg can use           *)
(***************************************************************************)

\* An alert is raised exactly if what has happened warrants it (Monitoring).
AlertsJustified == Mo!AlertsJustified

\* A procedure reported as completed has handled all data while the platform was closed,
\* and before the check (Procedures).
CompletedIsSound == Pr!CompletedIsSound

\* The platform comes up again after any failures (Readiness).
PlatformRecovers == Re!PlatformRecovers

\* The gateway's /ready fails only if a back end was away (Readiness).
NotReadyMeansAway == Re!NotReadyMeansAway

\* The three demo databases fit together after any seeds (Seeding).
DemoConnected == Se!DemoConnected

\* The table of routes and the handlers of the services agree (Gateway).
RoutesServed == Ga!RoutesServed

\* Everybody is shown what is his to see, and all of it (Gateway).
AnswersFit == Ga!AnswersFit
=============================================================================
