------------------------------ MODULE Readiness ------------------------------
(***************************************************************************)
(* How the platform comes up and how it tells that it is there: the boot   *)
(* loops of the services, their /health and /ready, the probe by which the *)
(* gateway answers its own /ready, and the order in which                  *)
(* docker-compose.backend.yml starts the containers.                       *)
(*                                                                         *)
(* External: Docker, which starts a container once what it depends on has  *)
(* been healthy, probes it, starts it again when its process has ended,    *)
(* and gives up starting things that depend on an unhealthy container; and *)
(* the database, which fails and comes back.                               *)
(***************************************************************************)
EXTENDS Naturals, FiniteSets

CONSTANTS
    MaxBootAttempts,    \* how often a service tries to reach the database before it ends
    Retries,            \* how many probes in a row make a container unhealthy
    MaxTroubles         \* bound: failures of the database, of processes and of answers

ReadinessAssumption ==
    MaxBootAttempts \in Nat \ {0} /\ Retries \in Nat \ {0} /\ MaxTroubles \in Nat

Backends == {"identity", "events", "registration"}
Services == Backends \cup {"gateway", "frontend"}

\* depends_on, apart from the database, on which the back ends depend
Requires == [identity |-> {}, events |-> {}, registration |-> {"events"},
             gateway |-> Backends, frontend |-> {"gateway"}]

VARIABLES
    database,       \* TRUE: it answers
    process,        \* of every container: absent, booting, listening, exited
    attempts,       \* of the boot loop
    failures,       \* the probes of a container that have failed in a row
    healthy,        \* the containers that have been healthy
    starting,       \* TRUE while `docker compose up' has not given up
    probe,          \* what the gateway's /ready has found out; "idle" if nobody asks
    verdict,        \* what the last one said: "", "ready", "not ready"
    away,           \* history: back ends that were not there, or not heard, during the probe
    troubles

vars == <<database, process, attempts, failures, healthy, starting, probe, verdict, away,
          troubles>>

Found == {"idle", "ask /ready", "ask /health", "/ready", "/health", "none"}

TypeOK ==
    /\ database \in BOOLEAN
    /\ process \in [Services -> {"absent", "booting", "listening", "exited"}]
    /\ attempts \in [Services -> 0 .. MaxBootAttempts]
    /\ failures \in [Services -> 0 .. Retries]
    /\ healthy \subseteq Services
    /\ starting \in BOOLEAN
    /\ probe \in [Backends -> Found]
    /\ verdict \in {"", "ready", "not ready"}
    /\ away \subseteq Backends
    /\ troubles \in 0 .. MaxTroubles

\* The beginning; up says whether somebody starts the platform.
InitAs(up) ==
    /\ database = TRUE
    /\ process = [s \in Services |-> "absent"]
    /\ attempts = [s \in Services |-> 0]
    /\ failures = [s \in Services |-> 0]
    /\ healthy = {}
    /\ starting = up
    /\ probe = [s \in Backends |-> "idle"]
    /\ verdict = ""
    /\ away = {}
    /\ troubles = 0

Init == InitAs(TRUE)

Asking == \E s \in Backends : probe[s] # "idle"

-----------------------------------------------------------------------------
(***************************************************************************)
(* Docker and the database                                                 *)
(***************************************************************************)

Trouble == troubles < MaxTroubles /\ troubles' = troubles + 1

DatabaseFails ==
    /\ Trouble
    /\ database
    /\ database' = FALSE
    /\ UNCHANGED <<process, attempts, failures, healthy, starting, probe, verdict, away>>

DatabaseReturns ==
    /\ ~database
    /\ database' = TRUE
    /\ UNCHANGED <<process, attempts, failures, healthy, starting, probe, verdict, away, troubles>>

\* The process of a container starts, for the first time or again.
Begin(s) ==
    /\ process' = [process EXCEPT ![s] = "booting"]
    /\ attempts' = [attempts EXCEPT ![s] = 0]
    /\ failures' = [failures EXCEPT ![s] = 0]
    /\ UNCHANGED <<database, healthy, starting, probe, verdict, away, troubles>>

Create(s) ==
    /\ starting
    /\ process[s] = "absent"
    /\ Requires[s] \subseteq healthy
    /\ Begin(s)

\* restart: unless-stopped
RestartContainer(s) == process[s] = "exited" /\ Begin(s)

\* Something that is not started yet depends on a container that became unhealthy.
GiveUp ==
    /\ starting
    /\ \E s \in Services : process[s] = "absent" /\
         \E d \in Requires[s] \ healthy : failures[d] = Retries
    /\ starting' = FALSE
    /\ UNCHANGED <<database, process, attempts, failures, healthy, probe, verdict, away, troubles>>

\* A process ends; what it was doing is lost.
Ends(s) ==
    /\ process' = [process EXCEPT ![s] = "exited"]
    /\ away' = away \cup ({s} \cap Backends)
    /\ probe' = IF s = "gateway" THEN [b \in Backends |-> "idle"] ELSE probe

Crash(s) ==
    /\ Trouble
    /\ process[s] = "listening"
    /\ Ends(s)
    /\ UNCHANGED <<database, attempts, failures, healthy, starting, verdict>>

\* Docker's probe of a container has an outcome.
Probed(s, good) ==
    /\ failures' = [failures EXCEPT
            ![s] = IF good THEN 0 ELSE IF @ < Retries THEN @ + 1 ELSE @]
    /\ healthy' = IF good THEN healthy \cup {s} ELSE healthy

-----------------------------------------------------------------------------
(***************************************************************************)
(* The services                                                            *)
(***************************************************************************)

\* A bug: a service that has not reached the database stays, and does not listen.
BootHangs(s) ==
    /\ process[s] = "booting"
    /\ attempts[s] < MaxBootAttempts
    /\ IF database \/ s \notin Backends
       THEN process' = [process EXCEPT ![s] = "listening"] /\ UNCHANGED attempts
       ELSE attempts' = [attempts EXCEPT ![s] = @ + 1] /\ UNCHANGED process
    /\ UNCHANGED <<database, failures, healthy, starting, probe, verdict, away, troubles>>

\* One attempt of the boot loop.  Only the back ends need the database.
Boot(s) ==
    /\ process[s] = "booting"
    /\ IF database \/ s \notin Backends
       THEN process' = [process EXCEPT ![s] = "listening"] /\ UNCHANGED <<attempts, probe, away>>
       ELSE /\ attempts' = [attempts EXCEPT ![s] = @ + 1]
            /\ IF attempts[s] + 1 = MaxBootAttempts
               THEN Ends(s)
               ELSE UNCHANGED <<process, probe, away>>
    /\ UNCHANGED <<database, failures, healthy, starting, verdict, troubles>>

\* /health needs the process alone, /ready the database as well.
Answers(s, path) ==
    process[s] = "listening" /\ (path = "/ready" /\ s \in Backends => database)

\* The health check of a back end, and that of the frontend (its /api/health).
HealthCheck(s) ==
    /\ s # "gateway"
    /\ process[s] \in {"booting", "listening"}
    /\ Probed(s, Answers(s, "/ready"))
    /\ UNCHANGED <<database, process, attempts, starting, probe, verdict, away, troubles>>

-----------------------------------------------------------------------------
(***************************************************************************)
(* GET /ready of the gateway                                               *)
(***************************************************************************)

Ask ==
    /\ process["gateway"] = "listening"
    /\ ~Asking
    /\ probe' = [s \in Backends |-> "ask /ready"]
    /\ away' = {s \in Backends : process[s] # "listening"}
    /\ UNCHANGED <<database, process, attempts, failures, healthy, starting, verdict, troubles>>

\* A bug: /ready alone is asked for.
AfterReadyNone == "none"

\* What is asked after /ready has failed.
AfterReady == "ask /health"

\* checkUpstreamReadiness, for the three back ends at the same time
AskReady(s) ==
    /\ probe[s] = "ask /ready"
    /\ probe' = [probe EXCEPT ![s] = IF Answers(s, "/ready") THEN "/ready" ELSE AfterReady]
    /\ UNCHANGED <<database, process, attempts, failures, healthy, starting, verdict, away,
                   troubles>>

AskHealth(s) ==
    /\ probe[s] = "ask /health"
    /\ probe' = [probe EXCEPT ![s] = IF Answers(s, "/health") THEN "/health" ELSE "none"]
    /\ UNCHANGED <<database, process, attempts, failures, healthy, starting, verdict, away,
                   troubles>>

\* An answer does not come within the timeout of the gateway.
AnswerLost(s) ==
    /\ Trouble
    /\ \/ probe[s] = "ask /ready" /\ probe' = [probe EXCEPT ![s] = AfterReady] /\ UNCHANGED away
       \/ probe[s] = "ask /health" /\ probe' = [probe EXCEPT ![s] = "none"]
            /\ away' = away \cup {s}
    /\ UNCHANGED <<database, process, attempts, failures, healthy, starting, verdict>>

\* All three are through; the health check of the container is the one who asks.
Respond ==
    /\ \A s \in Backends : probe[s] \in {"/ready", "/health", "none"}
    /\ verdict' = IF \E s \in Backends : probe[s] = "none" THEN "not ready" ELSE "ready"
    /\ Probed("gateway", verdict' = "ready")
    /\ probe' = [s \in Backends |-> "idle"]
    /\ UNCHANGED <<database, process, attempts, starting, away, troubles>>

Probing(s) == AskReady(s) \/ AskHealth(s)

Next ==
    \/ DatabaseFails
    \/ DatabaseReturns
    \/ GiveUp
    \/ \E s \in Services : Create(s) \/ RestartContainer(s) \/ Crash(s) \/ Boot(s) \/ HealthCheck(s)
    \/ Ask
    \/ \E s \in Backends : Probing(s) \/ AnswerLost(s)
    \/ Respond

\* Boot loops, probes and Docker go on; the database comes back.
Fairness ==
    /\ WF_vars(DatabaseReturns)
    /\ \A s \in Services :
        WF_vars(Create(s)) /\ WF_vars(RestartContainer(s)) /\ WF_vars(Boot(s))
        /\ WF_vars(HealthCheck(s))
    /\ WF_vars(Ask)
    /\ \A s \in Backends : WF_vars(Probing(s))
    /\ WF_vars(Respond)

Spec == Init /\ [][Next]_vars /\ Fairness

-----------------------------------------------------------------------------
(***************************************************************************)
(* Properties                                                              *)
(***************************************************************************)

AllThere == \A s \in Services : process[s] = "listening" /\ failures[s] = 0 /\ s \in healthy

\* Whatever fails, and however often the boot loops give up, everything is there and
\* healthy again in the end, unless Docker was discouraged while it started things:
\* nobody waits for somebody who waits for him.
PlatformRecovers == []<>(AllThere \/ ~starting)

\* The gateway calls the platform not ready only if a back end was not there, or could
\* not be heard, at some time while it asked; the database alone does not make it say
\* so, as /health is asked where /ready fails.
NotReadyMeansAway == [][Respond /\ verdict' = "not ready" => away # {}]_vars
=============================================================================
