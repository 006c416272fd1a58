------------------------------ MODULE Monitoring ------------------------------
(***************************************************************************)
(* What a service counts and when it raises an alert, as                   *)
(* monitoringMetricsEmission.js and monitoringAlertRules.js define it: an  *)
(* emitter writes into a registry in memory, one series per metric and     *)
(* label, and the rules are evaluated on a snapshot of the registry.  The  *)
(* histogram of request durations, which no rule looks at, is left out.    *)
(*                                                                         *)
(* External: the service that calls the emitter, and who asks for alerts.  *)
(* The registry dies with its process.                                     *)
(***************************************************************************)
EXTENDS Integers, FiniteSets, FiniteSetsExt

CONSTANTS
    Labels,         \* the values of the label of a series: a route, a channel, an event, ...
    Bursts,         \* how many calls of one kind come in a row
    Counts,         \* the counts that callers hand over; a negative one is an error of theirs
    Backlogs,       \* numbers of open cases
    MaxCalls        \* bound: bursts of calls since the start

MonitoringAssumption ==
    /\ Bursts \subseteq Nat \ {0} /\ Counts \subseteq Int
    /\ Backlogs \subseteq Nat /\ MaxCalls \in Nat
    /\ IsFiniteSet(Labels)

\* PRIORITY_METRIC_DEFINITIONS: the counters
Counters == {"http_requests", "http_5xx", "sends", "send_failures", "tickets",
             "ticket_errors", "conflicts", "invalid_signatures"}
Series == Counters \X Labels

VARIABLES
    counters,       \* the value of every series; 0 where there is none yet
    cases,          \* the gauge of open reconciliation cases, by category
    happened,       \* history: what has happened in this process, by kind
    calls

vars == <<counters, cases, happened, calls>>

Kinds == {"answered", "answered-badly", "sent", "not-sent", "ticket", "no-ticket",
          "conflict", "invalid-signature"}

TypeOK ==
    /\ counters \in [Series -> Nat]
    /\ cases \in [Labels -> Nat]
    /\ happened \in [Kinds -> Nat]
    /\ calls \in 0 .. MaxCalls

Init ==
    /\ counters = [s \in Series |-> 0]
    /\ cases = [l \in Labels |-> 0]
    /\ happened = [k \in Kinds |-> 0]
    /\ calls = 0

-----------------------------------------------------------------------------
(***************************************************************************)
(* The emitter                                                             *)
(***************************************************************************)

\* n is added to the series l of every metric in names.
Increment(names, l, n) ==
    counters' = [s \in Series |-> counters[s] + IF s[1] \in names /\ s[2] = l THEN n ELSE 0]

Call(kind, n) ==
    /\ calls < MaxCalls
    /\ calls' = calls + 1
    /\ happened' = [happened EXCEPT ![kind] = @ + n]

\* n requests of one route are answered: well, with a 5xx, or with something that is
\* no status code, which is taken for a 500.
RecordHttpRequest(route, outcome, n) ==
    LET bad == outcome \in {"5xx", "no-code"} IN
    /\ Call(IF bad THEN "answered-badly" ELSE "answered", n)
    /\ Increment({"http_requests"} \cup {m \in {"http_5xx"} : bad}, route, n)
    /\ UNCHANGED cases

\* A bug: a failure does not count as an attempt.
FailuresAlone(failed, all, failures) == {IF failed THEN failures ELSE all}

\* The counters of an attempt.
Attempt(failed, all, failures) == {all} \cup {m \in {failures} : failed}

\* n messages of one channel are sent or not; every status but SENT and SUCCESS is a
\* failure, that of the SMS simulator included.
RecordNotificationSend(channel, status, n) ==
    LET failed == status \notin {"SENT", "SUCCESS"} IN
    /\ Call(IF failed THEN "not-sent" ELSE "sent", n)
    /\ Increment(Attempt(failed, "sends", "send_failures"), channel, n)
    /\ UNCHANGED cases

RecordTicketGeneration(status, l, n) ==
    LET failed == status \notin {"SUCCESS", "GENERATED"} IN
    /\ Call(IF failed THEN "no-ticket" ELSE "ticket", n)
    /\ Increment(Attempt(failed, "tickets", "ticket_errors"), l, n)
    /\ UNCHANGED cases

\* normalizeNonNegativeNumber
Counted(count) == IF count < 0 THEN 1 ELSE count

RecordCapacityConflict(event, count) ==
    /\ Call("conflict", Counted(count))
    /\ Increment({"conflicts"}, event, Counted(count))
    /\ UNCHANGED cases

RecordInvalidSignature(provider, count) ==
    /\ Call("invalid-signature", Counted(count))
    /\ Increment({"invalid_signatures"}, provider, Counted(count))
    /\ UNCHANGED cases

SetCasesOpen(category, value) ==
    /\ calls < MaxCalls
    /\ calls' = calls + 1
    /\ cases' = [cases EXCEPT ![category] = value]
    /\ UNCHANGED <<counters, happened>>

\* The process ends and is started again; calls stays bounded over all its lives.
Restart ==
    /\ counters' = [s \in Series |-> 0]
    /\ cases' = [l \in Labels |-> 0]
    /\ happened' = [k \in Kinds |-> 0]
    /\ UNCHANGED calls

Next ==
    \/ \E l \in Labels, o \in {"2xx", "5xx", "no-code"}, n \in Bursts : RecordHttpRequest(l, o, n)
    \/ \E l \in Labels, s \in {"SENT", "FAILED", "SIMULATED"}, n \in Bursts :
            RecordNotificationSend(l, s, n)
    \/ \E l \in Labels, s \in {"GENERATED", "FAILED"}, n \in Bursts :
            RecordTicketGeneration(s, l, n)
    \/ \E l \in Labels, c \in Counts : RecordCapacityConflict(l, c) \/ RecordInvalidSignature(l, c)
    \/ \E l \in Labels, v \in Backlogs : SetCasesOpen(l, v)
    \/ Restart

Spec == Init /\ [][Next]_vars

-----------------------------------------------------------------------------
(***************************************************************************)
(* The rules                                                               *)
(***************************************************************************)

\* DEFAULT_MONITORING_ALERT_RULES, with thresholds in thousandths
Rules ==
    {[id |-> "N01", operator |-> "GT", threshold |-> 5000, channels |-> {"slack", "email"}],
     [id |-> "T01", operator |-> "GT", threshold |-> 3000, channels |-> {"slack", "pager"}],
     [id |-> "R01", operator |-> "GTE", threshold |-> 1000, channels |-> {"slack", "pager"}],
     [id |-> "P01", operator |-> "GT", threshold |-> 20000, channels |-> {"slack"}],
     [id |-> "P02", operator |-> "GT", threshold |-> 30000, channels |-> {"slack"}],
     [id |-> "G01", operator |-> "GT", threshold |-> 2000, channels |-> {"slack", "pager"}]}

\* sumSeriesValue: over all series of a metric
SumSeriesValue(series) == MapThenSumSet(LAMBDA l : series[l], Labels)

Total(name) == SumSeriesValue([l \in Labels |-> counters[<<name, l>>]])

CasesOpen == SumSeriesValue(cases)

\* A share in thousandths of a percent, rounded to the nearest one.
RatioPercent(part, whole) ==
    IF whole <= 0 THEN 0 ELSE (2 * 100000 * part + whole) \div (2 * whole)

\* buildAlertObservationsFromSnapshot, in thousandths
Observed ==
    [N01 |-> RatioPercent(Total("send_failures"), Total("sends")),
     T01 |-> RatioPercent(Total("ticket_errors"), Total("tickets")),
     R01 |-> 1000 * Total("conflicts"),
     P01 |-> 1000 * Total("invalid_signatures"),
     P02 |-> 1000 * CasesOpen,
     G01 |-> RatioPercent(Total("http_5xx"), Total("http_requests"))]

\* A bug: the operator of a rule is not looked at.
ExceedsAlways(value, operator, threshold) == value > threshold

\* compareValue; the rules use these two of its operators.
Exceeds(value, operator, threshold) ==
    \/ operator = "GT" /\ value > threshold
    \/ operator = "GTE" /\ value >= threshold

\* evaluateAlertRules
Triggered ==
    LET seen == Observed IN {r \in Rules : Exceeds(seen[r.id], r.operator, r.threshold)}

\* buildAlertDispatchPayloads: who is told of which alert.
Payloads == UNION {{<<r.id, c>> : c \in r.channels} : r \in Triggered}

-----------------------------------------------------------------------------
(***************************************************************************)
(* Properties                                                              *)
(***************************************************************************)

MoreThan(percent, part, rest) == 100 * part > percent * (part + rest)

Warranted ==
    {i \in {"N01"} : MoreThan(5, happened["not-sent"], happened["sent"])}
    \cup {i \in {"T01"} : MoreThan(3, happened["no-ticket"], happened["ticket"])}
    \cup {i \in {"R01"} : happened["conflict"] > 0}
    \cup {i \in {"P01"} : happened["invalid-signature"] > 20}
    \cup {i \in {"P02"} : CasesOpen > 30}
    \cup {i \in {"G01"} : MoreThan(2, happened["answered-badly"], happened["answered"])}

\* A share is rounded to a thousandth of a percent, which is exact enough for that many.
FewAttempts == \A m \in {"sends", "tickets", "http_requests"} : Total(m) <= 2000

\* Somebody is told of an alert exactly if what has happened since the process was
\* started warrants it: over all channels, routes, events and providers together, with
\* failures counted among the attempts, and to the last failure at the threshold
\* (buildAlertObservationsFromSnapshot, evaluateAlertRules).  With more than 2000 attempts,
\* a share that is above a threshold may be rounded down to it.
AlertsJustified ==
    FewAttempts =>
        LET warranted == Warranted IN
        Payloads =
            UNION {{<<r.id, c>> : c \in r.channels} : r \in {r \in Rules : r.id \in warranted}}
=============================================================================
