-------------------------- MODULE EventCancellation --------------------------
(***************************************************************************)
(* The event service, the registration service and the gateway together:   *)
(* what the cancellation of an event (POST /events/:id/cancel) does to the *)
(* registrations of that event and to the people who hold them.            *)
(*                                                                         *)
(* The handlers of the registration service are those of Registration; the *)
(* event they look at (fetchPublicEvent) is the one that is cancelled      *)
(* here.  The event service cancels the row first and then calls           *)
(* POST /notifications/event of the registration service, which creates    *)
(* one notification after the other.  The call is best effort.             *)
(*                                                                         *)
(* The organizer's client reaches the event service through the gateway,   *)
(* which gives up after four seconds while the handler goes on: the client *)
(* that is answered 504 or 502 tries again.                                *)
(***************************************************************************)
EXTENDS Registration

CONSTANTS
    MaxAttempts,    \* bound: how often the client tries to cancel the event
    MaxLosses       \* bound: lost calls, and deaths of a process beside MaxCrashes

ASSUME AttemptsAssumption == MaxAttempts \in Nat /\ MaxLosses \in Nat

Attempts == 1 .. MaxAttempts

VARIABLES
    event,          \* the status of the event
    answer,         \* what the gateway has answered to each attempt
    canceller,      \* where the cancel handler of each attempt is
    teller,         \* where its POST /notifications/event handler is
    audience,       \* the registrations that handler has still to notify
    told,           \* told[<<a, r>>]: EVENT_CANCELLED notifications about r that a has led to
    losses,         \* the calls lost and the processes dead so far, beside crashes
    late            \* the registrations inserted after the cancellation

eventVars == <<event, answer, canceller, teller, audience, told, losses, late>>
allVars == <<vars, eventVars>>

CancellationTypeOK ==
    /\ event \in {"PUBLISHED", "CANCELLED"}
    /\ answer \in [Attempts -> {"none", "waiting", "200", "409", "502", "504"}]
    /\ canceller \in [Attempts -> {"idle", "update", "emit", "listen", "done"}]
    /\ teller \in [Attempts -> {"idle", "list", "tell", "done"}]
    /\ audience \in [Attempts -> SUBSET Registers]
    /\ told \in [Attempts \X Registers -> Nat]
    /\ losses \in 0 .. MaxLosses
    /\ late \subseteq Registers

CInit ==
    /\ Init
    /\ event = "PUBLISHED"
    /\ answer = [a \in Attempts |-> "none"]
    /\ canceller = [a \in Attempts |-> "idle"]
    /\ teller = [a \in Attempts |-> "idle"]
    /\ audience = [a \in Attempts |-> {}]
    /\ told = [n \in Attempts \X Registers |-> 0]
    /\ losses = 0
    /\ late = {}

-----------------------------------------------------------------------------
(***************************************************************************)
(* POST /events/:eventId/cancel                                            *)
(***************************************************************************)
Move(a, from, to) ==
    /\ canceller[a] = from
    /\ canceller' = [canceller EXCEPT ![a] = to]

\* The client hears of the end of the handler only if it is still waiting.
Heard(a, code) ==
    answer' = [answer EXCEPT ![a] = IF @ = "waiting" THEN code ELSE @]

\* The client tries again when the gateway could not tell it how it ended.
MaySend(a) ==
    /\ answer[a] = "none"
    /\ a > 1 => answer[a - 1] \in {"502", "504"}

\* Mutant: a cancelled event is cancelled again.
CancelEventFindAgain(a) ==
    /\ MaySend(a)
    /\ Move(a, "idle", "update")
    /\ answer' = [answer EXCEPT ![a] = "waiting"]
    /\ UNCHANGED <<vars, event, teller, audience, told, losses, late>>

\* findById and the check of the status.
CancelEventFind(a) ==
    /\ MaySend(a)
    /\ IF event = "CANCELLED"
       THEN /\ Move(a, "idle", "done")
            /\ answer' = [answer EXCEPT ![a] = "409"]
       ELSE /\ Move(a, "idle", "update")
            /\ answer' = [answer EXCEPT ![a] = "waiting"]
    /\ UNCHANGED <<vars, event, teller, audience, told, losses, late>>

\* repository.cancelEvent
CancelEventUpdate(a) ==
    /\ Move(a, "update", "emit")
    /\ event' = "CANCELLED"
    /\ UNCHANGED <<vars, answer, teller, audience, told, losses, late>>

\* emitNotification reaches the registration service.
Emit(a) ==
    /\ Move(a, "emit", "listen")
    /\ teller' = [teller EXCEPT ![a] = "list"]
    /\ UNCHANGED <<vars, event, answer, audience, told, losses, late>>

\* It does not: the failure is logged and the handler answers 200.
EmitLost(a) ==
    /\ losses < MaxLosses
    /\ losses' = losses + 1
    /\ Move(a, "emit", "done")
    /\ Heard(a, "200")
    /\ UNCHANGED <<vars, event, teller, audience, told, late>>

\* The call returns, or fails with the process it was made to.
EmitReturns(a) ==
    /\ teller[a] = "done"
    /\ Move(a, "listen", "done")
    /\ Heard(a, "200")
    /\ UNCHANGED <<vars, event, teller, audience, told, losses, late>>

\* The event service dies: the gateway's connection is reset.
EventServiceDies(a) ==
    /\ losses < MaxLosses
    /\ losses' = losses + 1
    /\ canceller[a] \in {"update", "emit", "listen"}
    /\ canceller' = [canceller EXCEPT ![a] = "done"]
    /\ Heard(a, "502")
    /\ UNCHANGED <<vars, event, teller, audience, told, late>>

\* upstreamTimeoutMs have passed.
GatewayTimeout(a) ==
    /\ answer[a] = "waiting"
    /\ answer' = [answer EXCEPT ![a] = "504"]
    /\ UNCHANGED <<vars, event, canceller, teller, audience, told, losses, late>>

-----------------------------------------------------------------------------
(***************************************************************************)
(* POST /notifications/event                                               *)
(***************************************************************************)
Tell(a, to, rest) ==
    /\ teller' = [teller EXCEPT ![a] = IF rest = {} THEN "done" ELSE to]
    /\ audience' = [audience EXCEPT ![a] = rest]

\* Mutant: only the confirmed ones are told.
EligibleConfirmed == {r \in Registers : rows[r].status = "CONFIRMED"}

\* listEventRegistrations, without the cancelled ones.
Eligible == {r \in Registers : Active(rows[r])}

ListAudience(a) ==
    /\ teller[a] = "list"
    /\ Tell(a, "tell", Eligible)
    /\ UNCHANGED <<vars, event, answer, canceller, told, losses, late>>

\* One createNotification per turn of the loop, oldest registration first, for the
\* rows as they were when they were listed.
TellNext(a) ==
    /\ teller[a] = "tell"
    /\ \E r \in audience[a] :
          /\ \A q \in audience[a] : rows[r].stamp <= rows[q].stamp
          /\ told' = [told EXCEPT ![<<a, r>>] = @ + 1]
          /\ Tell(a, "tell", audience[a] \ {r})
    /\ UNCHANGED <<vars, event, answer, canceller, losses, late>>

Telling == {a \in Attempts : teller[a] \in {"list", "tell"}}

\* The process dies with everything it was doing.  Nobody comes back to the
\* notifications that were not created.
ServiceDies ==
    /\ \/ Crash /\ UNCHANGED losses
       \/ /\ InFlight = {} /\ Telling # {}
          /\ losses < MaxLosses
          /\ losses' = losses + 1
          /\ UNCHANGED vars
    /\ teller' = [a \in Attempts |-> IF a \in Telling THEN "done" ELSE teller[a]]
    /\ audience' = [a \in Attempts |-> {}]
    /\ UNCHANGED <<event, answer, canceller, told, late>>

-----------------------------------------------------------------------------
(***************************************************************************)
(* The registrations, while the event goes away                            *)
(***************************************************************************)

\* The catalogue serves published events only.
FetchPublicEvent(r) ==
    /\ \E served \in BOOLEAN :
          /\ served => event = "PUBLISHED"
          /\ RegisterFetchEvent(r, served)
    /\ UNCHANGED eventVars

RegisterGoesOn(r) ==
    /\ RegisterStep(r)
    /\ late' = IF event = "CANCELLED" /\ rows'[r] # rows[r] THEN late \cup {r} ELSE late
    /\ UNCHANGED <<event, answer, canceller, teller, audience, told, losses>>

CancelGoesOn(c) ==
    /\ CancelFind(c) \/ CancelStep(c)
    /\ UNCHANGED eventVars

EventSteps(a) ==
    \/ CancelEventUpdate(a)
    \/ Emit(a)
    \/ EmitReturns(a)

TellSteps(a) == ListAudience(a) \/ TellNext(a)

CNext ==
    \/ \E a \in Attempts :
          \/ CancelEventFind(a)
          \/ EventSteps(a)
          \/ EmitLost(a)
          \/ EventServiceDies(a)
          \/ GatewayTimeout(a)
          \/ TellSteps(a)
    \/ ServiceDies
    \/ \E r \in Registers : FetchPublicEvent(r) \/ RegisterGoesOn(r)
    \/ \E c \in Cancels : CancelGoesOn(c)

\* As in Registration, and the handlers of the event service and the loop over the
\* participants go on when nothing kills them.
CFairness ==
    /\ \A r \in Registers : WF_allVars(RegisterGoesOn(r))
    /\ \A c \in Cancels : WF_allVars(CancelStep(c) /\ UNCHANGED eventVars)
    /\ \A a \in Attempts : WF_allVars(EventSteps(a)) /\ WF_allVars(TellSteps(a))

CSpec == CInit /\ [][CNext]_allVars /\ CFairness

-----------------------------------------------------------------------------
(***************************************************************************)
(* Properties                                                              *)
(***************************************************************************)
TimedOut == {a \in Attempts : answer[a] = "504"}

ToldBy(r) == {a \in Attempts : told[<<a, r>>] > 0}

\* Nobody is told of a cancellation that did not take place, and nobody twice of one
\* that did, unless the client tried again because the gateway gave up on an attempt:
\* once more for every attempt it gave up on, however often the two services
\* die and wherever the attempts overlap.
ToldOnce ==
    \A r \in Registers :
        /\ ToldBy(r) # {} => event = "CANCELLED" /\ rows[r].status # "ABSENT"
        /\ \A a \in Attempts : told[<<a, r>>] <= 1
        /\ Cardinality(ToldBy(r)) <= 1 + Cardinality(TimedOut)

\* Whoever holds a registration when the event is cancelled is told of it or gives
\* it up, as long as no call is lost and no process dies: also when the row was
\* waitlisted or promoted between the cancellation and the listing.
EveryoneIsTold ==
    \A r \in Registers :
        event = "CANCELLED" /\ Active(rows[r]) /\ r \notin late
            ~> ToldBy(r) # {} \/ ~Active(rows[r]) \/ crashes > 0 \/ losses > 0
=============================================================================
