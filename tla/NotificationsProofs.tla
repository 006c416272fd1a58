-------------------------- MODULE NotificationsProofs --------------------------
(***************************************************************************)
(* What TLAPS proves of Notifications, for any number of recipients, runs  *)
(* of the worker, replays, retries and failures: every mail beyond the     *)
(* first has its reason, and what is settled stays so.                     *)
(***************************************************************************)
EXTENDS Notifications, FiniteSetTheorems, TLAPS

-----------------------------------------------------------------------------
(***************************************************************************)
(* The runs of the worker                                                  *)
(***************************************************************************)
Run == [pc : {"idle", "next", "send", "answer"},
        message : Messages \cup {None}, place : Nat,
        request : Request \cup {None},
        results : SUBSET (Request \X {"SENT", "FAILED"})]

\* What a run sends it has chosen, and a run for a message sends the originals in turn.
RunOK(run) ==
    /\ run.pc \in {"send", "answer"} => run.request \in Request
    /\ run.request # None /\ run.message # None => run.request = Original(run.message, run.place)

RunsOK == \A s \in Slots : RunOK(slot[s])

LEMMA Originals ==
    ASSUME NEW message \in Messages, NEW place \in 1 .. Fan[message]
    PROVE  Original(message, place) \in Request
<1>1. [message |-> message, place |-> place] \in Key
    BY DEF Key
<1>2. 0 \in 0 .. MaxCopies
    BY NotificationsAssumption
<1>3. QED
    BY <1>1, <1>2 DEF Original, Request

LEMMA IdleRun == Idle \in Run /\ RunOK(Idle) /\ Idle.pc = "idle"
BY DEF Idle, Run, RunOK

LEMMA FirstRequest ==
    ASSUME NEW message \in Messages
    PROVE  /\ Begun(message) \in Run
           /\ RunOK(Begun(message))
           /\ Begun(message).request.copy = 0
<1>1. 1 \in 1 .. Fan[message]
    BY NotificationsAssumption
<1>2. Original(message, 1) \in Request
    BY <1>1, Originals
<1>3. Begun(message) \in Run
    BY <1>2 DEF Begun, Run
<1>4. RunOK(Begun(message))
    BY DEF Begun, RunOK
<1>5. Begun(message).request.copy = 0
    BY DEF Begun, Original
<1>6. QED
    BY <1>3, <1>4, <1>5

LEMMA RunFields ==
    ASSUME NEW run \in Run
    PROVE  /\ \A pc \in {"idle", "next", "send", "answer"} : [run EXCEPT !.pc = pc] \in Run
           /\ \A place \in Nat : [run EXCEPT !.place = place] \in Run
           /\ \A r \in Request \cup {None} : [run EXCEPT !.request = r] \in Run
           /\ \A results \in SUBSET (Request \X {"SENT", "FAILED"}) :
                  [run EXCEPT !.results = results] \in Run
           /\ \A pc, place, r : [run EXCEPT !.pc = pc, !.place = place, !.request = r]
                               = [[[run EXCEPT !.pc = pc] EXCEPT !.place = place]
                                    EXCEPT !.request = r]
           /\ run.place + 1 \in Nat
BY DEF Run

\* The run that goes on with the next recipient.
LEMMA AdvanceRun ==
    ASSUME NEW run \in Run, run.request \in Request
    PROVE  /\ Advance(run) \in Run
           /\ RunOK(Advance(run))
           /\ Advance(run).pc = "next"
           /\ Advance(run).results = run.results
           /\ Advance(run).request # None => Advance(run).request.copy = 0
<1> DEFINE place == run.place + 1
           more == run.message # None /\ place <= Fan[run.message]
           r == IF more THEN Original(run.message, place) ELSE None
           next == [run EXCEPT !.pc = "next", !.place = place, !.request = r]
<1>1. Advance(run) = next
    BY DEF Advance
<1>2. more => run.message \in Messages /\ place \in 1 .. Fan[run.message]
    BY NotificationsAssumption DEF Run
<1>3. r \in Request \cup {None}
    BY <1>2, Originals
<1>4. /\ next.pc = "next" /\ next.place = place /\ next.request = r
      /\ next.message = run.message /\ next.results = run.results
    BY DEF Run
<1>5. next \in Run
    BY <1>3, RunFields
<1>6. r # None => r = Original(run.message, place)
    OBVIOUS
<1>7. r # None => r.copy = 0
    BY <1>6 DEF Original
<1> HIDE DEF next, r, more, place
<1>8. QED
    BY <1>1, <1>4, <1>5, <1>6, <1>7 DEF RunOK

LEMMA WithRun ==
    ASSUME NEW run \in Run, RunOK(run), run.request \in Request, NEW result \in {"SENT", "FAILED"}
    PROVE  /\ With(run, result) \in Run
           /\ RunOK(With(run, result))
           /\ With(run, result).request = run.request
           /\ With(run, result).results = run.results \cup {<<run.request, result>>}
<1>1. With(run, result) = [run EXCEPT !.results = run.results \cup {<<run.request, result>>}]
    BY DEF With, Run
<1>2. run.results \cup {<<run.request, result>>} \in SUBSET (Request \X {"SENT", "FAILED"})
    BY DEF Run
<1>3. QED
    BY <1>1, <1>2 DEF Run, RunOK

-----------------------------------------------------------------------------
(***************************************************************************)
(* What the steps do to the runs                                           *)
(***************************************************************************)

\* The run in slot s goes on as run.
Goes(s, run) == slot' = [slot EXCEPT ![s] = run] /\ run \in Run /\ RunOK(run)

\* The requests that the run may take up without an entry are originals.
Fresh(s, run) ==
    run.request # None /\ run.request # slot[s].request => run.request.copy = 0

LEMMA SlotType == TypeOK => slot \in [Slots -> Run]
BY DEF TypeOK, Run

LEMMA Going ==
    ASSUME TypeOK, RunsOK, NEW s \in Slots, NEW run, Goes(s, run)
    PROVE  slot' \in [Slots -> Run] /\ RunsOK'
BY SlotType DEF Goes, RunsOK

\* A run that goes on with the next request.
LEMMA Onward ==
    ASSUME TypeOK, RunsOK, NEW s \in Slots, slot[s].request \in Request,
           NEW run \in {slot[s], With(slot[s], "SENT"), With(slot[s], "FAILED")}
    PROVE  /\ Advance(run) \in Run /\ RunOK(Advance(run))
           /\ Advance(run).pc = "next"
           /\ Advance(run).results = run.results
           /\ Fresh(s, Advance(run))
<1>1. slot[s] \in Run /\ RunOK(slot[s])
    BY SlotType DEF RunsOK
<1>2. run \in Run /\ RunOK(run) /\ run.request = slot[s].request
    BY <1>1, WithRun
<1>3. QED
    BY <1>2, AdvanceRun DEF Fresh

LEMMA RetriedRun ==
    ASSUME NEW r \in Request, NEW run, run = [Idle EXCEPT !.pc = "next", !.request = r]
    PROVE  run \in Run /\ RunOK(run) /\ run.pc = "next" /\ run.request = r /\ run.results = {}
<1>1. /\ [Idle EXCEPT !.pc = "next"] \in Run
      /\ run = [[Idle EXCEPT !.pc = "next"] EXCEPT !.request = r]
    BY IdleRun DEF Run
<1>2. run \in Run
    <2>1. \A q \in Run : [q EXCEPT !.request = r] \in Run
        BY RunFields
    <2>2. QED
        BY <1>1, <2>1
<1>3. run.pc = "next" /\ run.request = r /\ run.results = {} /\ run.message = None
    BY DEF Idle
<1>4. QED
    BY <1>2, <1>3 DEF RunOK

-----------------------------------------------------------------------------
(***************************************************************************)
(* Types                                                                   *)
(***************************************************************************)
LEMMA Counters ==
    ASSUME TypeOK, Trouble
    PROVE  {crashes + 1, faults + 1, overlaps + 1} \subseteq 0 .. MaxTroubles
BY NotificationsAssumption DEF TypeOK, Trouble

LEMMA PatchTypes ==
    ASSUME NEW old \in Entry \cup {None}, NEW result
    PROVE  /\ Patched(old, result) \in Entry
           /\ old # None => \A again \in BOOLEAN : RetryPatch(old, again) \in Entry
           /\ old # None => SuccessPatch(old) \in Entry
<1>1. ASSUME NEW known \in Entry
      PROVE  /\ \A again \in BOOLEAN : RetryPatch(known, again) \in Entry
             /\ SuccessPatch(known) \in Entry
    BY <1>1 DEF RetryPatch, SuccessPatch, Entry, Statuses
<1>2. [status |-> "PENDING", attempts |-> 0] \in Entry
    BY DEF Entry, Statuses
<1> DEFINE known == IF old = None THEN [status |-> "PENDING", attempts |-> 0] ELSE old
<1>3. known \in Entry
    BY <1>2
<1>4. Patched(old, result) \in {SuccessPatch(known), known, RetryPatch(known, TRUE)}
    BY DEF Patched
<1> HIDE DEF known
<1>5. QED
    BY <1>1, <1>3, <1>4

LEMMA RequestKeys == \A r \in Request : r.key \in Key /\ r.copy \in 0 .. MaxCopies
BY DEF Request

LEMMA TypeInit == Init => TypeOK /\ RunsOK
<1> SUFFICES ASSUME Init PROVE TypeOK /\ RunsOK
    OBVIOUS
<1>1. slot \in [Slots -> Run] /\ RunsOK
    BY IdleRun DEF Init, RunsOK
<1>2. 0 \in 0 .. MaxClock /\ 0 \in 0 .. MaxTroubles
    BY NotificationsAssumption
<1>3. QED
    BY <1>1, <1>2 DEF Init, TypeOK, Run

LEMMA TypeNext == TypeOK /\ RunsOK /\ [Next]_vars => TypeOK' /\ RunsOK'
<1> SUFFICES ASSUME TypeOK, RunsOK, [Next]_vars PROVE TypeOK' /\ RunsOK'
    OBVIOUS
<1> USE DEF worker, outside
<1>1. ASSUME UNCHANGED slot PROVE RunsOK'
    BY <1>1 DEF RunsOK
<1>2. CASE UNCHANGED vars
    BY <1>1, <1>2 DEF TypeOK, vars
<1>3. CASE Moderate
    <2>1. event' \in {"PENDING_REVIEW", "CHANGES_REQUESTED", "PUBLISHED", "SUSPENDED", "CANCELLED"}
        BY <1>3 DEF Moderate, Moderation, TypeOK
    <2>2. QED
        BY <1>1, <1>3, <2>1 DEF Moderate, TypeOK
<1>4. CASE CancelEvent
    BY <1>1, <1>4 DEF CancelEvent, TypeOK
<1>5. CASE Tick
    <2>1. clock + 1 \in 0 .. MaxClock
        BY <1>5, NotificationsAssumption DEF Tick, TypeOK
    <2>2. QED
        BY <1>1, <1>5, <2>1 DEF Tick, TypeOK
<1>6. CASE Schedule
    BY <1>1, <1>6 DEF Schedule, TypeOK
<1>7. ASSUME NEW w \in Windows, Remind(w) PROVE TypeOK' /\ RunsOK'
    <2>1. [status |-> "PENDING", attempts |-> 0] \in Entry
        BY DEF Entry, Statuses
    <2>2. entry' \in [Request -> Entry \cup {None}]
        <3>1. CASE w \in Texts
            BY <1>7, <2>1, <3>1 DEF Remind, TypeOK
        <3>2. CASE w \notin Texts
            BY <1>7, <3>2 DEF Remind, TypeOK
        <3>3. QED
            BY <3>1, <3>2
    <2>3. broker' \in [Messages -> {None, "pending", "acknowledged"}]
        BY <1>7 DEF Remind, TypeOK, Messages
    <2>4. reminder' \in [Windows -> {None, "PENDING", "SENT", "CANCELLED"}]
        BY <1>7 DEF Remind, TypeOK
    <2>5. QED
        BY <1>1, <1>7, <2>2, <2>3, <2>4 DEF Remind, TypeOK
<1>8. ASSUME NEW w \in Windows, CancelReminder(w) PROVE TypeOK' /\ RunsOK'
    BY <1>1, <1>8 DEF CancelReminder, TypeOK
<1>9. ASSUME NEW s \in Slots, NEW run, Goes(s, run), UNCHANGED <<outside, broker, logged, entry>>,
             processed' \subseteq Request, mails' \in [Key -> Nat], repeats' \in [Key -> Nat],
             faults' \in 0 .. MaxTroubles, overlaps' \in 0 .. MaxTroubles
      PROVE  TypeOK' /\ RunsOK'
    BY <1>9, Going DEF TypeOK, Run
<1>10. ASSUME NEW s \in Slots, Receive(s) PROVE TypeOK' /\ RunsOK'
    <2>1. PICK message \in Messages : slot' = [slot EXCEPT ![s] = Begun(message)]
        BY <1>10 DEF Receive
    <2>2. Goes(s, Begun(message))
        BY <2>1, FirstRequest DEF Goes
    <2>3. overlaps' \in 0 .. MaxTroubles
        BY <1>10, Counters DEF Receive, TypeOK
    <2>4. QED
        BY <1>9, <1>10, <2>2, <2>3 DEF Receive, TypeOK
<1>11. ASSUME NEW s \in Slots, Reject(s) PROVE TypeOK' /\ RunsOK'
    <2>1. slot[s].request \in Request
        BY <1>11, SlotType DEF Reject, Run
    <2>2. Goes(s, Advance(slot[s]))
        BY <1>11, <2>1, SlotType, Onward DEF Goes, Reject, Rejected
    <2>3. QED
        BY <1>9, <1>11, <2>2 DEF Reject, TypeOK
<1>12. ASSUME NEW s \in Slots, SkipProcessed(s) PROVE TypeOK' /\ RunsOK'
    <2>1. slot[s].request \in Request
        BY <1>12 DEF SkipProcessed, TypeOK
    <2>2. Goes(s, Advance(With(slot[s], "SENT")))
        BY <1>12, <2>1, SlotType, Onward DEF Goes, SkipProcessed
    <2>3. QED
        BY <1>9, <1>12, <2>2 DEF SkipProcessed, TypeOK
<1>13. ASSUME NEW s \in Slots, Start(s) PROVE TypeOK' /\ RunsOK'
    <2>1. slot[s] \in Run /\ RunOK(slot[s]) /\ slot[s].request \in Request
        BY <1>13, SlotType DEF Start, Run, RunsOK
    <2>2. Goes(s, [slot[s] EXCEPT !.pc = "send"])
        <3>1. slot' = [slot EXCEPT ![s] = [slot[s] EXCEPT !.pc = "send"]]
            BY <1>13, SlotType DEF Start
        <3>2. [slot[s] EXCEPT !.pc = "send"] \in Run
            BY <2>1, RunFields
        <3>3. RunOK([slot[s] EXCEPT !.pc = "send"])
            BY <2>1 DEF RunOK, Run
        <3>4. QED
            BY <3>1, <3>2, <3>3 DEF Goes
    <2>3. repeats' \in [Key -> Nat]
        BY <1>13, <2>1, RequestKeys DEF Start, TypeOK
    <2>4. QED
        BY <1>9, <1>13, <2>2, <2>3 DEF Start, TypeOK
<1>14. ASSUME NEW s \in Slots, slot[s].pc \in {"send", "answer"}
       PROVE  /\ slot[s] \in Run /\ RunOK(slot[s])
              /\ slot[s].request \in Request /\ slot[s].request.key \in Key
    BY <1>14, SlotType, RequestKeys DEF RunsOK, RunOK
<1>15. ASSUME NEW s \in Slots, AttemptFails(s) PROVE TypeOK' /\ RunsOK'
    <2>1. Goes(s, Advance(With(slot[s], "FAILED")))
        BY <1>14, <1>15, SlotType, Onward DEF Goes, AttemptFails, Failed
    <2>2. QED
        BY <1>9, <1>15, <2>1 DEF AttemptFails, TypeOK
<1>16. ASSUME NEW s \in Slots, ProviderAccepts(s) PROVE TypeOK' /\ RunsOK'
    <2>1. slot[s] \in Run /\ RunOK(slot[s]) /\ slot[s].request \in Request
          /\ slot[s].request.key \in Key
        BY <1>14, <1>16 DEF ProviderAccepts
    <2>2. Goes(s, [slot[s] EXCEPT !.pc = "answer"])
        <3>1. slot' = [slot EXCEPT ![s] = [slot[s] EXCEPT !.pc = "answer"]]
            BY <1>16, SlotType DEF ProviderAccepts
        <3>2. [slot[s] EXCEPT !.pc = "answer"] \in Run
            BY <2>1, RunFields
        <3>3. RunOK([slot[s] EXCEPT !.pc = "answer"])
            BY <2>1 DEF RunOK, Run
        <3>4. QED
            BY <3>1, <3>2, <3>3 DEF Goes
    <2>3. mails' \in [Key -> Nat]
        BY <1>16, <2>1 DEF ProviderAccepts, TypeOK
    <2>4. QED
        BY <1>9, <1>16, <2>2, <2>3 DEF ProviderAccepts, TypeOK
<1>17. ASSUME NEW s \in Slots, Answered(s) PROVE TypeOK' /\ RunsOK'
    <2>1. Goes(s, Advance(With(slot[s], "SENT")))
        BY <1>14, <1>17, SlotType, Onward DEF Goes, Answered
    <2>2. processed' \subseteq Request
        BY <1>14, <1>17 DEF Answered, Remembered, TypeOK
    <2>3. QED
        BY <1>9, <1>17, <2>1, <2>2 DEF Answered, TypeOK
<1>18. ASSUME NEW s \in Slots, AnswerLost(s) PROVE TypeOK' /\ RunsOK'
    <2>1. Goes(s, Advance(With(slot[s], "FAILED")))
        BY <1>14, <1>18, SlotType, Onward DEF Goes, AnswerLost, Failed
    <2>2. repeats' \in [Key -> Nat]
        BY <1>14, <1>18 DEF AnswerLost, TypeOK
    <2>3. faults' \in 0 .. MaxTroubles
        BY <1>18, Counters DEF AnswerLost
    <2>4. QED
        BY <1>9, <1>18, <2>1, <2>2, <2>3 DEF AnswerLost, TypeOK
<1>19. ASSUME NEW s \in Slots, Return(s) PROVE TypeOK' /\ RunsOK'
    <2>1. Goes(s, Idle)
        BY <1>19, IdleRun DEF Goes, Return
    <2>2. slot' \in [Slots -> Run] /\ RunsOK'
        BY <2>1, Going
    <2>3. logged' \in [Key -> SUBSET {"SENT", "FAILED", "SIMULATED"}]
        <3>1. \A y \in slot[s].results : y[2] \in {"SENT", "FAILED"}
            BY SlotType DEF Run
        <3>2. QED
            BY <1>19, <3>1 DEF Return, TypeOK
    <2>4. entry' \in [Request -> Entry \cup {None}]
        BY <1>19, PatchTypes DEF Return, TypeOK
    <2>5. broker' \in [Messages -> {None, "pending", "acknowledged"}]
        BY <1>19 DEF Return, TypeOK
    <2>6. QED
        BY <1>19, <2>2, <2>3, <2>4, <2>5 DEF Return, TypeOK, Run
<1>20. ASSUME NEW s \in Slots, NEW r \in Request, Retry(s, r) PROVE TypeOK' /\ RunsOK'
    <2>1. Goes(s, [Idle EXCEPT !.pc = "next", !.request = r])
        BY <1>20, RetriedRun DEF Goes, Retry
    <2>2. QED
        BY <1>9, <1>20, <2>1 DEF Retry, TypeOK
<1>21. ASSUME NEW r \in Request, SimulateSms(r) PROVE TypeOK' /\ RunsOK'
    <2>1. entry[r] \in Entry /\ r.key \in Key
        BY <1>21, RequestKeys DEF SimulateSms, Open, TypeOK
    <2>2. RetryPatch(entry[r], FALSE) \in Entry /\ SuccessPatch(entry[r]) \in Entry
        BY <2>1, PatchTypes, NotificationsAssumption
    <2>3. entry' \in [Request -> Entry \cup {None}]
        BY <1>21, <2>2 DEF SimulateSms, TypeOK
    <2>4. logged' \in [Key -> SUBSET {"SENT", "FAILED", "SIMULATED"}]
        <3>1. CASE r.key \in Invalid
            BY <1>21, <3>1 DEF SimulateSms, TypeOK
        <3>2. CASE r.key \notin Invalid
            <4>1. logged' = [logged EXCEPT ![r.key] = logged[r.key] \cup {"SIMULATED"}]
                BY <1>21, <3>2 DEF SimulateSms
            <4>2. QED
                BY <2>1, <4>1 DEF TypeOK
        <3>3. QED
            BY <3>1, <3>2
    <2>5. QED
        BY <1>1, <1>21, <2>3, <2>4 DEF SimulateSms, TypeOK
<1>22. ASSUME NEW r \in Request, Replay(r) PROVE TypeOK' /\ RunsOK'
    <2>1. [status |-> "PENDING", attempts |-> 0] \in Entry
        BY DEF Entry, Statuses
    <2>2. entry' \in [Request -> Entry \cup {None}]
        <3>1. PICK copy \in 1 .. MaxCopies :
                 entry' = [entry EXCEPT ![[key |-> r.key, copy |-> copy]] =
                                            [status |-> "PENDING", attempts |-> 0]]
            BY <1>22 DEF Replay
        <3>2. QED
            BY <2>1, <3>1 DEF TypeOK
    <2>3. repeats' \in [Key -> Nat]
        BY <1>22, RequestKeys DEF Replay, TypeOK
    <2>4. QED
        BY <1>1, <1>22, <2>2, <2>3 DEF Replay, TypeOK
<1>23. CASE Crash
    <2>1. slot' \in [Slots -> Run] /\ RunsOK'
        BY <1>23, IdleRun DEF Crash, RunsOK
    <2>2. \A key \in Key : Cardinality(Known(key)) \in Nat
        <3>1. IsFiniteSet(0 .. MaxCopies)
            BY FS_Interval, NotificationsAssumption
        <3>2. QED
            BY <3>1, FS_Subset, FS_CardinalityType DEF Known
    <2>3. repeats' \in [Key -> Nat]
        BY <1>23, <2>2 DEF Crash, TypeOK
    <2>4. crashes' \in 0 .. MaxTroubles
        BY <1>23, Counters DEF Crash
    <2>5. QED
        BY <1>23, <2>1, <2>3, <2>4 DEF Crash, TypeOK, Run
<1>24. QED
    BY <1>2, <1>3, <1>4, <1>5, <1>6, <1>7, <1>8, <1>10, <1>11, <1>12, <1>13, <1>15, <1>16, <1>17,
       <1>18, <1>19, <1>20, <1>21, <1>22, <1>23
    DEF Next, WorkerStep

-----------------------------------------------------------------------------
(***************************************************************************)
(* What a step does to the runs and the entries                            *)
(***************************************************************************)

\* A copy that is not the original has an entry: it is a replay.
Entered(r) == r.copy > 0 => entry[r] # None

\* A run takes up only what is an original or entered, its new result is about the
\* request it had and is a success only if that is known, and it waits for nothing to
\* be settled but what the provider has accepted.
Moved(s) ==
    /\ slot'[s].request # None =>
          slot'[s].request = slot[s].request \/ Entered(slot'[s].request)
    /\ \A x \in slot'[s].results :
          \/ x \in slot[s].results
          \/ /\ slot[s].request \in Request /\ x[1] = slot[s].request
             /\ x[2] = "SENT" => x[1] \in processed \/ slot[s].pc = "answer"
    /\ slot'[s].pc = "answer" =>
          /\ slot'[s].request = slot[s].request
          /\ slot[s].pc = "answer" \/ mails'[slot[s].request.key] > 0

LEMMA Unmoved ==
    ASSUME TypeOK, NEW s \in Slots, slot'[s] = slot[s]
    PROVE  Moved(s)
BY DEF Moved

\* A run that begins: its results are empty, and it sends nothing yet.
LEMMA MovedAfresh ==
    ASSUME TypeOK, NEW s \in Slots, NEW run, run \in Run,
           slot' = [slot EXCEPT ![s] = run], run.results = {}, run.pc # "answer",
           run.request # None => Entered(run.request)
    PROVE  \A t \in Slots : Moved(t)
<1>1. slot \in [Slots -> Run]
    BY SlotType
<1>2. slot'[s] = run /\ \A t \in Slots \ {s} : slot'[t] = slot[t]
    BY <1>1
<1>3. Moved(s)
    BY <1>2 DEF Moved
<1>4. QED
    BY <1>2, <1>3, Unmoved

\* A run that goes on with the next recipient.
LEMMA MovedOnward ==
    ASSUME TypeOK, RunsOK, NEW s \in Slots, slot[s].request \in Request,
           NEW run,
           \/ run \in {slot[s], With(slot[s], "FAILED")}
           \/ /\ run = With(slot[s], "SENT")
              /\ slot[s].request \in processed \/ slot[s].pc = "answer",
           slot' = [slot EXCEPT ![s] = Advance(run)]
    PROVE  \A t \in Slots : Moved(t)
<1>1. slot \in [Slots -> Run] /\ slot[s] \in Run /\ RunOK(slot[s])
    BY SlotType DEF RunsOK
<1>2. slot'[s] = Advance(run) /\ \A t \in Slots \ {s} : slot'[t] = slot[t]
    BY <1>1
<1>3. /\ Advance(run).pc = "next" /\ Advance(run).results = run.results
      /\ Fresh(s, Advance(run))
    BY Onward
<1>4. \A x \in run.results :
        \/ x \in slot[s].results
        \/ /\ x[1] = slot[s].request
           /\ x[2] = "SENT" => slot[s].request \in processed \/ slot[s].pc = "answer"
    <2>1. CASE run = slot[s]
        BY <2>1
    <2>2. CASE /\ run = With(slot[s], "SENT")
               /\ slot[s].request \in processed \/ slot[s].pc = "answer"
        <3>1. run.results = slot[s].results \cup {<<slot[s].request, "SENT">>}
            BY <1>1, <2>2, WithRun
        <3>2. QED
            BY <2>2, <3>1
    <2>3. CASE run = With(slot[s], "FAILED")
        <3>1. run.results = slot[s].results \cup {<<slot[s].request, "FAILED">>}
            BY <1>1, <2>3, WithRun
        <3>2. QED
            BY <3>1
    <2>4. QED
        BY <2>1, <2>2, <2>3
<1>5. Moved(s)
    BY <1>2, <1>3, <1>4 DEF Moved, Fresh, Entered
<1>6. QED
    BY <1>2, <1>5, Unmoved

LEMMA Moves == TypeOK /\ RunsOK /\ [Next]_vars => \A t \in Slots : Moved(t)
<1> SUFFICES ASSUME TypeOK, RunsOK, [Next]_vars PROVE \A t \in Slots : Moved(t)
    OBVIOUS
<1>1. CASE UNCHANGED slot
    BY <1>1, Unmoved
<1>2. ASSUME NEW s \in Slots, Receive(s) PROVE \A t \in Slots : Moved(t)
    <2>1. PICK message \in Messages : slot' = [slot EXCEPT ![s] = Begun(message)]
        BY <1>2 DEF Receive
    <2>2. Begun(message).pc = "next" /\ Begun(message).results = {}
        BY DEF Begun
    <2>3. Begun(message) \in Run /\ Entered(Begun(message).request)
        BY FirstRequest DEF Entered
    <2>4. QED
        BY <2>1, <2>2, <2>3, MovedAfresh
<1>3. ASSUME NEW s \in Slots, NEW r \in Request, Retry(s, r) PROVE \A t \in Slots : Moved(t)
    <2> DEFINE run == [Idle EXCEPT !.pc = "next", !.request = r]
    <2>1. slot' = [slot EXCEPT ![s] = run] /\ Entered(r)
        BY <1>3 DEF Retry, Open, Entered
    <2>2. run \in Run /\ run.pc = "next" /\ run.request = r /\ run.results = {}
        BY RetriedRun
    <2> HIDE DEF run
    <2>3. QED
        BY <2>1, <2>2, MovedAfresh
<1>4. ASSUME NEW s \in Slots, Reject(s) PROVE \A t \in Slots : Moved(t)
    <2>1. slot[s].request \in Request
        BY <1>4, SlotType DEF Reject, Run
    <2>2. slot' = [slot EXCEPT ![s] = Advance(slot[s])]
        BY <1>4, SlotType DEF Reject, Rejected
    <2>3. QED
        BY <2>1, <2>2, MovedOnward
<1>5. ASSUME NEW s \in Slots, SkipProcessed(s) PROVE \A t \in Slots : Moved(t)
    <2>1. slot[s].request \in Request /\ slot[s].request \in processed
        BY <1>5 DEF SkipProcessed, TypeOK
    <2>2. slot' = [slot EXCEPT ![s] = Advance(With(slot[s], "SENT"))]
        BY <1>5, SlotType DEF SkipProcessed
    <2>3. QED
        BY <2>1, <2>2, MovedOnward
<1>6. ASSUME NEW s \in Slots, slot[s].pc \in {"send", "answer"}
      PROVE  slot[s] \in Run /\ slot[s].request \in Request /\ slot[s].request.key \in Key
    BY <1>6, SlotType, RequestKeys DEF RunsOK, RunOK
<1>7. ASSUME NEW s \in Slots, AttemptFails(s) \/ AnswerLost(s) PROVE \A t \in Slots : Moved(t)
    <2>1. slot' = [slot EXCEPT ![s] = Advance(With(slot[s], "FAILED"))]
        BY <1>7, SlotType DEF AttemptFails, AnswerLost, Failed
    <2>2. slot[s].request \in Request
        BY <1>6, <1>7 DEF AttemptFails, AnswerLost
    <2>3. QED
        BY <2>1, <2>2, MovedOnward
<1>8. ASSUME NEW s \in Slots, Answered(s) PROVE \A t \in Slots : Moved(t)
    <2>1. slot' = [slot EXCEPT ![s] = Advance(With(slot[s], "SENT"))]
        BY <1>8, SlotType DEF Answered
    <2>2. slot[s].request \in Request /\ slot[s].pc = "answer"
        BY <1>6, <1>8 DEF Answered
    <2>3. QED
        BY <2>1, <2>2, MovedOnward
<1>9. ASSUME NEW s \in Slots, NEW pc \in {"send", "answer"},
             slot' = [slot EXCEPT ![s] = [slot[s] EXCEPT !.pc = pc]],
             pc = "answer" => mails'[slot[s].request.key] > 0
      PROVE  \A t \in Slots : Moved(t)
    <2>1. slot'[s] = [slot[s] EXCEPT !.pc = pc] /\ \A t \in Slots \ {s} : slot'[t] = slot[t]
        BY <1>9, SlotType
    <2>2. slot'[s].pc = pc /\ slot'[s].request = slot[s].request /\ slot'[s].results = slot[s].results
        BY <2>1, SlotType DEF Run
    <2>3. Moved(s)
        BY <1>9, <2>2 DEF Moved
    <2>4. QED
        BY <2>1, <2>3, Unmoved
<1>10. ASSUME NEW s \in Slots, Start(s) PROVE \A t \in Slots : Moved(t)
    <2>1. slot' = [slot EXCEPT ![s] = [slot[s] EXCEPT !.pc = "send"]]
        BY <1>10, SlotType DEF Start
    <2>2. QED
        BY <1>9, <2>1
<1>11. ASSUME NEW s \in Slots, ProviderAccepts(s) PROVE \A t \in Slots : Moved(t)
    <2>1. slot' = [slot EXCEPT ![s] = [slot[s] EXCEPT !.pc = "answer"]]
        BY <1>11, SlotType DEF ProviderAccepts
    <2>2. mails'[slot[s].request.key] > 0
        BY <1>6, <1>11 DEF ProviderAccepts, TypeOK
    <2>3. QED
        BY <1>9, <2>1, <2>2
<1>12. ASSUME NEW s \in Slots, Return(s) PROVE \A t \in Slots : Moved(t)
    <2>1. slot' = [slot EXCEPT ![s] = Idle]
        BY <1>12 DEF Return
    <2>2. Idle.results = {} /\ Idle.pc = "idle" /\ Idle.request = None
        BY DEF Idle
    <2>3. QED
        BY <2>1, <2>2, IdleRun, MovedAfresh
<1>13. CASE Crash
    <2>1. \A t \in Slots : slot'[t] = Idle
        BY <1>13 DEF Crash
    <2>2. QED
        BY <2>1 DEF Idle, Moved
<1>14. QED
    BY <1>1, <1>2, <1>3, <1>4, <1>5, <1>7, <1>8, <1>10, <1>11, <1>12, <1>13
    DEF Next, WorkerStep, vars, worker, outside, Moderate, CancelEvent, Tick, Schedule, Remind,
        CancelReminder, SimulateSms, Replay

\* Entries stay, the mails become more, what is processed was answered, and what is logged
\* as sent was a result.
LEMMA Records ==
    ASSUME TypeOK, RunsOK, [Next]_vars
    PROVE  /\ \A r \in Request : entry[r] # None => entry'[r] # None
           /\ \A r \in processed' : \/ r \in processed
                                    \/ \E s \in Slots : slot[s].pc = "answer" /\ slot[s].request = r
           /\ \A key \in Key : mails[key] > 0 => mails'[key] > 0
           /\ \A key \in Key : "SENT" \in logged'[key] =>
                 \/ "SENT" \in logged[key]
                 \/ \E s \in Slots : \E x \in slot[s].results : x[1].key = key /\ x[2] = "SENT"
<1>1. None \notin Entry /\ [status |-> "PENDING", attempts |-> 0] \in Entry
    BY NotificationsAssumption DEF Entry, Statuses
<1>2. \A r \in Request : entry[r] # None => entry'[r] # None
    <2>1. CASE UNCHANGED entry
        BY <2>1
    <2>2. ASSUME NEW w \in Windows, Remind(w)
          PROVE  \A r \in Request : entry[r] # None => entry'[r] # None
        BY <1>1, <2>2 DEF Remind
    <2>3. ASSUME NEW s \in Slots, Return(s)
          PROVE  \A r \in Request : entry[r] # None => entry'[r] # None
        <3>1. \A r \in Request : entry'[r] = entry[r] \/ entry'[r] \in Entry
            BY <2>3, PatchTypes DEF Return, TypeOK
        <3>2. QED
            BY <1>1, <3>1
    <2>4. ASSUME NEW q \in Request, SimulateSms(q)
          PROVE  \A r \in Request : entry[r] # None => entry'[r] # None
        <3>1. entry[q] \in Entry
            BY <2>4 DEF SimulateSms, Open, TypeOK
        <3>2. RetryPatch(entry[q], FALSE) \in Entry /\ SuccessPatch(entry[q]) \in Entry
            BY <1>1, <3>1, PatchTypes
        <3>3. PICK e \in Entry : entry' = [entry EXCEPT ![q] = e]
            BY <2>4, <3>2 DEF SimulateSms
        <3>4. QED
            BY <1>1, <3>3 DEF TypeOK
    <2>5. ASSUME NEW q \in Request, Replay(q)
          PROVE  \A r \in Request : entry[r] # None => entry'[r] # None
        BY <1>1, <2>5 DEF Replay, TypeOK
    <2>6. QED
        BY <2>1, <2>2, <2>3, <2>4, <2>5
        DEF Next, WorkerStep, vars, worker, outside, Moderate, CancelEvent, Tick, Schedule,
            CancelReminder, Receive, Reject, SkipProcessed, Start, AttemptFails, ProviderAccepts,
            Answered, AnswerLost, Retry, Crash
<1>3. \A r \in processed' : \/ r \in processed
                           \/ \E s \in Slots : slot[s].pc = "answer" /\ slot[s].request = r
    <2>1. CASE UNCHANGED processed
        BY <2>1
    <2>2. ASSUME NEW s \in Slots, Answered(s)
          PROVE  \A r \in processed' : \/ r \in processed
                                       \/ slot[s].pc = "answer" /\ slot[s].request = r
        BY <2>2 DEF Answered, Remembered
    <2>3. CASE Crash
        BY <2>3 DEF Crash
    <2>4. QED
        BY <2>1, <2>2, <2>3
        DEF Next, WorkerStep, vars, worker, outside, Moderate, CancelEvent, Tick, Schedule, Remind,
            CancelReminder, Receive, Reject, SkipProcessed, Start, AttemptFails, ProviderAccepts,
            AnswerLost, Return, Retry, SimulateSms, Replay
<1>4. \A key \in Key : mails[key] > 0 => mails'[key] > 0
    <2>1. CASE UNCHANGED mails
        BY <2>1
    <2>2. ASSUME NEW s \in Slots, ProviderAccepts(s)
          PROVE  \A key \in Key : mails[key] > 0 => mails'[key] > 0
        BY <2>2 DEF ProviderAccepts, TypeOK
    <2>3. QED
        BY <2>1, <2>2
        DEF Next, WorkerStep, vars, worker, outside, Moderate, CancelEvent, Tick, Schedule, Remind,
            CancelReminder, Receive, Reject, SkipProcessed, Start, AttemptFails, Answered,
            AnswerLost, Return, Retry, SimulateSms, Replay, Crash
<1>5. ASSUME NEW key \in Key, "SENT" \in logged'[key]
      PROVE  \/ "SENT" \in logged[key]
             \/ \E s \in Slots : \E x \in slot[s].results : x[1].key = key /\ x[2] = "SENT"
    <2>1. CASE UNCHANGED logged
        BY <1>5, <2>1
    <2>2. ASSUME NEW s \in Slots, Return(s)
          PROVE  \/ "SENT" \in logged[key]
                 \/ \E x \in slot[s].results : x[1].key = key /\ x[2] = "SENT"
        BY <1>5, <2>2 DEF Return
    <2>3. ASSUME NEW q \in Request, SimulateSms(q) PROVE "SENT" \in logged[key]
        <3>1. CASE q.key \in Invalid
            BY <1>5, <2>3, <3>1 DEF SimulateSms
        <3>2. CASE q.key \notin Invalid
            <4>1. logged' = [logged EXCEPT ![q.key] = logged[q.key] \cup {"SIMULATED"}]
                BY <2>3, <3>2 DEF SimulateSms
            <4>2. QED
                BY <1>5, <4>1 DEF TypeOK
        <3>3. QED
            BY <3>1, <3>2
    <2>4. QED
        BY <1>5, <2>1, <2>2, <2>3
        DEF Next, WorkerStep, vars, worker, outside, Moderate, CancelEvent, Tick, Schedule, Remind,
            CancelReminder, Receive, Reject, SkipProcessed, Start, AttemptFails, ProviderAccepts,
            Answered, AnswerLost, Retry, Replay, Crash
<1>6. QED
    BY <1>2, <1>3, <1>4, <1>5

-----------------------------------------------------------------------------
(***************************************************************************)
(* What is processed or logged as sent was accepted by the provider        *)
(***************************************************************************)

\* Only what is an original or has an entry is worked on.
Kept ==
    /\ \A r \in processed : Entered(r)
    /\ \A s \in Slots : slot[s].request # None => Entered(slot[s].request)
    /\ \A s \in Slots : \A x \in slot[s].results : Entered(x[1])

Accepted ==
    /\ \A s \in Slots : slot[s].pc = "answer" => mails[slot[s].request.key] > 0
    /\ \A s \in Slots : \A x \in slot[s].results : x[2] = "SENT" => mails[x[1].key] > 0
    /\ \A r \in processed : mails[r.key] > 0
    /\ \A key \in Key : "SENT" \in logged[key] => mails[key] > 0

LEMMA RequestsHeld ==
    ASSUME TypeOK, RunsOK, NEW s \in Slots
    PROVE  /\ slot[s].pc \in {"send", "answer"} => slot[s].request \in Request
           /\ slot[s].request # None => slot[s].request \in Request
           /\ \A x \in slot[s].results : x[1] \in Request /\ x[2] \in {"SENT", "FAILED"}
BY SlotType DEF Run, RunsOK, RunOK

LEMMA KeptNext ==
    ASSUME TypeOK, RunsOK, Kept, [Next]_vars
    PROVE  Kept'
<1>1. \A r \in Request : Entered(r) => Entered(r)'
    BY Records DEF Entered
<1>2. \A s \in Slots : Moved(s)
    BY Moves
<1>3. None \notin Request
    BY NotificationsAssumption
<1>4. ASSUME NEW s \in Slots, slot'[s].request # None PROVE Entered(slot[s].request)'
    <2>1. Entered(slot'[s].request)
        BY <1>2, <1>4 DEF Moved, Kept
    <2>2. slot'[s].request \in Request
        BY <1>4, TypeNext DEF TypeOK
    <2>3. \A r \in Request : Entered(r) => (r.copy > 0 => entry'[r] # None)
        BY <1>1 DEF Entered
    <2>4. QED
        BY <2>1, <2>2, <2>3 DEF Entered
<1>5. ASSUME NEW s \in Slots, NEW x \in slot'[s].results PROVE Entered(x[1])'
    <2>1. x[1] \in Request /\ Entered(x[1])
        BY <1>2, <1>3, <1>5, RequestsHeld DEF Moved, Kept
    <2>2. QED
        BY <1>1, <2>1
<1>6. ASSUME NEW r \in processed' PROVE Entered(r)'
    <2>1. r \in Request /\ Entered(r)
        BY <1>3, <1>6, Records, RequestsHeld DEF Kept, TypeOK
    <2>2. QED
        BY <1>1, <2>1
<1>7. QED
    BY <1>4, <1>5, <1>6 DEF Kept

LEMMA AcceptedNext ==
    ASSUME TypeOK, RunsOK, Accepted, [Next]_vars
    PROVE  Accepted'
<1>1. \A key \in Key : mails[key] > 0 => mails'[key] > 0
    BY Records
<1>2. \A s \in Slots : Moved(s)
    BY Moves
<1>3. \A s \in Slots : slot'[s].pc = "answer" => mails'[slot'[s].request.key] > 0
    <2>1. ASSUME NEW s \in Slots, slot'[s].pc = "answer", slot[s].pc = "answer"
          PROVE  mails'[slot[s].request.key] > 0
        <3>1. slot[s].request.key \in Key
            BY <2>1, RequestsHeld, RequestKeys
        <3>2. QED
            BY <1>1, <2>1, <3>1 DEF Accepted
    <2>2. QED
        BY <1>2, <2>1 DEF Moved
<1>4. ASSUME NEW s \in Slots, NEW x \in slot'[s].results, x[2] = "SENT"
      PROVE  mails'[x[1].key] > 0
    <2>1. x[1] \in Request /\ x[1].key \in Key
        BY <1>2, <1>4, RequestsHeld, RequestKeys DEF Moved
    <2>2. mails[x[1].key] > 0
        BY <1>2, <1>4 DEF Moved, Accepted
    <2>3. QED
        BY <1>1, <2>1, <2>2
<1>5. ASSUME NEW r \in processed' PROVE mails'[r.key] > 0
    <2>1. r \in Request /\ r.key \in Key
        BY <1>5, Records, RequestsHeld, RequestKeys DEF TypeOK
    <2>2. mails[r.key] > 0
        BY <1>5, Records DEF Accepted
    <2>3. QED
        BY <1>1, <2>1, <2>2
<1>6. ASSUME NEW key \in Key, "SENT" \in logged'[key] PROVE mails'[key] > 0
    BY <1>1, <1>6, Records DEF Accepted
<1>7. QED
    BY <1>3, <1>4, <1>5, <1>6 DEF Accepted

-----------------------------------------------------------------------------
(***************************************************************************)
(* Counting the mails                                                      *)
(***************************************************************************)
Copy(key, c) == [key |-> key, copy |-> c]

Sending(key) == {s \in Slots : slot[s].pc = "send" /\ slot[s].request.key = key}

\* The copies of a mail that were accepted or are in hand.
Undertaken(key) ==
    {c \in 0 .. MaxCopies : Copy(key, c) \in processed \/ InHand(Copy(key, c)) # {}}

Replayed(key) == {c \in 1 .. MaxCopies : entry[Copy(key, c)] # None}

\* A mail that was sent or may be being sent counts for a copy in hand or processed or for
\* a repetition; each replay has added a repetition, and so there is one for it to spare.
CountedAt(key) ==
    mails[key] + Cardinality(Sending(key)) + Cardinality(Replayed(key))
        <= Cardinality(Undertaken(key)) + repeats[key]

Counted == \A key \in Key : CountedAt(key)

LEMMA Sets ==
    ASSUME NEW key \in Key
    PROVE  /\ IsFiniteSet(Sending(key)) /\ Cardinality(Sending(key)) \in Nat
           /\ IsFiniteSet(Undertaken(key)) /\ Cardinality(Undertaken(key)) \in Nat
           /\ IsFiniteSet(Replayed(key)) /\ Cardinality(Replayed(key)) \in Nat
           /\ IsFiniteSet(Known(key)) /\ Cardinality(Known(key)) \in Nat
<1>1. IsFiniteSet(0 .. MaxCopies) /\ IsFiniteSet(1 .. MaxCopies) /\ IsFiniteSet(Slots)
    BY FS_Interval, NotificationsAssumption
<1>2. /\ Sending(key) \subseteq Slots
      /\ Undertaken(key) \subseteq 0 .. MaxCopies
      /\ Replayed(key) \subseteq 1 .. MaxCopies
      /\ Known(key) \subseteq 0 .. MaxCopies
    BY DEF Sending, Undertaken, Replayed, Known
<1>3. QED
    BY <1>1, <1>2, FS_Subset, FS_CardinalityType

LEMMA SetsAfter ==
    ASSUME NEW key \in Key
    PROVE  /\ IsFiniteSet(Sending(key)') /\ Cardinality(Sending(key)') \in Nat
           /\ IsFiniteSet(Undertaken(key)') /\ Cardinality(Undertaken(key)') \in Nat
           /\ IsFiniteSet(Replayed(key)') /\ Cardinality(Replayed(key)') \in Nat
<1>1. IsFiniteSet(0 .. MaxCopies) /\ IsFiniteSet(1 .. MaxCopies) /\ IsFiniteSet(Slots)
    BY FS_Interval, NotificationsAssumption
<1>2. /\ Sending(key)' \subseteq Slots
      /\ Undertaken(key)' \subseteq 0 .. MaxCopies
      /\ Replayed(key)' \subseteq 1 .. MaxCopies
    BY DEF Sending, Undertaken, Replayed
<1>3. QED
    BY <1>1, <1>2, FS_Subset, FS_CardinalityType

LEMMA CopyOf ==
    ASSUME NEW r \in Request
    PROVE  /\ r = Copy(r.key, r.copy)
           /\ \A key \in Key, c \in 0 .. MaxCopies :
                 Copy(key, c) \in Request /\ (Copy(key, c) = r <=> key = r.key /\ c = r.copy)
BY DEF Copy, Request

\* One more and one less.
LEMMA OneMore ==
    ASSUME NEW S, IsFiniteSet(S), NEW x, x \notin S
    PROVE  Cardinality(S \cup {x}) = Cardinality(S) + 1
BY FS_AddElement

LEMMA OneLess ==
    ASSUME NEW S, IsFiniteSet(S), NEW x
    PROVE  /\ IsFiniteSet(S \ {x})
           /\ x \in S => Cardinality(S \ {x}) = Cardinality(S) - 1
           /\ Cardinality(S) <= Cardinality(S \ {x}) + 1
<1>1. Cardinality(S) \in Nat
    BY FS_CardinalityType
<1>2. QED
    BY <1>1, FS_RemoveElement, FS_CardinalityType

\* A run that has, or has no longer, a request in hand.
LEMMA HandLeft ==
    ASSUME TypeOK, NEW s \in Slots, NEW run \in Run, slot' = [slot EXCEPT ![s] = run],
           run.pc \notin {"send", "answer"}
    PROVE  /\ \A r : InHand(r)' = InHand(r) \ {s}
           /\ \A key : Sending(key)' = Sending(key) \ {s}
<1>1. slot'[s] = run /\ \A t \in Slots \ {s} : slot'[t] = slot[t]
    BY SlotType
<1>2. ASSUME NEW r PROVE InHand(r)' = InHand(r) \ {s}
    BY <1>1 DEF InHand
<1>3. ASSUME NEW key PROVE Sending(key)' = Sending(key) \ {s}
    BY <1>1 DEF Sending
<1>4. QED
    BY <1>2, <1>3

LEMMA HandTaken ==
    ASSUME TypeOK, NEW s \in Slots, NEW run \in Run, slot' = [slot EXCEPT ![s] = run],
           slot[s].pc \notin {"send", "answer"}, run.pc = "send"
    PROVE  /\ InHand(run.request)' = InHand(run.request) \cup {s}
           /\ \A r : r # run.request => InHand(r)' = InHand(r)
           /\ Sending(run.request.key)' = Sending(run.request.key) \cup {s}
           /\ s \notin Sending(run.request.key)
           /\ \A key : key # run.request.key => Sending(key)' = Sending(key)
<1>1. slot'[s] = run /\ \A t \in Slots \ {s} : slot'[t] = slot[t]
    BY SlotType
<1>2. InHand(run.request)' = InHand(run.request) \cup {s}
    BY <1>1 DEF InHand
<1>3. ASSUME NEW r, r # run.request PROVE InHand(r)' = InHand(r)
    BY <1>1, <1>3 DEF InHand
<1>4. Sending(run.request.key)' = Sending(run.request.key) \cup {s}
    BY <1>1 DEF Sending
<1>5. ASSUME NEW key, key # run.request.key PROVE Sending(key)' = Sending(key)
    BY <1>1, <1>5 DEF Sending
<1>6. s \notin Sending(run.request.key)
    BY DEF Sending
<1>7. QED
    BY <1>2, <1>3, <1>4, <1>5, <1>6

LEMMA SameSets ==
    ASSUME NEW key \in Key, CountedAt(key),
           Sending(key)' = Sending(key), Undertaken(key)' = Undertaken(key),
           Replayed(key)' = Replayed(key), mails'[key] = mails[key], repeats'[key] = repeats[key]
    PROVE  CountedAt(key)'
BY DEF CountedAt

\* A step that leaves what is in hand or processed.
LEMMA Handless ==
    ASSUME Counted, UNCHANGED <<processed, mails, repeats>>,
           \A r \in Request : InHand(r)' = InHand(r),
           \A key \in Key : Sending(key)' = Sending(key) /\ Replayed(key)' = Replayed(key)
    PROVE  Counted'
<1>1. ASSUME NEW key \in Key PROVE CountedAt(key)'
    <2>1. \A c \in 0 .. MaxCopies : Copy(key, c) \in Request
        BY DEF Copy, Request
    <2>2. Undertaken(key)' = Undertaken(key)
        BY <2>1 DEF Undertaken
    <2>3. QED
        BY <2>2, SameSets DEF Counted
<1>2. QED
    BY <1>1 DEF Counted

\* A run that neither had nor takes a request in hand.
LEMMA HandlessRun ==
    ASSUME TypeOK, NEW s \in Slots, NEW run \in Run, slot' = [slot EXCEPT ![s] = run],
           slot[s].pc \notin {"send", "answer"}, run.pc \notin {"send", "answer"}
    PROVE  /\ \A r \in Request : InHand(r)' = InHand(r)
           /\ \A key \in Key : Sending(key)' = Sending(key)
<1>1. ASSUME NEW r PROVE InHand(r)' = InHand(r)
    <2>1. InHand(r)' = InHand(r) \ {s}
        BY HandLeft
    <2>2. s \notin InHand(r)
        BY DEF InHand
    <2>3. QED
        BY <2>1, <2>2
<1>2. ASSUME NEW key PROVE Sending(key)' = Sending(key)
    <2>1. Sending(key)' = Sending(key) \ {s}
        BY HandLeft
    <2>2. s \notin Sending(key)
        BY DEF Sending
    <2>3. QED
        BY <2>1, <2>2
<1>3. QED
    BY <1>1, <1>2

LEMMA SameReplays ==
    ASSUME \A r \in Request : r.copy > 0 => (entry'[r] = None <=> entry[r] = None)
    PROVE  \A key \in Key : Replayed(key)' = Replayed(key)
<1>1. \A key \in Key, c \in 1 .. MaxCopies : Copy(key, c) \in Request /\ Copy(key, c).copy > 0
    BY NotificationsAssumption DEF Copy, Request
<1>2. QED
    BY <1>1 DEF Replayed

LEMMA CountedInit == Init => Counted
<1> SUFFICES ASSUME Init, NEW key \in Key PROVE CountedAt(key)
    BY DEF Counted
<1>1. Sending(key) = {}
    BY DEF Init, Idle, Sending
<1>2. Replayed(key) = {}
    <2>1. \A c \in 1 .. MaxCopies : Copy(key, c) \in Request
        BY NotificationsAssumption DEF Copy, Request
    <2>2. QED
        BY <2>1 DEF Init, Replayed
<1>3. mails[key] = 0 /\ repeats[key] = 0
    BY DEF Init
<1>4. QED
    BY <1>1, <1>2, <1>3, Sets, FS_EmptySet DEF CountedAt

\* A run hands the mail over.
LEMMA CountedStart ==
    ASSUME TypeOK, RunsOK, Counted, NEW s \in Slots, Start(s),
           NEW r \in Request, slot[s].request = r
    PROVE  Counted'
<1>1. r.key \in Key /\ r.copy \in 0 .. MaxCopies /\ r \notin processed
    BY RequestKeys DEF Start
<1> DEFINE run == [slot[s] EXCEPT !.pc = "send"]
<1>2. slot' = [slot EXCEPT ![s] = run] /\ slot[s].pc \notin {"send", "answer"}
    BY SlotType DEF Start
<1>3. run \in Run /\ run.pc = "send" /\ run.request = r
    <2>1. slot[s] \in Run
        BY SlotType
    <2>2. run \in Run
        BY <2>1, RunFields
    <2>3. QED
        BY <2>1, <2>2 DEF Run
<1> HIDE DEF run
<1>4. \A key \in Key : Replayed(key)' = Replayed(key)
    BY DEF Start, Replayed
<1>5. InHand(r)' = InHand(r) \cup {s} /\ \A q : q # r => InHand(q)' = InHand(q)
    BY <1>2, <1>3, HandTaken
<1>6. /\ Sending(r.key)' = Sending(r.key) \cup {s}
      /\ s \notin Sending(r.key)
      /\ \A key : key # r.key => Sending(key)' = Sending(key)
    BY <1>2, <1>3, HandTaken
<1>7. UNCHANGED <<processed, mails>>
    BY DEF Start
<1>8. \A key \in Key, c \in 0 .. MaxCopies : Copy(key, c) = r <=> key = r.key /\ c = r.copy
    BY CopyOf
<1>9. repeats' = [repeats EXCEPT ![r.key] = IF InHand(r) = {} THEN @ ELSE @ + 1]
    BY DEF Start
<1>10. ASSUME NEW key \in Key, key # r.key PROVE CountedAt(key)'
    <2>1. Undertaken(key)' = Undertaken(key)
        BY <1>5, <1>7, <1>8, <1>10 DEF Undertaken
    <2>2. repeats'[key] = repeats[key]
        BY <1>9, <1>10 DEF TypeOK
    <2>3. QED
        BY <1>4, <1>6, <1>7, <1>10, <2>1, <2>2, SameSets DEF Counted
<1>11. CountedAt(r.key)'
    <2>1. Cardinality(Sending(r.key)') = Cardinality(Sending(r.key)) + 1
        BY <1>1, <1>6, Sets, OneMore
    <2>2. Undertaken(r.key)' = Undertaken(r.key) \cup {r.copy}
        BY <1>1, <1>5, <1>7, <1>8 DEF Undertaken
    <2>3. Cardinality(Undertaken(r.key)') + repeats'[r.key]
            = Cardinality(Undertaken(r.key)) + repeats[r.key] + 1
        <3>1. CASE InHand(r) = {}
            <4>1. r.copy \notin Undertaken(r.key)
                BY <1>1, <1>8, <3>1 DEF Undertaken
            <4>2. Cardinality(Undertaken(r.key)') = Cardinality(Undertaken(r.key)) + 1
                BY <1>1, <2>2, <4>1, Sets, OneMore
            <4>3. repeats'[r.key] = repeats[r.key] /\ repeats[r.key] \in Nat
                BY <1>1, <1>9, <3>1 DEF TypeOK
            <4>4. QED
                BY <1>1, <4>2, <4>3, Sets
        <3>2. CASE InHand(r) # {}
            <4>1. r.copy \in Undertaken(r.key)
                BY <1>1, <1>8, <3>2 DEF Undertaken
            <4>2. Undertaken(r.key)' = Undertaken(r.key)
                BY <2>2, <4>1
            <4>3. repeats'[r.key] = repeats[r.key] + 1 /\ repeats[r.key] \in Nat
                BY <1>1, <1>9, <3>2 DEF TypeOK
            <4>4. QED
                BY <1>1, <4>2, <4>3, Sets
        <3>3. QED
            BY <3>1, <3>2
    <2>4. QED
        BY <1>1, <1>4, <1>7, <2>1, <2>3, Sets, SetsAfter DEF Counted, CountedAt, TypeOK
<1>12. QED
    BY <1>10, <1>11 DEF Counted

\* A run goes on: what it had in hand it has no longer.
LEMMA RunLeaves ==
    ASSUME TypeOK, RunsOK, NEW s \in Slots, slot[s].pc \in {"send", "answer"},
           NEW result \in {"SENT", "FAILED"},
           slot' = [slot EXCEPT ![s] = Advance(With(slot[s], result))]
    PROVE  /\ \A q : InHand(q)' = InHand(q) \ {s}
           /\ \A key : Sending(key)' = Sending(key) \ {s}
<1>1. slot[s].request \in Request
    BY RequestsHeld
<1>2. /\ Advance(With(slot[s], result)) \in Run
      /\ Advance(With(slot[s], result)).pc = "next"
    BY <1>1, Onward
<1>3. QED
    BY <1>2, HandLeft

\* The other mails are not concerned.
LEMMA OthersLeft ==
    ASSUME TypeOK, NEW s \in Slots, slot[s].pc \in {"send", "answer"},
           NEW r \in Request, slot[s].request = r,
           \A q : InHand(q)' = InHand(q) \ {s},
           NEW key \in Key, key # r.key,
           processed' \in {processed, processed \cup {r}}
    PROVE  Undertaken(key)' = Undertaken(key)
<1>1. \A c \in 0 .. MaxCopies : Copy(key, c) # r
    BY DEF Copy
<1>2. \A q : q # r => s \notin InHand(q)
    BY DEF InHand
<1>3. \A c \in 0 .. MaxCopies : InHand(Copy(key, c))' = InHand(Copy(key, c))
    <2>1. ASSUME NEW c \in 0 .. MaxCopies PROVE InHand(Copy(key, c))' = InHand(Copy(key, c))
        <3>1. InHand(Copy(key, c))' = InHand(Copy(key, c)) \ {s}
            OBVIOUS
        <3>2. s \notin InHand(Copy(key, c))
            BY <1>1, <1>2
        <3>3. QED
            BY <3>1, <3>2
    <2>2. QED
        BY <2>1
<1>4. \A c \in 0 .. MaxCopies : Copy(key, c) \in processed' <=> Copy(key, c) \in processed
    BY <1>1
<1>5. QED
    BY <1>3, <1>4 DEF Undertaken

\* A copy that is given up.
LEMMA OneGiven ==
    ASSUME TypeOK, NEW s \in Slots, slot[s].pc \in {"send", "answer"},
           NEW r \in Request, slot[s].request = r,
           \A q : InHand(q)' = InHand(q) \ {s}, UNCHANGED processed
    PROVE  Cardinality(Undertaken(r.key)) <= Cardinality(Undertaken(r.key)') + 1
<1>1. r.key \in Key
    BY RequestKeys
<1>2. Undertaken(r.key) \ {r.copy} \subseteq Undertaken(r.key)'
    <2>1. ASSUME NEW c \in Undertaken(r.key), c # r.copy PROVE c \in Undertaken(r.key)'
        <3>1. c \in 0 .. MaxCopies /\ Copy(r.key, c) # r
            BY <2>1 DEF Copy, Undertaken
        <3>2. s \notin InHand(Copy(r.key, c))
            BY <3>1 DEF InHand
        <3>3. InHand(Copy(r.key, c))' = InHand(Copy(r.key, c))
            BY <3>2
        <3>4. QED
            BY <2>1, <3>1, <3>3 DEF Undertaken
    <2>2. QED
        BY <2>1
<1>3. Cardinality(Undertaken(r.key)) <= Cardinality(Undertaken(r.key) \ {r.copy}) + 1
    BY <1>1, Sets, OneLess
<1>4. Cardinality(Undertaken(r.key) \ {r.copy}) <= Cardinality(Undertaken(r.key)')
    BY <1>1, <1>2, SetsAfter, FS_Subset
<1>5. Cardinality(Undertaken(r.key) \ {r.copy}) \in Nat
    BY <1>1, Sets, OneLess, FS_CardinalityType
<1>6. QED
    BY <1>1, <1>3, <1>4, <1>5, Sets, SetsAfter

LEMMA CountedFails ==
    ASSUME TypeOK, RunsOK, Counted, NEW s \in Slots, AttemptFails(s),
           NEW r \in Request, slot[s].request = r
    PROVE  Counted'
<1>1. r.key \in Key /\ slot[s].pc = "send"
    BY RequestKeys DEF AttemptFails
<1>2. slot' = [slot EXCEPT ![s] = Advance(With(slot[s], "FAILED"))]
    BY SlotType DEF AttemptFails, Failed
<1>3. /\ \A q : InHand(q)' = InHand(q) \ {s}
      /\ \A key : Sending(key)' = Sending(key) \ {s}
    BY <1>1, <1>2, RunLeaves
<1>4. \A key \in Key : Replayed(key)' = Replayed(key)
    BY DEF AttemptFails, Replayed
<1>5. UNCHANGED <<processed, mails, repeats>>
    BY DEF AttemptFails
<1>6. ASSUME NEW key \in Key, key # r.key PROVE CountedAt(key)'
    <2>1. Undertaken(key)' = Undertaken(key)
        BY <1>1, <1>3, <1>5, <1>6, OthersLeft
    <2>2. s \notin Sending(key)
        BY <1>6 DEF Sending
    <2>3. Sending(key)' = Sending(key)
        BY <1>3, <2>2
    <2>4. QED
        BY <1>4, <1>5, <2>1, <2>3, SameSets DEF Counted
<1>7. CountedAt(r.key)'
    <2>1. s \in Sending(r.key)
        BY <1>1 DEF Sending
    <2>2. Cardinality(Sending(r.key)') = Cardinality(Sending(r.key)) - 1
        BY <1>1, <1>3, <2>1, Sets, OneLess
    <2>3. Cardinality(Undertaken(r.key)) <= Cardinality(Undertaken(r.key)') + 1
        BY <1>1, <1>3, <1>5, OneGiven
    <2>4. QED
        BY <1>1, <1>4, <1>5, <2>2, <2>3, Sets, SetsAfter DEF Counted, CountedAt, TypeOK
<1>8. QED
    BY <1>6, <1>7 DEF Counted

LEMMA CountedLost ==
    ASSUME TypeOK, RunsOK, Counted, NEW s \in Slots, AnswerLost(s),
           NEW r \in Request, slot[s].request = r
    PROVE  Counted'
<1>1. r.key \in Key /\ slot[s].pc = "answer"
    BY RequestKeys DEF AnswerLost
<1>2. slot' = [slot EXCEPT ![s] = Advance(With(slot[s], "FAILED"))]
    BY SlotType DEF AnswerLost, Failed
<1>3. /\ \A q : InHand(q)' = InHand(q) \ {s}
      /\ \A key : Sending(key)' = Sending(key) \ {s}
    BY <1>1, <1>2, RunLeaves
<1>4. \A key \in Key : Replayed(key)' = Replayed(key)
    BY DEF AnswerLost, Replayed
<1>5. UNCHANGED <<processed, mails>> /\ repeats' = [repeats EXCEPT ![r.key] = @ + 1]
    BY DEF AnswerLost
<1>6. \A key \in Key : Sending(key)' = Sending(key)
    <2>1. ASSUME NEW key \in Key PROVE s \notin Sending(key)
        BY <1>1 DEF Sending
    <2>2. QED
        BY <1>3, <2>1
<1>7. ASSUME NEW key \in Key, key # r.key PROVE CountedAt(key)'
    <2>1. Undertaken(key)' = Undertaken(key)
        BY <1>1, <1>3, <1>5, <1>7, OthersLeft
    <2>2. repeats'[key] = repeats[key]
        BY <1>5, <1>7 DEF TypeOK
    <2>3. QED
        BY <1>4, <1>5, <1>6, <2>1, <2>2, SameSets DEF Counted
<1>8. CountedAt(r.key)'
    <2>1. Cardinality(Undertaken(r.key)) <= Cardinality(Undertaken(r.key)') + 1
        BY <1>1, <1>3, <1>5, OneGiven
    <2>2. repeats'[r.key] = repeats[r.key] + 1
        BY <1>1, <1>5 DEF TypeOK
    <2>3. QED
        BY <1>1, <1>4, <1>5, <1>6, <2>1, <2>2, Sets, SetsAfter DEF Counted, CountedAt, TypeOK
<1>9. QED
    BY <1>7, <1>8 DEF Counted

\* A request that was answered goes from the run to processedMessageStore.
LEMMA CountedAnswered ==
    ASSUME TypeOK, RunsOK, Counted, NEW s \in Slots, Answered(s),
           NEW r \in Request, slot[s].request = r
    PROVE  Counted'
<1>1. r.key \in Key /\ r.copy \in 0 .. MaxCopies /\ slot[s].pc = "answer"
    BY RequestKeys DEF Answered
<1>2. slot' = [slot EXCEPT ![s] = Advance(With(slot[s], "SENT"))]
    BY SlotType DEF Answered
<1>3. /\ \A q : InHand(q)' = InHand(q) \ {s}
      /\ \A key : Sending(key)' = Sending(key) \ {s}
    BY <1>1, <1>2, RunLeaves
<1>4. \A key \in Key : Replayed(key)' = Replayed(key)
    BY DEF Answered, Replayed
<1>5. UNCHANGED <<mails, repeats>> /\ processed' = processed \cup {r}
    BY DEF Answered, Remembered
<1>6. \A key \in Key : Sending(key)' = Sending(key)
    <2>1. ASSUME NEW key \in Key PROVE s \notin Sending(key)
        BY <1>1 DEF Sending
    <2>2. QED
        BY <1>3, <2>1
<1>7. ASSUME NEW key \in Key, key # r.key PROVE Undertaken(key)' = Undertaken(key)
    BY <1>1, <1>3, <1>5, <1>7, OthersLeft
<1>8. Undertaken(r.key)' = Undertaken(r.key)
    <2>1. ASSUME NEW c \in 0 .. MaxCopies
          PROVE  c \in Undertaken(r.key)' <=> c \in Undertaken(r.key)
        <3>1. CASE c = r.copy
            <4>1. Copy(r.key, c) = r
                BY <3>1, CopyOf
            <4>2. s \in InHand(r)
                BY <1>1 DEF InHand
            <4>3. QED
                BY <1>5, <4>1, <4>2 DEF Undertaken
        <3>2. CASE c # r.copy
            <4>1. Copy(r.key, c) # r
                BY <3>2 DEF Copy
            <4>2. s \notin InHand(Copy(r.key, c))
                BY <4>1 DEF InHand
            <4>3. InHand(Copy(r.key, c))' = InHand(Copy(r.key, c))
                BY <1>3, <4>2
            <4>4. QED
                BY <1>5, <4>1, <4>3 DEF Undertaken
        <3>3. QED
            BY <3>1, <3>2
    <2>2. QED
        BY <2>1 DEF Undertaken
<1>9. QED
    BY <1>4, <1>5, <1>6, <1>7, <1>8, SameSets DEF Counted

LEMMA CountedAccepts ==
    ASSUME TypeOK, RunsOK, Counted, NEW s \in Slots, ProviderAccepts(s),
           NEW r \in Request, slot[s].request = r
    PROVE  Counted'
<1>1. r.key \in Key /\ slot[s].pc = "send"
    BY RequestKeys DEF ProviderAccepts
<1>2. /\ slot'[s].pc = "answer" /\ slot'[s].request = r
      /\ \A t \in Slots \ {s} : slot'[t] = slot[t]
    <2>1. slot' = [slot EXCEPT ![s] = [slot[s] EXCEPT !.pc = "answer"]] /\ slot[s] \in Run
        BY SlotType DEF ProviderAccepts
    <2>2. slot'[s] = [slot[s] EXCEPT !.pc = "answer"] /\ \A t \in Slots \ {s} : slot'[t] = slot[t]
        BY <2>1, SlotType
    <2>3. QED
        BY <2>1, <2>2 DEF Run
<1>3. \A q : InHand(q)' = InHand(q)
    <2>1. ASSUME NEW q, NEW t \in Slots
          PROVE  (slot'[t].pc \in {"send", "answer"} /\ slot'[t].request = q)
                    <=> (slot[t].pc \in {"send", "answer"} /\ slot[t].request = q)
        BY <1>1, <1>2
    <2>2. QED
        BY <2>1 DEF InHand
<1>4. \A key \in Key : Sending(key)' = Sending(key) \ {s}
    BY <1>2 DEF Sending
<1>5. \A key \in Key : Replayed(key)' = Replayed(key)
    BY DEF ProviderAccepts, Replayed
<1>6. /\ UNCHANGED <<processed, repeats>>
      /\ mails' = [mails EXCEPT ![r.key] = @ + 1]
    BY DEF ProviderAccepts
<1>7. \A key \in Key : Undertaken(key)' = Undertaken(key)
    BY <1>3, <1>6 DEF Undertaken
<1>8. ASSUME NEW key \in Key, key # r.key PROVE CountedAt(key)'
    <2>1. s \notin Sending(key)
        BY <1>8 DEF Sending
    <2>2. Sending(key)' = Sending(key)
        BY <1>4, <2>1
    <2>3. mails'[key] = mails[key]
        BY <1>6, <1>8 DEF TypeOK
    <2>4. QED
        BY <1>5, <1>6, <1>7, <2>2, <2>3, SameSets DEF Counted
<1>9. CountedAt(r.key)'
    <2>1. s \in Sending(r.key)
        BY <1>1 DEF Sending
    <2>2. Cardinality(Sending(r.key)') = Cardinality(Sending(r.key)) - 1
        BY <1>1, <1>4, <2>1, Sets, OneLess
    <2>3. mails'[r.key] = mails[r.key] + 1
        BY <1>1, <1>6 DEF TypeOK
    <2>4. QED
        BY <1>1, <1>5, <1>6, <1>7, <2>2, <2>3, Sets, SetsAfter DEF Counted, CountedAt, TypeOK
<1>10. QED
    BY <1>8, <1>9 DEF Counted

LEMMA CountedReplay ==
    ASSUME TypeOK, Counted, NEW r \in Request, Replay(r)
    PROVE  Counted'
<1>1. PICK copy \in 1 .. MaxCopies :
         /\ entry[Copy(r.key, copy)] = None
         /\ entry' = [entry EXCEPT ![Copy(r.key, copy)] = [status |-> "PENDING", attempts |-> 0]]
    BY DEF Replay, Copy
<1>2. /\ UNCHANGED <<slot, processed, mails>>
      /\ repeats' = [repeats EXCEPT ![r.key] = @ + 1]
    BY DEF Replay
<1>3. r.key \in Key
    BY RequestKeys
<1>4. \A key \in Key : Sending(key)' = Sending(key) /\ Undertaken(key)' = Undertaken(key)
    BY <1>2 DEF Sending, Undertaken, InHand
<1>5. \A key \in Key, c \in 1 .. MaxCopies :
         /\ Copy(key, c) \in Request
         /\ Copy(key, c) = Copy(r.key, copy) <=> key = r.key /\ c = copy
    BY NotificationsAssumption DEF Copy, Request
<1>6. [status |-> "PENDING", attempts |-> 0] # None
    BY NotificationsAssumption DEF Entry, Statuses
<1>7. ASSUME NEW key \in Key, key # r.key PROVE CountedAt(key)'
    <2>1. Replayed(key)' = Replayed(key)
        BY <1>1, <1>5, <1>7 DEF Replayed, TypeOK
    <2>2. repeats'[key] = repeats[key]
        BY <1>2, <1>7 DEF TypeOK
    <2>3. QED
        BY <1>2, <1>4, <2>1, <2>2, SameSets DEF Counted
<1>8. CountedAt(r.key)'
    <2>1. Replayed(r.key)' = Replayed(r.key) \cup {copy}
        BY <1>1, <1>3, <1>5, <1>6 DEF Replayed, TypeOK
    <2>2. copy \notin Replayed(r.key)
        BY <1>1 DEF Replayed
    <2>3. Cardinality(Replayed(r.key)') = Cardinality(Replayed(r.key)) + 1
        BY <1>3, <2>1, <2>2, Sets, OneMore
    <2>4. repeats'[r.key] = repeats[r.key] + 1
        BY <1>2, <1>3 DEF TypeOK
    <2>5. QED
        BY <1>2, <1>3, <1>4, <2>3, <2>4, Sets DEF Counted, CountedAt, TypeOK
<1>9. QED
    BY <1>7, <1>8 DEF Counted

\* The process dies: what was only being sent may be forgotten, and for what it knew of
\* as accepted there is a repetition.
LEMMA CountedCrash ==
    ASSUME TypeOK, RunsOK, Counted, Crash
    PROVE  Counted'
<1> SUFFICES ASSUME NEW key \in Key PROVE CountedAt(key)'
    BY DEF Counted
<1>1. /\ UNCHANGED <<mails, entry>>
      /\ repeats'[key] = repeats[key] + Cardinality(Known(key))
      /\ \A s \in Slots : slot'[s].pc = "idle"
    BY DEF Crash, Idle
<1> DEFINE f == [s \in Sending(key) |-> slot[s].request.copy]
           T == {slot[s].request.copy : s \in Sending(key)}
<1>2. IsFiniteSet(T) /\ Cardinality(T) <= Cardinality(Sending(key)) /\ Cardinality(T) \in Nat
    <2>1. f \in Surjection(Sending(key), T)
        BY DEF Surjection
    <2> HIDE DEF f, T
    <2>2. QED
        BY <2>1, Sets, FS_Surjection, FS_CardinalityType
<1>3. Undertaken(key) \subseteq Known(key) \cup T
    <2>1. ASSUME NEW c \in Undertaken(key), c \notin Known(key) PROVE c \in T
        <3>1. c \in 0 .. MaxCopies /\ Copy(key, c) \notin processed
            BY <2>1 DEF Undertaken, Known, Copy
        <3>2. PICK s \in Slots : slot[s].pc \in {"send", "answer"} /\ slot[s].request = Copy(key, c)
            BY <2>1, <3>1 DEF Undertaken, InHand
        <3>3. slot[s].pc = "send"
            BY <2>1, <3>1, <3>2 DEF Known, InHand, Copy
        <3>4. slot[s].request.key = key /\ slot[s].request.copy = c
            BY <3>2 DEF Copy
        <3>5. QED
            BY <3>3, <3>4 DEF Sending
    <2>2. QED
        BY <2>1
<1> HIDE DEF T, f
<1>4. Cardinality(Undertaken(key)) <= Cardinality(Known(key)) + Cardinality(T)
    <2>1. /\ IsFiniteSet(Known(key) \cup T)
          /\ Cardinality(Known(key) \cup T)
                = Cardinality(Known(key)) + Cardinality(T) - Cardinality(Known(key) \cap T)
        BY <1>2, Sets, FS_Union
    <2>2. Cardinality(Known(key) \cap T) \in Nat
        <3>1. Known(key) \cap T \in SUBSET T
            OBVIOUS
        <3>2. QED
            BY <1>2, <3>1, FS_Subset, FS_CardinalityType
    <2>3. Cardinality(Undertaken(key)) <= Cardinality(Known(key) \cup T)
        BY <1>3, <2>1, FS_Subset
    <2>4. QED
        BY <1>2, <2>1, <2>2, <2>3, Sets
<1>5. Cardinality(Sending(key)') = 0
    <2>1. Sending(key)' = {}
        BY <1>1 DEF Sending
    <2>2. QED
        BY <2>1, FS_EmptySet
<1>6. Replayed(key)' = Replayed(key)
    BY <1>1 DEF Replayed
<1>7. QED
    BY <1>1, <1>2, <1>4, <1>5, <1>6, Sets, SetsAfter DEF Counted, CountedAt, TypeOK

LEMMA CountedNext ==
    ASSUME TypeOK, RunsOK, Kept, Counted, [Next]_vars
    PROVE  Counted'
<1>1. None \notin Entry /\ [status |-> "PENDING", attempts |-> 0] \in Entry
    BY NotificationsAssumption DEF Entry, Statuses
<1>2. ASSUME UNCHANGED <<slot, processed, mails, repeats>>,
             \A r \in Request : r.copy > 0 => (entry'[r] = None <=> entry[r] = None)
      PROVE  Counted'
    <2>1. \A r : InHand(r)' = InHand(r)
        BY <1>2 DEF InHand
    <2>2. \A key : Sending(key)' = Sending(key)
        BY <1>2 DEF Sending
    <2>3. QED
        BY <1>2, <2>1, <2>2, SameReplays, Handless
<1>3. ASSUME NEW s \in Slots, NEW run \in Run, slot' = [slot EXCEPT ![s] = run],
             slot[s].pc \notin {"send", "answer"}, run.pc \notin {"send", "answer"},
             UNCHANGED <<processed, mails, repeats>>,
             \A r \in Request : r.copy > 0 => (entry'[r] = None <=> entry[r] = None)
      PROVE  Counted'
    BY <1>3, HandlessRun, SameReplays, Handless
<1>4. CASE UNCHANGED <<slot, processed, mails, repeats, entry>>
    BY <1>2, <1>4
<1>5. ASSUME NEW w \in Windows, Remind(w) PROVE Counted'
    <2>1. \A r \in Request : r.copy > 0 => entry'[r] = entry[r]
        BY <1>5 DEF Remind
    <2>2. QED
        BY <1>2, <1>5, <2>1 DEF Remind, worker
<1>6. ASSUME NEW r \in Request, SimulateSms(r) PROVE Counted'
    <2>1. entry[r] \in Entry
        BY <1>6 DEF SimulateSms, Open, TypeOK
    <2>2. RetryPatch(entry[r], FALSE) \in Entry /\ SuccessPatch(entry[r]) \in Entry
        BY <1>1, <2>1, PatchTypes
    <2>3. PICK e \in Entry : entry' = [entry EXCEPT ![r] = e]
        BY <1>6, <2>2 DEF SimulateSms
    <2>4. \A q \in Request : entry'[q] = None <=> entry[q] = None
        BY <1>1, <2>1, <2>3 DEF TypeOK
    <2>5. QED
        BY <1>2, <1>6, <2>4 DEF SimulateSms
<1>7. ASSUME NEW s \in Slots, Receive(s) PROVE Counted'
    <2>1. PICK message \in Messages : slot' = [slot EXCEPT ![s] = Begun(message)]
        BY <1>7 DEF Receive
    <2>2. Begun(message) \in Run /\ Begun(message).pc = "next"
        BY FirstRequest DEF Begun
    <2>3. QED
        BY <1>3, <1>7, <2>1, <2>2 DEF Receive
<1>8. ASSUME NEW s \in Slots, NEW r \in Request, Retry(s, r) PROVE Counted'
    <2> DEFINE run == [Idle EXCEPT !.pc = "next", !.request = r]
    <2>1. slot' = [slot EXCEPT ![s] = run]
        BY <1>8 DEF Retry
    <2>2. run \in Run /\ run.pc = "next"
        BY RetriedRun
    <2> HIDE DEF run
    <2>3. QED
        BY <1>3, <1>8, <2>1, <2>2 DEF Retry
<1>9. ASSUME NEW s \in Slots, Reject(s) PROVE Counted'
    <2>1. slot[s].request \in Request
        BY <1>9, RequestsHeld DEF Reject
    <2>2. slot' = [slot EXCEPT ![s] = Advance(slot[s])]
        BY <1>9, SlotType DEF Reject, Rejected
    <2>3. Advance(slot[s]) \in Run /\ Advance(slot[s]).pc = "next"
        BY <2>1, Onward
    <2>4. QED
        BY <1>3, <1>9, <2>2, <2>3 DEF Reject
<1>10. ASSUME NEW s \in Slots, SkipProcessed(s) PROVE Counted'
    <2>1. slot[s].request \in Request
        BY <1>10 DEF SkipProcessed, TypeOK
    <2>2. slot' = [slot EXCEPT ![s] = Advance(With(slot[s], "SENT"))]
        BY <1>10, SlotType DEF SkipProcessed
    <2>3. /\ Advance(With(slot[s], "SENT")) \in Run
          /\ Advance(With(slot[s], "SENT")).pc = "next"
        BY <2>1, Onward
    <2>4. QED
        BY <1>3, <1>10, <2>2, <2>3 DEF SkipProcessed
<1>11. ASSUME NEW s \in Slots, Return(s) PROVE Counted'
    <2>1. slot' = [slot EXCEPT ![s] = Idle]
        BY <1>11 DEF Return
    <2>2. \A r \in Request : r.copy > 0 => (entry'[r] = None <=> entry[r] = None)
        <3>1. ASSUME NEW r \in Request, r.copy > 0 PROVE entry'[r] = None <=> entry[r] = None
            <4>1. CASE \E x \in slot[s].results : x[1] = r
                <5>1. entry[r] # None
                    BY <3>1, <4>1 DEF Kept, Entered
                <5>2. entry'[r] \in Entry
                    BY <1>11, <4>1, PatchTypes DEF Return, TypeOK
                <5>3. QED
                    BY <1>1, <5>1, <5>2
            <4>2. CASE ~\E x \in slot[s].results : x[1] = r
                BY <1>11, <4>2 DEF Return
            <4>3. QED
                BY <4>1, <4>2
        <3>2. QED
            BY <3>1
    <2>3. QED
        BY <1>3, <1>11, <2>1, <2>2, IdleRun DEF Return
<1>12. ASSUME NEW s \in Slots, Start(s) PROVE Counted'
    <2>1. slot[s].request \in Request
        BY <1>12, RequestsHeld DEF Start
    <2>2. QED
        BY <1>12, <2>1, CountedStart
<1>13. ASSUME NEW s \in Slots,
              AttemptFails(s) \/ ProviderAccepts(s) \/ Answered(s) \/ AnswerLost(s)
       PROVE  Counted'
    <2>1. slot[s].request \in Request
        BY <1>13, RequestsHeld DEF AttemptFails, ProviderAccepts, Answered, AnswerLost
    <2>2. QED
        BY <1>13, <2>1, CountedFails, CountedAccepts, CountedAnswered, CountedLost
<1>14. QED
    BY <1>4, <1>5, <1>6, <1>7, <1>8, <1>9, <1>10, <1>11, <1>12, <1>13, CountedReplay, CountedCrash
    DEF Next, WorkerStep, vars, worker, outside, Moderate, CancelEvent, Tick, Schedule,
        CancelReminder

-----------------------------------------------------------------------------
(***************************************************************************)
(* The theorems                                                            *)
(***************************************************************************)
NotificationsInv ==
    /\ TypeOK
    /\ RunsOK
    /\ Kept
    /\ Accepted
    /\ Counted

LEMMA InitInv == Init => NotificationsInv
<1> SUFFICES ASSUME Init PROVE NotificationsInv
    OBVIOUS
<1>1. Kept /\ Accepted
    BY DEF Init, Idle, Kept, Accepted
<1>2. QED
    BY <1>1, TypeInit, CountedInit DEF NotificationsInv

LEMMA NextInv == NotificationsInv /\ [Next]_vars => NotificationsInv'
BY TypeNext, KeptNext, AcceptedNext, CountedNext DEF NotificationsInv

\* A copy that is undertaken is the original or a replay with an entry.
LEMMA MailsCounted == NotificationsInv => MailsAccounted
<1> SUFFICES ASSUME NotificationsInv, NEW key \in Key
             PROVE  /\ mails[key] <= 1 + repeats[key]
                    /\ "SENT" \in logged[key] => mails[key] > 0
    BY DEF MailsAccounted
<1>1. Undertaken(key) \subseteq Replayed(key) \cup {0}
    <2>1. ASSUME NEW c \in Undertaken(key), c # 0 PROVE c \in Replayed(key)
        <3>1. c \in 1 .. MaxCopies
            BY <2>1, NotificationsAssumption DEF Undertaken
        <3>2. Copy(key, c).copy = c
            BY DEF Copy
        <3>3. Entered(Copy(key, c))
            <4>1. CASE Copy(key, c) \in processed
                BY <4>1 DEF NotificationsInv, Kept
            <4>2. ASSUME NEW s \in InHand(Copy(key, c)) PROVE Entered(Copy(key, c))
                <5>1. slot[s].request = Copy(key, c) /\ slot[s].request # None
                    BY <4>2, RequestsHeld, NotificationsAssumption DEF NotificationsInv, InHand
                <5>2. QED
                    BY <4>2, <5>1 DEF NotificationsInv, Kept, InHand
            <4>3. QED
                BY <2>1, <4>1, <4>2 DEF Undertaken
        <3>4. QED
            BY <3>1, <3>2, <3>3 DEF Replayed, Entered
    <2>2. QED
        BY <2>1
<1>2. /\ IsFiniteSet(Replayed(key) \cup {0})
      /\ Cardinality(Replayed(key) \cup {0}) <= Cardinality(Replayed(key)) + 1
    <2>1. IsFiniteSet(Replayed(key)) /\ Cardinality(Replayed(key)) \in Nat
        BY Sets
    <2>2. /\ IsFiniteSet(Replayed(key) \cup {0})
          /\ Cardinality(Replayed(key) \cup {0})
                = IF 0 \in Replayed(key) THEN Cardinality(Replayed(key))
                                         ELSE Cardinality(Replayed(key)) + 1
        BY <2>1, FS_AddElement
    <2>3. QED
        BY <2>1, <2>2
<1>3. Cardinality(Undertaken(key)) <= Cardinality(Replayed(key) \cup {0})
    BY <1>1, <1>2, FS_Subset
<1>4. Cardinality(Replayed(key) \cup {0}) \in Nat
    BY <1>2, FS_CardinalityType
<1>5. mails[key] <= 1 + repeats[key]
    BY <1>2, <1>3, <1>4, Sets DEF NotificationsInv, TypeOK, Counted, CountedAt
<1>6. "SENT" \in logged[key] => mails[key] > 0
    BY DEF NotificationsInv, Accepted
<1>7. QED
    BY <1>5, <1>6

\* Type correctness of the delivery of notifications.
THEOREM TypeCorrect == Spec => []TypeOK
<1>1. NotificationsInv => TypeOK
    BY DEF NotificationsInv
<1>2. QED
    BY <1>1, InitInv, NextInv, PTL DEF Spec

\* However often a message is delivered, an attempt fails or is retried, and however many
\* replays and crashes there are: every mail beyond the first has a reason of its own, and
\* what the delivery log calls sent was accepted by the provider.
THEOREM EveryMailAccounted == Spec => []MailsAccounted
BY InitInv, NextInv, MailsCounted, PTL DEF Spec

-----------------------------------------------------------------------------
(***************************************************************************)
(* What is settled stays so                                                *)
(***************************************************************************)
\* The retries of what has failed for good are used up, unless it is a text message.
Exhausted ==
    \A r \in Request :
        entry[r] # None /\ entry[r].status = "FAILED_PERMANENT" =>
            r.key.message \in Texts \/ entry[r].attempts >= MaxAttempts

NoText(r) == r.key.message \notin Texts

\* The worker has nothing to do with text messages.
ByMail(run) ==
    /\ run.message \notin Texts
    /\ run.request # None => NoText(run.request)
    /\ \A x \in run.results : NoText(x[1])

\* A text message has entries only when its reminder was sent, and these never reach the worker.
TextsApart ==
    /\ \A w \in Texts : broker[w] = None
    /\ \A s \in Slots : ByMail(slot[s])
    /\ \A r \in Request : ~NoText(r) /\ entry[r] # None => reminder[r.key.message] = "SENT"

LEMMA AdvanceByMail ==
    ASSUME NEW run \in Run, ByMail(run)
    PROVE  ByMail(Advance(run))
<1> DEFINE place == run.place + 1
           more == run.message # None /\ place <= Fan[run.message]
           r == IF more THEN Original(run.message, place) ELSE None
<1>1. /\ Advance(run).request = r
      /\ Advance(run).message = run.message /\ Advance(run).results = run.results
    BY DEF Advance, Run
<1>2. r # None => NoText(r)
    BY DEF ByMail, NoText, Original
<1> HIDE DEF r
<1>3. QED
    BY <1>1, <1>2 DEF ByMail

LEMMA WithByMail ==
    ASSUME NEW run \in Run, RunOK(run), run.request \in Request, ByMail(run),
           NEW result \in {"SENT", "FAILED"}
    PROVE  ByMail(With(run, result))
<1>1. /\ With(run, result).request = run.request
      /\ With(run, result).results = run.results \cup {<<run.request, result>>}
    BY WithRun
<1>2. With(run, result).message = run.message
    BY DEF With, Run
<1>3. NoText(run.request)
    BY NotificationsAssumption DEF ByMail
<1>4. \A x \in run.results \cup {<<run.request, result>>} : NoText(x[1])
    BY <1>3 DEF ByMail
<1>5. QED
    BY <1>1, <1>2, <1>3, <1>4 DEF ByMail

LEMMA OnwardByMail ==
    ASSUME TypeOK, RunsOK, NEW s \in Slots, ByMail(slot[s]), slot[s].request \in Request,
           NEW run \in {slot[s], With(slot[s], "SENT"), With(slot[s], "FAILED")}
    PROVE  ByMail(Advance(run))
<1>1. slot[s] \in Run /\ RunOK(slot[s])
    BY SlotType DEF RunsOK
<1>2. run \in Run /\ ByMail(run)
    BY <1>1, WithRun, WithByMail
<1>3. QED
    BY <1>2, AdvanceByMail

\* What a step does to the runs keeps them to mails.
LEMMA NextByMail ==
    ASSUME TypeOK, RunsOK, TextsApart, [Next]_vars
    PROVE  \A t \in Slots : ByMail(slot'[t])
<1>1. slot \in [Slots -> Run] /\ \A t \in Slots : ByMail(slot[t])
    BY SlotType DEF TextsApart
<1>2. CASE UNCHANGED slot
    BY <1>1, <1>2
<1>3. ASSUME NEW s \in Slots, NEW run, ByMail(run), slot' = [slot EXCEPT ![s] = run]
      PROVE  \A t \in Slots : ByMail(slot'[t])
    BY <1>1, <1>3
<1>4. ByMail(Idle)
    BY NotificationsAssumption DEF ByMail, Idle, Messages
<1>5. ASSUME NEW s \in Slots, Receive(s) PROVE \A t \in Slots : ByMail(slot'[t])
    <2>1. PICK message \in Messages :
              broker[message] = "pending" /\ slot' = [slot EXCEPT ![s] = Begun(message)]
        BY <1>5 DEF Receive
    <2>2. message \notin Texts
        <3>1. None # "pending"
            BY NotificationsAssumption
        <3>2. QED
            BY <2>1, <3>1 DEF TextsApart
    <2>3. ByMail(Begun(message))
        BY <2>2 DEF ByMail, NoText, Begun, Original
    <2>4. QED
        BY <1>3, <2>1, <2>3
<1>6. ASSUME NEW s \in Slots, NEW r \in Request, Retry(s, r)
      PROVE  \A t \in Slots : ByMail(slot'[t])
    <2> DEFINE run == [Idle EXCEPT !.pc = "next", !.request = r]
    <2>1. slot' = [slot EXCEPT ![s] = run] /\ NoText(r)
        BY <1>6 DEF Retry, NoText
    <2>2. run.message = None /\ run.request = r /\ run.results = {}
        BY DEF Idle
    <2>3. ByMail(run)
        <3>1. None \notin Texts
            BY NotificationsAssumption DEF Messages
        <3>2. QED
            BY <2>1, <2>2, <3>1 DEF ByMail
    <2>4. QED
        BY <1>3, <2>1, <2>3
<1>7. ASSUME NEW s \in Slots, slot[s].request \in Request,
             NEW run \in {slot[s], With(slot[s], "SENT"), With(slot[s], "FAILED")},
             slot' = [slot EXCEPT ![s] = Advance(run)]
      PROVE  \A t \in Slots : ByMail(slot'[t])
    BY <1>1, <1>3, <1>7, OnwardByMail
<1>8. ASSUME NEW s \in Slots, NEW pc, slot' = [slot EXCEPT ![s].pc = pc]
      PROVE  \A t \in Slots : ByMail(slot'[t])
    <2>1. slot' = [slot EXCEPT ![s] = [slot[s] EXCEPT !.pc = pc]]
        BY <1>1, <1>8
    <2>2. ByMail([slot[s] EXCEPT !.pc = pc])
        BY <1>1 DEF ByMail, Run
    <2>3. QED
        BY <1>3, <2>1, <2>2
<1>9. ASSUME NEW s \in Slots, Return(s) PROVE \A t \in Slots : ByMail(slot'[t])
    BY <1>3, <1>4, <1>9 DEF Return
<1>10. ASSUME NEW s \in Slots, WorkerStep(s) PROVE \A t \in Slots : ByMail(slot'[t])
    <2>1. slot[s].request # None => slot[s].request \in Request
        BY RequestsHeld
    <2>2. slot[s].pc \in {"send", "answer"} => slot[s].request \in Request
        BY RequestsHeld
    <2>3. CASE Reject(s)
        BY <1>7, <2>1, <2>3 DEF Reject, Rejected
    <2>4. CASE SkipProcessed(s)
        BY <1>7, <2>4 DEF SkipProcessed, TypeOK
    <2>5. CASE Start(s)
        BY <1>8, <2>5 DEF Start
    <2>6. CASE AttemptFails(s)
        BY <1>7, <2>2, <2>6 DEF AttemptFails, Failed
    <2>7. CASE ProviderAccepts(s)
        BY <1>8, <2>7 DEF ProviderAccepts
    <2>8. CASE Answered(s)
        BY <1>7, <2>2, <2>8 DEF Answered
    <2>9. CASE AnswerLost(s)
        BY <1>7, <2>2, <2>9 DEF AnswerLost, Failed
    <2>10. QED
        BY <1>9, <1>10, <2>3, <2>4, <2>5, <2>6, <2>7, <2>8, <2>9 DEF WorkerStep
<1>11. CASE Crash
    BY <1>4, <1>11 DEF Crash
<1>12. QED
    BY <1>2, <1>5, <1>6, <1>10, <1>11
    DEF Next, vars, worker, Moderate, CancelEvent, Tick, Schedule, Remind, CancelReminder,
        SimulateSms, Replay, outside

\* What a step does to an entry: the first attempt is opened where there is none, for a text
\* when its reminder is sent; a text is simulated; or a run of the worker patches it.
Opens(r) == entry'[r] = [status |-> "PENDING", attempts |-> 0]

LEMMA EntryMoves ==
    ASSUME TypeOK, RunsOK, TextsApart, [Next]_vars, NEW r \in Request
    PROVE  \/ entry'[r] = entry[r]
           \/ Opens(r) /\ entry[r] = None /\ (NoText(r) \/ reminder'[r.key.message] = "SENT")
           \/ Opens(r) /\ ~NoText(r) /\ reminder[r.key.message] = "PENDING"
                       /\ reminder'[r.key.message] = "SENT"
           \/ /\ ~NoText(r) /\ Open(r) /\ reminder' = reminder
           \/ /\ NoText(r) /\ reminder' = reminder
              /\ \E x : /\ entry'[r] = Patched(entry[r], x)
                        /\ x = "SENT" => "SENT" \in logged'[r.key]
<1>1. CASE UNCHANGED entry
    BY <1>1
<1>2. ASSUME NEW w \in Windows, Remind(w), w \in Texts
      PROVE  \/ entry'[r] = entry[r]
             \/ Opens(r) /\ ~NoText(r) /\ reminder[r.key.message] = "PENDING"
                         /\ reminder'[r.key.message] = "SENT"
    <2>1. CASE r.key.message = w /\ r.copy = 0
        BY <1>2, <2>1 DEF Remind, Opens, NoText, TypeOK
    <2>2. CASE ~(r.key.message = w /\ r.copy = 0)
        BY <1>2, <2>2 DEF Remind
    <2>3. QED
        BY <2>1, <2>2
<1>3. ASSUME NEW s \in Slots, Return(s)
      PROVE  \/ entry'[r] = entry[r]
             \/ /\ NoText(r) /\ reminder' = reminder
                /\ \E x : /\ entry'[r] = Patched(entry[r], x)
                          /\ x = "SENT" => "SENT" \in logged'[r.key]
    <2>1. CASE \E x \in slot[s].results : x[1] = r
        <3> DEFINE y == CHOOSE x \in slot[s].results : x[1] = r
        <3>1. y \in slot[s].results /\ y[1] = r
            BY <2>1
        <3>2. entry'[r] = Patched(entry[r], y[2])
            BY <1>3, <2>1 DEF Return
        <3> HIDE DEF y
        <3>3. NoText(r)
            BY <3>1 DEF TextsApart, ByMail
        <3>4. r.key \in Key
            BY RequestKeys
        <3>5. y[2] \in logged'[r.key]
            BY <1>3, <3>1, <3>4 DEF Return
        <3>6. QED
            BY <1>3, <3>2, <3>3, <3>5 DEF Return, outside
    <2>2. CASE ~ \E x \in slot[s].results : x[1] = r
        BY <1>3, <2>2 DEF Return
    <2>3. QED
        BY <2>1, <2>2
<1>4. ASSUME NEW q \in Request, SimulateSms(q)
      PROVE  \/ entry'[r] = entry[r]
             \/ ~NoText(r) /\ Open(r) /\ reminder' = reminder
    <2>1. CASE q = r
        BY <1>4, <2>1 DEF SimulateSms, NoText, outside
    <2>2. CASE q # r
        BY <1>4, <2>2 DEF SimulateSms, TypeOK
    <2>3. QED
        BY <2>1, <2>2
<1>5. ASSUME NEW q \in Request, Replay(q)
      PROVE  \/ entry'[r] = entry[r]
             \/ Opens(r) /\ entry[r] = None /\ (NoText(r) \/ reminder'[r.key.message] = "SENT")
    <2>1. PICK copy \in 1 .. MaxCopies :
              /\ entry[q] # None
              /\ entry[Copy(q.key, copy)] = None
              /\ entry' = [entry EXCEPT ![Copy(q.key, copy)] =
                              [status |-> "PENDING", attempts |-> 0]]
        BY <1>5 DEF Replay, Copy
    <2>2. reminder' = reminder
        BY <1>5 DEF Replay, outside
    <2>3. CASE r = Copy(q.key, copy)
        <3>1. r.key = q.key
            BY <2>3 DEF Copy
        <3>2. NoText(r) \/ reminder[r.key.message] = "SENT"
            BY <2>1, <3>1 DEF TextsApart, NoText
        <3>3. Opens(r) /\ entry[r] = None
            BY <2>1, <2>3 DEF Opens, TypeOK
        <3>4. QED
            BY <2>2, <3>2, <3>3
    <2>4. CASE r # Copy(q.key, copy)
        BY <2>1, <2>4 DEF TypeOK
    <2>5. QED
        BY <2>3, <2>4
<1>6. QED
    <2>1. ASSUME NEW w \in Windows, Remind(w), w \notin Texts PROVE entry' = entry
        BY <2>1 DEF Remind
    <2>2. QED
        BY <1>1, <1>2, <1>3, <1>4, <1>5, <2>1
        DEF Next, WorkerStep, vars, worker, outside, Moderate, CancelEvent, Tick, Schedule,
            CancelReminder, Receive, Reject, SkipProcessed, Start, AttemptFails, ProviderAccepts,
            Answered, AnswerLost, Retry, Crash

\* A reminder that was sent stays so, and a text message is not given to the broker.
LEMMA RemindersSent ==
    ASSUME TypeOK, TextsApart, [Next]_vars, NEW w \in Texts
    PROVE  broker'[w] = None /\ (reminder[w] = "SENT" => reminder'[w] = "SENT")
<1>1. w \in Windows /\ w # Cancellation /\ w \in Messages /\ broker[w] = None
    BY NotificationsAssumption DEF TextsApart, Messages
<1>2. CASE UNCHANGED <<broker, reminder>>
    BY <1>1, <1>2
<1>3. CASE CancelEvent
    BY <1>1, <1>3 DEF CancelEvent, TypeOK
<1>4. CASE Schedule
    <2>1. None # "SENT"
        BY NotificationsAssumption
    <2>2. QED
        BY <1>1, <1>4, <2>1 DEF Schedule
<1>5. ASSUME NEW v \in Windows, Remind(v) \/ CancelReminder(v)
      PROVE  broker'[w] = None /\ (reminder[w] = "SENT" => reminder'[w] = "SENT")
    BY <1>1, <1>5 DEF Remind, CancelReminder, TypeOK
<1>6. ASSUME NEW s \in Slots, Return(s)
      PROVE  broker'[w] = None /\ reminder' = reminder
    <2>1. slot[s].message # w
        BY DEF TextsApart, ByMail
    <2>2. QED
        BY <1>1, <1>6, <2>1 DEF Return, outside
<1>7. QED
    BY <1>2, <1>3, <1>4, <1>5, <1>6
    DEF Next, WorkerStep, vars, worker, outside, Moderate, Tick, Receive, Reject, SkipProcessed,
        Start, AttemptFails, ProviderAccepts, Answered, AnswerLost, Retry, SimulateSms, Replay,
        Crash

LEMMA TextsNext ==
    ASSUME TypeOK, RunsOK, TextsApart, [Next]_vars
    PROVE  TextsApart'
<1>1. ASSUME NEW r \in Request, ~NoText(r), entry'[r] # None
      PROVE  reminder'[r.key.message] = "SENT"
    <2>1. r.key.message \in Texts
        BY <1>1 DEF NoText
    <2>2. entry[r] # None => reminder'[r.key.message] = "SENT"
        BY <1>1, <2>1, RemindersSent DEF TextsApart
    <2>3. Open(r) => entry[r] # None
        BY DEF Open
    <2>4. QED
        BY <1>1, <2>2, <2>3, EntryMoves
<1>2. \A w \in Texts : broker'[w] = None
    BY RemindersSent
<1>3. QED
    BY <1>1, <1>2, NextByMail DEF TextsApart, NoText, ByMail

LEMMA TextsInit == Init => TextsApart
<1> SUFFICES ASSUME Init PROVE TextsApart
    OBVIOUS
<1>1. ByMail(Idle)
    BY NotificationsAssumption DEF ByMail, Idle, Messages
<1>2. QED
    BY <1>1, NotificationsAssumption DEF Init, TextsApart, Messages

\* A patch of what has failed for good, with its retries used up, is a success or fails again
\* for good; and what fails for good has its retries used up.
LEMMA PatchesSettle ==
    ASSUME NEW old \in Entry \cup {None}, NEW x
    PROVE  /\ Patched(old, x).status = "FAILED_PERMANENT" /\
              (old # None /\ old.status = "FAILED_PERMANENT" => old.attempts >= MaxAttempts)
                => Patched(old, x).attempts >= MaxAttempts
           /\ old # None /\ old.status = "FAILED_PERMANENT" /\ old.attempts >= MaxAttempts
                => x = "SENT" \/ Patched(old, x).status = "FAILED_PERMANENT"
<1> DEFINE known == IF old = None THEN [status |-> "PENDING", attempts |-> 0] ELSE old
<1>1. known \in Entry /\ known.attempts \in Nat /\ MaxAttempts \in Nat
    BY NotificationsAssumption DEF Entry, Statuses
<1>2. \/ Patched(old, x) = SuccessPatch(known) /\ x = "SENT"
      \/ Patched(old, x) = known /\ known.status = "SENT"
      \/ Patched(old, x) = RetryPatch(known, TRUE)
    BY DEF Patched
<1>3. SuccessPatch(known).status = "SENT"
    BY <1>1 DEF SuccessPatch, Entry
<1>4. /\ RetryPatch(known, TRUE).attempts = known.attempts + 1
      /\ RetryPatch(known, TRUE).status = "FAILED_PERMANENT" <=> known.attempts >= MaxAttempts
    BY <1>1 DEF RetryPatch
<1>5. old # None => known = old
    OBVIOUS
<1> HIDE DEF known
<1>6. CASE Patched(old, x) = RetryPatch(known, TRUE)
    <2>1. Patched(old, x).attempts = known.attempts + 1
        BY <1>4, <1>6
    <2>2. Patched(old, x).status = "FAILED_PERMANENT" <=> known.attempts >= MaxAttempts
        BY <1>4, <1>6
    <2>3. known.attempts >= MaxAttempts => known.attempts + 1 >= MaxAttempts
        BY <1>1
    <2>4. QED
        BY <1>5, <2>1, <2>2, <2>3
<1>7. CASE Patched(old, x) = SuccessPatch(known) /\ x = "SENT"
    BY <1>3, <1>7
<1>8. CASE Patched(old, x) = known /\ known.status = "SENT"
    BY <1>5, <1>8
<1>9. QED
    BY <1>2, <1>6, <1>7, <1>8

LEMMA ExhaustedNext ==
    ASSUME TypeOK, RunsOK, TextsApart, Exhausted, [Next]_vars
    PROVE  Exhausted'
<1> SUFFICES ASSUME NEW r \in Request, NoText(r), entry'[r] # None,
                    entry'[r].status = "FAILED_PERMANENT"
             PROVE  entry'[r].attempts >= MaxAttempts
    BY DEF Exhausted, NoText
<1>1. entry[r] \in Entry \cup {None}
    BY DEF TypeOK
<1>2. entry[r] # None /\ entry[r].status = "FAILED_PERMANENT" => entry[r].attempts >= MaxAttempts
    BY DEF Exhausted, NoText
<1>3. ~Opens(r)
    BY DEF Opens
<1>4. QED
    BY <1>1, <1>2, <1>3, EntryMoves, PatchesSettle

LEMMA LogGrows ==
    ASSUME TypeOK, [Next]_vars, NEW key \in Key
    PROVE  logged[key] \subseteq logged'[key]
<1>1. CASE UNCHANGED logged
    BY <1>1
<1>2. ASSUME NEW s \in Slots, Return(s) PROVE logged[key] \subseteq logged'[key]
    BY <1>2 DEF Return
<1>3. ASSUME NEW q \in Request, SimulateSms(q) PROVE logged[key] \subseteq logged'[key]
    <2>1. CASE logged' = [logged EXCEPT ![q.key] = logged[q.key] \cup {"SIMULATED"}]
        BY <2>1 DEF TypeOK
    <2>2. QED
        BY <1>1, <1>3, <2>1 DEF SimulateSms
<1>4. QED
    BY <1>1, <1>2, <1>3
    DEF Next, WorkerStep, vars, worker, outside, Moderate, CancelEvent, Tick, Schedule, Remind,
        CancelReminder, Receive, Reject, SkipProcessed, Start, AttemptFails, ProviderAccepts,
        Answered, AnswerLost, Retry, Replay, Crash

LEMMA SettledNext ==
    ASSUME TypeOK, TypeOK', RunsOK, TextsApart, Exhausted, [Next]_vars,
           NEW key \in Key, Settled(key)
    PROVE  Settled(key)'
<1>1. CASE AlreadySent(key)
    BY <1>1, LogGrows DEF AlreadySent, Settled
<1>2. ASSUME NEW r \in Request, r.key = key, entry[r] # None,
             entry[r].status = "FAILED_PERMANENT"
      PROVE  Settled(key)'
    <2>1. CASE entry'[r] # None /\ entry'[r].status = "FAILED_PERMANENT"
        BY <1>2, <2>1 DEF Settled
    <2>2. CASE "SENT" \in logged'[key]
        BY <2>2 DEF Settled, AlreadySent
    <2>3. ~Open(r) /\ entry[r] \in Entry /\ entry'[r] # None
        BY <1>2, Records DEF Open, TypeOK
    <2>4. ~NoText(r) => reminder[r.key.message] = "SENT"
        BY <1>2 DEF TextsApart
    <2>5. CASE NoText(r) /\ \E x : /\ entry'[r] = Patched(entry[r], x)
                                   /\ x = "SENT" => "SENT" \in logged'[r.key]
        <3>1. entry[r].attempts >= MaxAttempts
            BY <1>2, <2>5 DEF Exhausted, NoText
        <3>2. PICK x : /\ entry'[r] = Patched(entry[r], x)
                       /\ x = "SENT" => "SENT" \in logged'[r.key]
            BY <2>5
        <3>3. x = "SENT" \/ entry'[r].status = "FAILED_PERMANENT"
            BY <1>2, <2>3, <3>1, <3>2, PatchesSettle
        <3>4. QED
            BY <1>2, <2>1, <2>2, <2>3, <3>2, <3>3
    <2>6. CASE entry'[r] = entry[r]
        BY <1>2, <2>1, <2>6
    <2>7. QED
        BY <1>2, <2>3, <2>4, <2>5, <2>6, EntryMoves
<1>3. QED
    BY <1>1, <1>2 DEF Settled

\* Nobody who was told, or whose notification has failed for good, is pending again.
THEOREM SettledForGood == Spec => SettledStays
<1> DEFINE Inv == TypeOK /\ RunsOK /\ TextsApart /\ Exhausted
<1>1. Init => Inv
    BY TypeInit, TextsInit DEF Init, Exhausted
<1>2. Inv /\ [Next]_vars => Inv'
    BY TypeNext, TextsNext, ExhaustedNext
<1>3. Inv /\ [Next]_vars => (\A key \in Key : Settled(key) => Settled(key)')
    BY TypeNext, SettledNext
<1>4. QED
    BY <1>1, <1>2, <1>3, PTL DEF Spec, SettledStays
=============================================================================
