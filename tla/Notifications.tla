---------------------------- MODULE Notifications ----------------------------
(***************************************************************************)
(* The notification pipeline of src/services/shared: the email worker with *)
(* its delivery log, the retry policy, the manual replay, the simulated    *)
(* text messages, and the reminders, whose fate follows the moderation of  *)
(* the event.                                                              *)
(*                                                                         *)
(* These modules decide and leave it to their host to act.  The host is    *)
(* external: a broker that delivers a message until it is acknowledged, a  *)
(* table of entries to which the patches of the retry policy are applied,  *)
(* and timers that pick up what is due.                                    *)
(***************************************************************************)
EXTENDS Naturals, FiniteSets

CONSTANTS
    Slots,          \* the runs of the worker there can be at a time
    Cancellation,   \* the message that the event is cancelled
    Windows,        \* the reminders, each a message to one recipient
    Texts,          \* the reminders that go out as text messages
    DueAt,          \* when a reminder is due, in ticks of the clock
    Fan,            \* the number of recipients of a message
    Invalid,        \* the recipients without an address, or with a variable missing
    MaxAttempts,    \* MAX_ATTEMPTS
    MaxCopies,      \* bound: replays of one entry
    MaxTroubles,    \* bound: deaths of the worker's process, sends that fail although the
                    \* provider has accepted, messages delivered while being processed
    MaxClock,       \* bound: ticks of the clock
    None

Messages == {Cancellation} \cup Windows

Statuses == {"PENDING", "FAILED", "FAILED_PERMANENT", "SENT"}

\* What a mail is about and to whom: the deduplication key of the retry policy.
Key == UNION {[message : {m}, place : 1 .. Fan[m]] : m \in Messages}

\* What the worker is asked to send; copy 0 is the original and the others are
\* replays, which have a messageId of their own.
Request == [key : Key, copy : 0 .. MaxCopies]

\* An entry of the retry policy.
Entry == [status : Statuses, attempts : Nat]

ASSUME NotificationsAssumption ==
    /\ Cancellation \notin Windows
    /\ Texts \subseteq Windows
    /\ DueAt \in [Windows -> Nat]
    /\ Fan \in [Messages -> Nat \ {0}]
    /\ {MaxAttempts, MaxCopies, MaxTroubles, MaxClock} \subseteq Nat
    /\ IsFiniteSet(Slots)
    /\ None \notin Messages \cup Request \cup Entry \cup {"pending", "SENT"}

VARIABLES
    event,          \* the status of the event
    clock,
    reminder,       \* the schedule entry of each reminder
    broker,         \* the messages the broker delivers until they are acknowledged
    slot,           \* the runs of the worker
    processed,      \* processedMessageStore
    logged,         \* the statuses in the delivery log for each key
    entry,          \* the notification entries the retry policy works on
    mails,          \* the mails the provider has accepted for each key
    repeats,        \* history: the reasons there are for a further mail, for each key
    crashes,
    faults,
    overlaps

vars == <<event, clock, reminder, broker, slot, processed, logged, entry, mails,
          repeats, crashes, faults, overlaps>>

Idle == [pc |-> "idle", message |-> None, place |-> 0, request |-> None, results |-> {}]

TypeOK ==
    /\ event \in {"PENDING_REVIEW", "CHANGES_REQUESTED", "PUBLISHED", "SUSPENDED", "CANCELLED"}
    /\ clock \in 0 .. MaxClock
    /\ reminder \in [Windows -> {None, "PENDING", "SENT", "CANCELLED"}]
    /\ broker \in [Messages -> {None, "pending", "acknowledged"}]
    /\ slot \in [Slots -> [pc : {"idle", "next", "send", "answer"},
                           message : Messages \cup {None}, place : Nat,
                           request : Request \cup {None},
                           results : SUBSET (Request \X {"SENT", "FAILED"})]]
    /\ processed \subseteq Request
    /\ logged \in [Key -> SUBSET {"SENT", "FAILED", "SIMULATED"}]
    /\ entry \in [Request -> Entry \cup {None}]
    /\ mails \in [Key -> Nat]
    /\ repeats \in [Key -> Nat]
    /\ crashes \in 0 .. MaxTroubles
    /\ faults \in 0 .. MaxTroubles
    /\ overlaps \in 0 .. MaxTroubles

Init ==
    /\ event = "PENDING_REVIEW"
    /\ clock = 0
    /\ reminder = [w \in Windows |-> None]
    /\ broker = [m \in Messages |-> None]
    /\ slot = [s \in Slots |-> Idle]
    /\ processed = {}
    /\ logged = [key \in Key |-> {}]
    /\ entry = [r \in Request |-> None]
    /\ mails = [key \in Key |-> 0]
    /\ repeats = [key \in Key |-> 0]
    /\ crashes = 0
    /\ faults = 0
    /\ overlaps = 0

worker == <<slot, processed, logged, mails, crashes, faults, overlaps>>

-----------------------------------------------------------------------------
(***************************************************************************)
(* The event and its reminders                                             *)
(***************************************************************************)

\* TRANSITION_MAP
Moderation ==
    [PENDING_REVIEW |-> {"PUBLISHED", "CANCELLED", "CHANGES_REQUESTED"},
     CHANGES_REQUESTED |-> {"PUBLISHED", "CANCELLED", "PENDING_REVIEW"},
     PUBLISHED |-> {"SUSPENDED"},
     SUSPENDED |-> {"PENDING_REVIEW"},
     CANCELLED |-> {}]

Moderate ==
    /\ event' \in Moderation[event]
    /\ UNCHANGED <<clock, reminder, broker, entry, repeats, worker>>

\* The organizer cancels the event, and the participants are to be told.
CancelEvent ==
    /\ event = "PUBLISHED"
    /\ event' = "CANCELLED"
    /\ broker' = [broker EXCEPT ![Cancellation] = "pending"]
    /\ UNCHANGED <<clock, reminder, entry, repeats, worker>>

Tick ==
    /\ clock < MaxClock
    /\ clock' = clock + 1
    /\ UNCHANGED <<event, reminder, broker, entry, repeats, worker>>

\* buildEventReminderSchedule: the host schedules the windows still to come when
\* the event is published.
Schedule ==
    LET open == {w \in Windows : reminder[w] = None /\ DueAt[w] > clock}
    IN  /\ event = "PUBLISHED"
        /\ open # {}
        /\ reminder' = [w \in Windows |-> IF w \in open THEN "PENDING" ELSE reminder[w]]
        /\ UNCHANGED <<event, clock, broker, entry, repeats, worker>>

\* isEligibleForReminder; participants who are not confirmed are left out.
EligibleForReminder == event = "PUBLISHED"

\* A reminder that is due is sent: a mail is handed to the broker, a text is a
\* new entry.
Remind(w) ==
    /\ reminder[w] = "PENDING"
    /\ DueAt[w] <= clock
    /\ EligibleForReminder
    /\ reminder' = [reminder EXCEPT ![w] = "SENT"]
    /\ IF w \in Texts
       THEN /\ entry' = [r \in Request |->
                            IF r.key.message = w /\ r.copy = 0
                            THEN [status |-> "PENDING", attempts |-> 0]
                            ELSE entry[r]]
            /\ UNCHANGED broker
       ELSE /\ broker' = [broker EXCEPT ![w] = "pending"]
            /\ UNCHANGED entry
    /\ UNCHANGED <<event, clock, repeats, worker>>

\* shouldCancelReminder
CancelReminder(w) ==
    /\ reminder[w] = "PENDING"
    /\ event = "CANCELLED"
    /\ reminder' = [reminder EXCEPT ![w] = "CANCELLED"]
    /\ UNCHANGED <<event, clock, broker, entry, repeats, worker>>

-----------------------------------------------------------------------------
(***************************************************************************)
(* The email worker                                                        *)
(***************************************************************************)
outside == <<event, clock, reminder, crashes>>

Trouble == crashes + faults + overlaps < MaxTroubles

Processing(message) == {s \in Slots : slot[s].message = message}

\* The request to send a message to the recipient at a place.
Original(message, place) == [key |-> [message |-> message, place |-> place], copy |-> 0]

Begun(message) == [pc |-> "next", message |-> message, place |-> 1,
                   request |-> Original(message, 1), results |-> {}]

\* The broker delivers a message, perhaps while it is being processed.
Receive(s) ==
    \E message \in Messages :
        /\ broker[message] = "pending"
        /\ slot[s].pc = "idle"
        /\ IF Processing(message) = {}
           THEN UNCHANGED overlaps
           ELSE Trouble /\ overlaps' = overlaps + 1
        /\ slot' = [slot EXCEPT ![s] = Begun(message)]
        /\ UNCHANGED <<outside, broker, processed, logged, entry, mails, repeats, faults>>

\* The run goes on with the next recipient, of whom there is one in a retry.
Advance(run) ==
    LET place == run.place + 1
        more == run.message # None /\ place <= Fan[run.message]
    IN  [run EXCEPT !.pc = "next", !.place = place,
                    !.request = IF more THEN Original(run.message, place) ELSE None]

With(run, result) == [run EXCEPT !.results = @ \cup {<<run.request, result>>}]

Failed(run) == Advance(With(run, "FAILED"))

\* Mutant: the loop over the recipients ends with one who is rejected.
RejectedAndOut(run) == [run EXCEPT !.request = None]

\* The loop over the recipients goes on.
Rejected(run) == Advance(run)

\* normalizeDispatchRequest rejects a recipient without an address: a result
\* without a log entry.
Reject(s) ==
    /\ slot[s].pc = "next"
    /\ slot[s].request # None
    /\ slot[s].request.key \in Invalid
    /\ slot' = [slot EXCEPT ![s] = Rejected(@)]
    /\ UNCHANGED <<outside, broker, processed, logged, entry, mails, repeats, faults, overlaps>>

\* A messageId that is in processedMessageStore counts as sent.
SkipProcessed(s) ==
    /\ slot[s].pc = "next"
    /\ slot[s].request \in processed
    /\ slot' = [slot EXCEPT ![s] = Advance(With(@, "SENT"))]
    /\ UNCHANGED <<outside, broker, processed, logged, entry, mails, repeats, faults, overlaps>>

InHand(r) == {s \in Slots : slot[s].pc \in {"send", "answer"} /\ slot[s].request = r}

\* The template is rendered and the mail handed to the provider: two awaits, and
\* nothing is read or written between them.
Start(s) ==
    /\ slot[s].pc = "next"
    /\ slot[s].request # None
    /\ slot[s].request.key \notin Invalid
    /\ slot[s].request \notin processed
    /\ slot' = [slot EXCEPT ![s].pc = "send"]
    /\ repeats' = [repeats EXCEPT ![slot[s].request.key] =
                                  IF InHand(slot[s].request) = {} THEN @ ELSE @ + 1]
    /\ UNCHANGED <<outside, broker, processed, logged, entry, mails, faults, overlaps>>

\* The renderer throws, or the provider refuses the mail.
AttemptFails(s) ==
    /\ slot[s].pc = "send"
    /\ slot' = [slot EXCEPT ![s] = Failed(@)]
    /\ UNCHANGED <<outside, broker, processed, logged, entry, mails, repeats, faults, overlaps>>

ProviderAccepts(s) ==
    /\ slot[s].pc = "send"
    /\ slot' = [slot EXCEPT ![s].pc = "answer"]
    /\ mails' = [mails EXCEPT ![slot[s].request.key] = @ + 1]
    /\ UNCHANGED <<outside, broker, processed, logged, entry, repeats, faults, overlaps>>

\* Mutant: the messageId is not kept.
Forgotten(r) == processed

\* processedMessageStore.add
Remembered(r) == processed \cup {r}

Answered(s) ==
    /\ slot[s].pc = "answer"
    /\ processed' = Remembered(slot[s].request)
    /\ slot' = [slot EXCEPT ![s] = Advance(With(@, "SENT"))]
    /\ UNCHANGED <<outside, broker, logged, entry, mails, repeats, faults, overlaps>>

\* sendEmail throws although the provider has accepted the mail.
AnswerLost(s) ==
    /\ slot[s].pc = "answer"
    /\ Trouble
    /\ faults' = faults + 1
    /\ repeats' = [repeats EXCEPT ![slot[s].request.key] = @ + 1]
    /\ slot' = [slot EXCEPT ![s] = Failed(@)]
    /\ UNCHANGED <<outside, broker, processed, logged, entry, mails, overlaps>>

-----------------------------------------------------------------------------
(***************************************************************************)
(* The retry policy                                                        *)
(***************************************************************************)

\* buildRetryPatch: shouldRetry is asked with the attempts made before this one.
RetryPatch(old, recoverable) ==
    [status |-> IF recoverable /\ old.attempts < MaxAttempts THEN "FAILED" ELSE "FAILED_PERMANENT",
     attempts |-> old.attempts + 1]

SuccessPatch(old) == [old EXCEPT !.status = "SENT"]

Patched(old, result) ==
    LET known == IF old = None THEN [status |-> "PENDING", attempts |-> 0] ELSE old
    IN  IF result = "SENT" THEN SuccessPatch(known)
        ELSE IF known.status = "SENT" THEN known
        ELSE RetryPatch(known, TRUE)

\* processEvent returns ok with its results whatever these are, and only now the
\* host appends them to the log, patches the entries and acknowledges the message.
Return(s) ==
    /\ slot[s].pc = "next"
    /\ slot[s].request = None
    /\ logged' = [key \in Key |->
                     logged[key] \cup {x[2] : x \in {y \in slot[s].results : y[1].key = key}}]
    /\ entry' = [r \in Request |->
                    IF \E x \in slot[s].results : x[1] = r
                    THEN Patched(entry[r], (CHOOSE x \in slot[s].results : x[1] = r)[2])
                    ELSE entry[r]]
    /\ broker' = [m \in Messages |-> IF m = slot[s].message THEN "acknowledged" ELSE broker[m]]
    /\ slot' = [slot EXCEPT ![s] = Idle]
    /\ UNCHANGED <<outside, processed, mails, repeats, faults, overlaps>>

AlreadySent(key) == logged[key] \cap {"SENT", "SIMULATED"} # {}

Open(r) == entry[r] # None /\ entry[r].status \in {"PENDING", "FAILED"}

\* The host picks up an entry whose nextRetryAt has come, or a replay.
Retry(s, r) ==
    /\ slot[s].pc = "idle"
    /\ Open(r)
    /\ r.key.message \notin Texts
    /\ ~AlreadySent(r.key)
    /\ \A other \in Slots : ~(slot[other].message = None /\ slot[other].request = r)
    /\ slot' = [slot EXCEPT ![s] = [Idle EXCEPT !.pc = "next", !.request = r]]
    /\ UNCHANGED <<outside, broker, processed, logged, entry, mails, repeats, faults, overlaps>>

\* simulateSms: a text is simulated at once, or refused with an error that no
\* retry can mend.
SimulateSms(r) ==
    /\ Open(r)
    /\ r.key.message \in Texts
    /\ IF r.key \in Invalid
       THEN /\ entry' = [entry EXCEPT ![r] = RetryPatch(@, FALSE)]
            /\ UNCHANGED logged
       ELSE /\ entry' = [entry EXCEPT ![r] = SuccessPatch(@)]
            /\ logged' = [logged EXCEPT ![r.key] = @ \cup {"SIMULATED"}]
    /\ UNCHANGED <<outside, broker, slot, processed, mails, repeats, faults, overlaps>>

\* An administrator replays an entry: isEligibleForReplay, buildReplayEntry.  The
\* recipients whose account is not active are left out.
Replay(r) ==
    \E copy \in 1 .. MaxCopies :
        LET new == [key |-> r.key, copy |-> copy]
        IN  /\ entry[r] # None
            /\ entry[r].status = "FAILED_PERMANENT"
            /\ event # "CANCELLED"
            /\ entry[new] = None
            /\ copy > 1 => entry[[new EXCEPT !.copy = copy - 1]] # None
            /\ entry' = [entry EXCEPT ![new] = [status |-> "PENDING", attempts |-> 0]]
            /\ repeats' = [repeats EXCEPT ![r.key] = @ + 1]
            /\ UNCHANGED <<outside, broker, slot, processed, logged, mails, faults, overlaps>>

\* The copies of a mail that the provider has accepted and the process knows of.
Known(key) ==
    {copy \in 0 .. MaxCopies :
        LET r == [key |-> key, copy |-> copy]
        IN  r \in processed \/ \E s \in InHand(r) : slot[s].pc = "answer"}

\* The process dies, and processedMessageStore with it: what it knew of may be sent again.
Crash ==
    /\ Trouble
    /\ crashes' = crashes + 1
    /\ slot' = [s \in Slots |-> Idle]
    /\ processed' = {}
    /\ repeats' = [key \in Key |-> repeats[key] + Cardinality(Known(key))]
    /\ UNCHANGED <<event, clock, reminder, broker, logged, entry, mails, faults, overlaps>>

WorkerStep(s) ==
    \/ Reject(s)
    \/ SkipProcessed(s)
    \/ Start(s)
    \/ AttemptFails(s)
    \/ ProviderAccepts(s)
    \/ Answered(s)
    \/ AnswerLost(s)
    \/ Return(s)

Next ==
    \/ Moderate
    \/ CancelEvent
    \/ Tick
    \/ Schedule
    \/ \E w \in Windows : Remind(w) \/ CancelReminder(w)
    \/ \E s \in Slots : Receive(s) \/ WorkerStep(s) \/ \E r \in Request : Retry(s, r)
    \/ \E r \in Request : SimulateSms(r) \/ Replay(r)
    \/ Crash

\* The host goes on with what it has begun, delivers what is pending and picks up
\* what is due; all of this comes to an end, so it is enough that it always goes on.
Progress ==
    \/ \E s \in Slots : Receive(s) \/ WorkerStep(s) \/ \E r \in Request : Retry(s, r)
    \/ \E r \in Request : SimulateSms(r)

Spec == Init /\ [][Next]_vars /\ WF_vars(Progress)

-----------------------------------------------------------------------------
\* Every mail beyond the first has its reason: the process died after the provider had
\* accepted it, the answer of the provider was lost, two runs had the same request in
\* hand, or an administrator replayed it; redelivery and retries alone repeat nothing.
\* And what is logged as sent was accepted by the provider.
MailsAccounted ==
    \A key \in Key :
        /\ mails[key] <= 1 + repeats[key]
        /\ "SENT" \in logged[key] => mails[key] > 0

\* No recipient is forgotten, also when the mail to another one fails or the
\* process dies: in the end the notification is sent or known to have failed for good.
Settled(key) ==
    \/ AlreadySent(key)
    \/ \E r \in Request :
        r.key = key /\ entry[r] # None /\ entry[r].status = "FAILED_PERMANENT"

Announced(key) ==
    \/ broker[key.message] # None
    \/ key.message \in Texts /\ reminder[key.message] = "SENT"

NobodyForgotten ==
    []<>(\A key \in Key : Announced(key) => key \in Invalid \/ Settled(key))

\* What is settled stays so: a later failure, redelivery, replay or death of the process takes
\* nothing back, so that nobody who was told, or given up, is pending again.
SettledStays == [][\A key \in Key : Settled(key) => Settled(key)']_vars
=============================================================================
