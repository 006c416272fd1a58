--------------------------- MODULE EventLifecycle ---------------------------
(***************************************************************************)
(* The event management service, for one event: editing and deleting the   *)
(* draft, its cover image, publishing it now or at a scheduled time,       *)
(* cancelling it, and the sweep that publishes the drafts that are due.    *)
(*                                                                         *)
(* Every handler reads the row with findById, checks its status in         *)
(* JavaScript and then runs one UPDATE that asks only that the row is not  *)
(* deleted.  An action is what happens from one await to the next.         *)
(***************************************************************************)
EXTENDS Integers, FiniteSets

CONSTANTS
    Patches,        \* the PATCH /events/drafts/:eventId requests
    Deletes,        \* the DELETE /events/drafts/:eventId requests
    Uploads,        \* the POST /events/drafts/:eventId/media requests
    Removals,       \* the DELETE /events/drafts/:eventId/media requests
    Publishes,      \* the POST /events/drafts/:eventId/publish requests
    Cancellations,  \* the POST /events/:eventId/cancel requests
    Sweeps,         \* the sweeps that can overlap: the timer does not wait for the last one
    MaxTime,        \* bound: the clock
    MaxInFlight,    \* bound: requests in flight at a time
    MaxCrashes      \* bound: crashes of the service process

Edits == Patches \cup Uploads

Requests == Edits \cup Removals \cup Deletes \cup Publishes \cup Cancellations

ASSUME HandlersAssumption ==
    /\ IsFiniteSet(Requests)
    /\ Edits \cap (Removals \cup Deletes \cup Publishes \cup Cancellations) = {}
    /\ Patches \cap Uploads = {}
    /\ Removals \cap (Deletes \cup Publishes \cup Cancellations) = {}
    /\ Deletes \cap (Publishes \cup Cancellations) = {}
    /\ Publishes \cap Cancellations = {}
    /\ Sweeps \cap Requests = {}

ASSUME BoundsAssumption ==
    /\ MaxTime \in Nat
    /\ MaxInFlight \in Nat \ {0}
    /\ MaxCrashes \in Nat

VARIABLES
    event,          \* the row of the events table
    now,            \* the clock
    crashes,        \* crashes so far, not counting those the handlers cause
    pc,             \* where each handler and each sweep is
    when            \* scheduledAt of a publish request that was accepted

vars == <<event, now, crashes, pc, when>>

Statuses == {"DRAFT", "PUBLISHED", "CANCELLED"}

Immediate == 0      \* publishMode IMMEDIATE, and scheduled_publish_at NULL

Times == 1 .. MaxTime

\* The request was not accepted, or not sent yet.
NotAsked == MaxTime + 1

\* cover says that there is a cover image; edits stands for the rest of the content, as
\* the set of the requests that have written it.
Event == [status : Statuses, scheduled : Times \cup {Immediate}, deleted : BOOLEAN,
          cover : BOOLEAN, edits : SUBSET Edits]

\* done: answered, or gone with the process
PCs == {"idle", "write", "notify", "done"}

TypeOK ==
    /\ event \in Event
    /\ now \in 0 .. MaxTime
    /\ crashes \in 0 .. MaxCrashes
    /\ pc \in [Requests \cup Sweeps -> PCs]
    /\ when \in [Publishes -> Times \cup {Immediate, NotAsked}]

\* createDraft has inserted the row, with a cover image or without.
Init ==
    /\ \E cover \in BOOLEAN :
          event = [status |-> "DRAFT", scheduled |-> Immediate, deleted |-> FALSE,
                   cover |-> cover, edits |-> {}]
    /\ now = 0
    /\ crashes = 0
    /\ pc = [h \in Requests \cup Sweeps |-> "idle"]
    /\ when = [h \in Publishes |-> NotAsked]

-----------------------------------------------------------------------------
Running(h) == pc[h] \in {"write", "notify"}

InFlight == {h \in Requests : Running(h)}

Admitted == Cardinality(InFlight) < MaxInFlight

Goto(h, from, to) ==
    /\ pc[h] = from
    /\ pc' = [pc EXCEPT ![h] = to]

IsDraft == ~event.deleted /\ event.status = "DRAFT"

\* The read of a handler: it goes on to its UPDATE if the row is as it must be, and
\* answers 404, 409 or 422 otherwise.
Read(h, accepted) ==
    /\ Admitted
    /\ Goto(h, "idle", IF accepted THEN "write" ELSE "done")
    /\ UNCHANGED <<event, now, crashes>>

\* The UPDATE of a handler that cannot do without the row it returns.  When the event
\* was deleted after the read, no row is returned and the handler throws; nobody
\* catches that, and the process dies with every handler it is running.
Write(h, row, next) ==
    /\ pc[h] = "write"
    /\ IF event.deleted
       THEN /\ pc' = [g \in Requests \cup Sweeps |->
                        IF ~Running(g) THEN pc[g] ELSE IF g \in Sweeps THEN "idle" ELSE "done"]
            /\ UNCHANGED event
       ELSE /\ pc' = [pc EXCEPT ![h] = next]
            /\ event' = row
    /\ UNCHANGED <<now, crashes, when>>

-----------------------------------------------------------------------------
(***************************************************************************)
(* The draft                                                               *)
(***************************************************************************)
\* Mutant: the status check is forgotten.
PatchReadAny(h) == Read(h, ~event.deleted) /\ UNCHANGED when

PatchRead(h) == Read(h, IsDraft) /\ UNCHANGED when

\* coverImageRef is one of the fields that can be edited.
PatchWrite(h) ==
    \E cover \in BOOLEAN :
        Write(h, [event EXCEPT !.cover = cover, !.edits = @ \cup {h}], "done")

UploadRead(h) == Read(h, IsDraft) /\ UNCHANGED when

\* The image is on disk, or could not be stored (500); updateCoverImage is not asked
\* for the row.
UploadWrite(h) ==
    /\ Goto(h, "write", "done")
    /\ \/ /\ ~event.deleted
          /\ event' = [event EXCEPT !.cover = TRUE, !.edits = @ \cup {h}]
       \/ UNCHANGED event
    /\ UNCHANGED <<now, crashes, when>>

\* This handler asks for an image, not for a draft.
RemovalRead(h) == Read(h, ~event.deleted /\ event.cover) /\ UNCHANGED when

RemovalWrite(h) ==
    /\ Goto(h, "write", "done")
    /\ event' = IF event.deleted THEN event
                ELSE [event EXCEPT !.cover = FALSE]
    /\ UNCHANGED <<now, crashes, when>>

DeleteRead(h) == Read(h, IsDraft) /\ UNCHANGED when

DeleteWrite(h) ==
    /\ Goto(h, "write", "done")
    /\ event' = [event EXCEPT !.deleted = TRUE]
    /\ UNCHANGED <<now, crashes, when>>

-----------------------------------------------------------------------------
(***************************************************************************)
(* Publication and cancellation                                            *)
(***************************************************************************)

\* Mutant: whatever is not public yet can be published.
CanPublishUnpublished == ~event.deleted /\ event.status # "PUBLISHED"

CanPublish == IsDraft

\* The check of the status and of the payload: a schedule lies in the future.
PublishRead(h) ==
    /\ Read(h, CanPublish)
    /\ IF CanPublish
       THEN \E at \in {Immediate} \cup {t \in Times : t > now} : when' = [when EXCEPT ![h] = at]
       ELSE UNCHANGED when

\* publishDraft
PublishWrite(h) ==
    /\ when[h] = Immediate
    /\ Write(h, [event EXCEPT !.status = "PUBLISHED", !.scheduled = Immediate], "notify")

\* scheduleDraft: the event stays a draft, if it still is one.
ScheduleWrite(h) ==
    /\ when[h] # Immediate
    /\ Write(h, [event EXCEPT !.scheduled = when[h]], "done")

CancelRead(h) == Read(h, ~event.deleted /\ event.status # "CANCELLED") /\ UNCHANGED when

CancelWrite(h) ==
    Write(h, [event EXCEPT !.status = "CANCELLED", !.scheduled = Immediate], "notify")

\* emitNotification, a call to the registration service: its failure is logged, its
\* answer is not looked at.
EmitNotification(h) ==
    /\ Goto(h, "notify", "done")
    /\ UNCHANGED <<event, now, crashes, when>>

RequestStep(h) ==
    \/ h \in Patches /\ PatchWrite(h)
    \/ h \in Uploads /\ UploadWrite(h)
    \/ h \in Removals /\ RemovalWrite(h)
    \/ h \in Deletes /\ DeleteWrite(h)
    \/ h \in Publishes /\ (PublishWrite(h) \/ ScheduleWrite(h))
    \/ h \in Cancellations /\ CancelWrite(h)
    \/ EmitNotification(h)

Arrive(h) ==
    \/ h \in Patches /\ PatchRead(h)
    \/ h \in Uploads /\ UploadRead(h)
    \/ h \in Removals /\ RemovalRead(h)
    \/ h \in Deletes /\ DeleteRead(h)
    \/ h \in Publishes /\ PublishRead(h)
    \/ h \in Cancellations /\ CancelRead(h)

-----------------------------------------------------------------------------
(***************************************************************************)
(* The sweep                                                               *)
(***************************************************************************)

\* The WHERE clause of the `due' query.
Due == IsDraft /\ event.scheduled # Immediate /\ event.scheduled <= now

\* publishDueScheduledDrafts is one statement, but not one step: `due' is a snapshot.
\* If another transaction changes the row meanwhile, the UPDATE waits for it and
\* checks again only that the row is the one in `due'.
SweepSelect(w) ==
    /\ Due
    /\ Goto(w, "idle", "write")
    /\ UNCHANGED <<event, now, crashes, when>>

SweepUpdate(w) ==
    /\ Goto(w, "write", "idle")
    /\ event' = [event EXCEPT !.status = "PUBLISHED", !.scheduled = Immediate]
    /\ UNCHANGED <<now, crashes, when>>

\* Mutant: a sweep that fails is the last one.
SweepFailsForGood(w) ==
    /\ Goto(w, "write", "done")
    /\ UNCHANGED <<event, now, crashes, when>>

\* The statement fails: a warning, and the timer goes on.
SweepFails(w) ==
    /\ Goto(w, "write", "idle")
    /\ UNCHANGED <<event, now, crashes, when>>

SweepStep(w) == SweepSelect(w) \/ SweepUpdate(w) \/ SweepFails(w)

-----------------------------------------------------------------------------
Tick ==
    /\ now < MaxTime
    /\ now' = now + 1
    /\ UNCHANGED <<event, crashes, pc, when>>

\* The process is restarted, and boot starts the sweeps again.
Crash ==
    /\ crashes < MaxCrashes
    /\ \E h \in Requests \cup Sweeps : Running(h)
    /\ crashes' = crashes + 1
    /\ pc' = [h \in Requests \cup Sweeps |->
                IF ~Running(h) THEN pc[h] ELSE IF h \in Sweeps THEN "idle" ELSE "done"]
    /\ UNCHANGED <<event, now, when>>

Next ==
    \/ \E h \in Requests : Arrive(h) \/ RequestStep(h)
    \/ \E w \in Sweeps : SweepStep(w)
    \/ Tick
    \/ Crash

\* PostgreSQL answers every statement.  The timer of the sweep never stops, and not
\* every sweep fails.
Fairness ==
    /\ \A h \in Requests : WF_vars(RequestStep(h))
    /\ \A w \in Sweeps : WF_vars(SweepStep(w)) /\ SF_vars(SweepUpdate(w))

Spec == Init /\ [][Next]_vars /\ Fairness

-----------------------------------------------------------------------------
(***************************************************************************)
(* Properties                                                              *)
(***************************************************************************)

\* An event is public only if somebody has asked to publish it, at once or at a time
\* that has come: no schedule that was replaced or is still ahead publishes it.
NeverPublishedEarly ==
    event.status = "PUBLISHED" => \E h \in Publishes : when[h] <= now

\* Nothing that read the row as a draft is about to publish it.
NobodyPublishes ==
    /\ \A h \in Publishes : pc[h] # "write"
    /\ \A w \in Sweeps : pc[w] # "write"

\* A cancellation is final once the publications that were in progress are through:
\* no request and no sweep that starts later brings the event back.
CancellationSticks ==
    [][event.status = "CANCELLED" /\ NobodyPublishes
          => event'.status = "CANCELLED" /\ NobodyPublishes']_vars

\* The content of an event is fixed once it is no draft and the edits that were in
\* progress are through.  Only the removal of its image is still accepted.
FrozenAfterDraft ==
    [][event.status # "DRAFT" /\ (\A h \in Edits : pc[h] # "write")
          => event'.edits = event.edits /\ (\A h \in Edits : pc'[h] # "write")]_vars

\* A draft that is due is published in the end, unless it is deleted, cancelled,
\* published by hand or put off: also when sweeps fail or the service crashes.
DueIsPublished == Due ~> ~Due
=============================================================================
