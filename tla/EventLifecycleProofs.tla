------------------------ MODULE EventLifecycleProofs ------------------------
(***************************************************************************)
(* What TLAPS proves of EventLifecycle, for any number of requests and     *)
(* sweeps, any clock and any number of crashes.                            *)
(***************************************************************************)
EXTENDS EventLifecycle, TLAPS

Everyone == Requests \cup Sweeps

\* Who is who: the kinds of requests and the sweeps are apart.
LEMMA Sorts ==
    /\ \A w \in Sweeps : w \in Everyone /\ w \notin Requests /\ w \notin Publishes
    /\ \A h \in Publishes : h \in Everyone /\ h \in Requests /\ h \notin Sweeps
    /\ \A h \in Publishes : h \notin Edits \cup Removals \cup Deletes /\ h \notin Cancellations
    /\ \A h \in Requests : h \in Everyone /\ h \notin Sweeps
    /\ Patches \cup Uploads \cup Removals \cup Deletes \cup Cancellations \subseteq Requests
    /\ Patches \cup Uploads = Edits
BY HandlersAssumption DEF Everyone, Requests, Edits

-----------------------------------------------------------------------------
(***************************************************************************)
(* Types                                                                   *)
(***************************************************************************)
LEMMA InitType == Init => TypeOK
BY BoundsAssumption DEF Init, TypeOK, Event, Statuses, PCs, Immediate, NotAsked

LEMMA WriteType ==
    ASSUME TypeOK, NEW h \in Requests, NEW row \in Event, NEW next \in PCs, Write(h, row, next)
    PROVE  TypeOK'
BY Sorts DEF TypeOK, Write, PCs, Everyone

LEMMA RowTypes ==
    ASSUME TypeOK, NEW h \in Edits
    PROVE  /\ \A cover \in BOOLEAN : [event EXCEPT !.cover = cover, !.edits = @ \cup {h}] \in Event
           /\ [event EXCEPT !.cover = TRUE, !.edits = @ \cup {h}] \in Event
BY DEF TypeOK, Event

LEMMA StatusTypes ==
    ASSUME TypeOK
    PROVE  /\ [event EXCEPT !.cover = FALSE] \in Event
           /\ [event EXCEPT !.deleted = TRUE] \in Event
           /\ [event EXCEPT !.status = "PUBLISHED", !.scheduled = Immediate] \in Event
           /\ [event EXCEPT !.status = "CANCELLED", !.scheduled = Immediate] \in Event
           /\ \A at \in Times : [event EXCEPT !.scheduled = at] \in Event
BY DEF TypeOK, Event, Statuses, Immediate

\* when says what a publish request that was accepted has asked for.
Asked ==
    \A h \in Publishes :
        /\ pc[h] = "idle" => when[h] = NotAsked
        /\ Running(h) => when[h] # NotAsked

LEMMA NextType == TypeOK /\ Asked /\ [Next]_vars => TypeOK'
<1> SUFFICES ASSUME TypeOK, Asked, [Next]_vars PROVE TypeOK'
    OBVIOUS
<1>1. ASSUME NEW h \in Requests, NEW accepted, Read(h, accepted), UNCHANGED when PROVE TypeOK'
    BY <1>1, Sorts DEF TypeOK, Read, Goto, PCs, Everyone
<1>2. ASSUME NEW h \in Publishes, PublishRead(h) PROVE TypeOK'
    <2>1. when' \in [Publishes -> Times \cup {Immediate, NotAsked}]
        BY <1>2 DEF TypeOK, PublishRead
    <2>2. QED
        BY <1>2, <2>1, Sorts DEF TypeOK, PublishRead, Read, Goto, PCs, Everyone
<1>3. ASSUME NEW h \in Requests, Arrive(h) PROVE TypeOK'
    BY <1>1, <1>2, <1>3
    DEF Arrive, PatchRead, UploadRead, RemovalRead, DeleteRead, CancelRead
<1>4. ASSUME NEW h \in Requests, RequestStep(h) PROVE TypeOK'
    <2>1. CASE h \in Patches /\ PatchWrite(h)
        BY <2>1, WriteType, RowTypes DEF PatchWrite, PCs, Edits
    <2>2. CASE h \in Publishes /\ PublishWrite(h)
        BY <2>2, WriteType, StatusTypes DEF PublishWrite, PCs
    <2>3. CASE h \in Publishes /\ ScheduleWrite(h)
        <3>1. CASE event.deleted
            BY <2>3, <3>1, Sorts DEF ScheduleWrite, Write, TypeOK, PCs, Everyone
        <3>2. CASE ~event.deleted
            <4>1. pc[h] = "write" /\ when[h] # Immediate
                BY <2>3 DEF ScheduleWrite, Write
            <4>2. when[h] \in Times
                BY <2>3, <4>1 DEF TypeOK, Asked, Running
            <4>3. QED
                BY <2>3, <4>2, WriteType, StatusTypes DEF ScheduleWrite, PCs
        <3>3. QED
            BY <3>1, <3>2
    <2>4. CASE h \in Cancellations /\ CancelWrite(h)
        BY <2>4, WriteType, StatusTypes DEF CancelWrite, PCs
    <2>5. CASE (h \in Uploads /\ UploadWrite(h)) \/ (h \in Removals /\ RemovalWrite(h))
        <3>1. event' \in Event
            BY <2>5, RowTypes, StatusTypes, Sorts DEF UploadWrite, RemovalWrite, TypeOK
        <3>2. pc' \in [Requests \cup Sweeps -> PCs]
            BY <2>5, Sorts DEF UploadWrite, RemovalWrite, Goto, TypeOK, PCs, Everyone
        <3>3. QED
            BY <2>5, <3>1, <3>2 DEF UploadWrite, RemovalWrite, TypeOK
    <2>6. CASE h \in Deletes /\ DeleteWrite(h)
        BY <2>6, StatusTypes, Sorts DEF DeleteWrite, Goto, TypeOK, PCs, Everyone
    <2>7. CASE EmitNotification(h)
        BY <2>7, Sorts DEF EmitNotification, Goto, TypeOK, PCs, Everyone
    <2>8. QED
        BY <1>4, <2>1, <2>2, <2>3, <2>4, <2>5, <2>6, <2>7 DEF RequestStep
<1>5. ASSUME NEW w \in Sweeps, SweepStep(w) PROVE TypeOK'
    BY <1>5, StatusTypes, Sorts
    DEF SweepStep, SweepSelect, SweepUpdate, SweepFails, Goto, TypeOK, PCs, Everyone
<1>6. CASE Tick
    BY <1>6, BoundsAssumption DEF Tick, TypeOK
<1>7. CASE Crash
    BY <1>7, Sorts, BoundsAssumption DEF Crash, TypeOK, PCs, Everyone
<1>8. CASE UNCHANGED vars
    BY <1>8 DEF vars, TypeOK
<1>9. QED
    BY <1>3, <1>4, <1>5, <1>6, <1>7, <1>8 DEF Next

\* What a step does to a publish request.
LEMMA PublishMoves ==
    ASSUME TypeOK, Asked, [Next]_vars, NEW h \in Publishes
    PROVE  \/ PublishRead(h)
           \/ /\ when'[h] = when[h]
              /\ pc'[h] = "idle" <=> pc[h] = "idle"
              /\ Running(h)' => Running(h)
              /\ pc'[h] = "write" => pc[h] = "write"
<1> DEFINE Still == /\ when'[h] = when[h]
                    /\ pc'[h] = "idle" <=> pc[h] = "idle"
                    /\ Running(h)' => Running(h)
                    /\ pc'[h] = "write" => pc[h] = "write"
<1>1. ASSUME NEW g \in Requests, RequestStep(g) PROVE Still
    <2>1. when' = when
        BY <1>1
        DEF RequestStep, PatchWrite, UploadWrite, RemovalWrite, DeleteWrite, PublishWrite,
            ScheduleWrite, CancelWrite, EmitNotification, Write
    <2>2. CASE g = h
        BY <1>1, <2>1, <2>2, Sorts
        DEF RequestStep, PatchWrite, UploadWrite, RemovalWrite, DeleteWrite, PublishWrite,
            ScheduleWrite, CancelWrite, EmitNotification, Write, Goto, TypeOK, Running, Everyone
    <2>3. CASE g # h
        BY <1>1, <2>1, <2>3, Sorts
        DEF RequestStep, PatchWrite, UploadWrite, RemovalWrite, DeleteWrite, PublishWrite,
            ScheduleWrite, CancelWrite, EmitNotification, Write, Goto, TypeOK, Running, Everyone
    <2>4. QED
        BY <2>2, <2>3
<1>2. ASSUME NEW g \in Requests, g # h, Arrive(g) PROVE Still
    BY <1>2, Sorts
    DEF Arrive, PatchRead, UploadRead, RemovalRead, DeleteRead, CancelRead, PublishRead, Read,
        Goto, TypeOK, Running, Everyone
<1>3. ASSUME Arrive(h) PROVE PublishRead(h)
    <2>1. h \notin Patches \cup Uploads \cup Removals \cup Deletes \cup Cancellations
        BY Sorts
    <2>2. QED
        BY <1>3, <2>1 DEF Arrive
<1>4. ASSUME NEW w \in Sweeps, SweepStep(w) PROVE Still
    BY <1>4, Sorts
    DEF SweepStep, SweepSelect, SweepUpdate, SweepFails, Goto, TypeOK, Running, Everyone
<1>5. CASE Tick \/ Crash \/ UNCHANGED vars
    BY <1>5, Sorts DEF Tick, Crash, vars, Running, Everyone
<1>6. QED
    BY <1>1, <1>2, <1>3, <1>4, <1>5 DEF Next

LEMMA NextAsked == TypeOK /\ Asked /\ [Next]_vars => Asked'
<1> SUFFICES ASSUME TypeOK, Asked, [Next]_vars, NEW h \in Publishes
             PROVE  /\ pc'[h] = "idle" => when'[h] = NotAsked
                    /\ Running(h)' => when'[h] # NotAsked
    BY DEF Asked, Running
<1>1. CASE PublishRead(h)
    <2>1. pc'[h] = IF CanPublish THEN "write" ELSE "done"
        BY <1>1, Sorts DEF PublishRead, Read, Goto, TypeOK, Everyone
    <2>2. CanPublish => when'[h] # NotAsked
        BY <1>1, BoundsAssumption DEF PublishRead, TypeOK, Times, Immediate, NotAsked
    <2>3. QED
        BY <2>1, <2>2 DEF Running
<1>2. CASE ~PublishRead(h)
    BY <1>2, PublishMoves DEF Asked
<1>3. QED
    BY <1>1, <1>2

LEMMA InitAsked == Init => Asked
BY Sorts DEF Init, Asked, Running, Everyone

\* The variables keep their types.
THEOREM TypeCorrect == Spec => []TypeOK
BY InitType, InitAsked, NextType, NextAsked, PTL DEF Spec

-----------------------------------------------------------------------------
(***************************************************************************)
(* Nothing is published before its time                                    *)
(***************************************************************************)
Summoned == \E h \in Publishes : when[h] <= now

EarlyInv ==
    /\ TypeOK
    /\ Asked
    /\ event.scheduled # Immediate => \E h \in Publishes : when[h] = event.scheduled
    /\ event.status = "PUBLISHED" \/ (\E w \in Sweeps : pc[w] = "write") => Summoned

\* What was asked for stays asked for, and time does not go back.
LEMMA AskedStays ==
    ASSUME TypeOK, Asked, [Next]_vars, NEW h \in Publishes, when[h] # NotAsked
    PROVE  when'[h] = when[h]
BY PublishMoves, Sorts DEF Asked, PublishRead, Read, Goto

LEMMA TimeGoesOn == TypeOK /\ [Next]_vars => now' \in Nat /\ now <= now'
<1> SUFFICES ASSUME TypeOK, [Next]_vars PROVE now' \in Nat /\ now <= now'
    OBVIOUS
<1>1. now \in Nat
    BY BoundsAssumption DEF TypeOK
<1>2. now' = now \/ Tick
    BY DEF Next, vars, Arrive, PatchRead, UploadRead, RemovalRead, DeleteRead, CancelRead,
        PublishRead, Read, RequestStep, PatchWrite, UploadWrite, RemovalWrite, DeleteWrite,
        PublishWrite, ScheduleWrite, CancelWrite, EmitNotification, Write, SweepStep,
        SweepSelect, SweepUpdate, SweepFails, Crash
<1>3. QED
    BY <1>1, <1>2 DEF Tick

\* What a step does to the schedule and to the status of the row.
LEMMA RowMoves ==
    ASSUME TypeOK, [Next]_vars
    PROVE  /\ \/ event'.scheduled \in {event.scheduled, Immediate}
              \/ \E h \in Publishes : pc[h] = "write" /\ event'.scheduled = when[h]
           /\ event'.status = "PUBLISHED" =>
                 \/ event.status = "PUBLISHED"
                 \/ \E h \in Publishes : pc[h] = "write" /\ when[h] = Immediate
                 \/ \E w \in Sweeps : pc[w] = "write"
<1>1. CASE UNCHANGED event
    BY <1>1
<1>2. ASSUME NEW h \in Requests, RequestStep(h), ~UNCHANGED event
      PROVE  /\ \/ event'.scheduled \in {event.scheduled, Immediate}
                \/ h \in Publishes /\ pc[h] = "write" /\ event'.scheduled = when[h]
             /\ event'.status = "PUBLISHED" =>
                   \/ event.status = "PUBLISHED"
                   \/ h \in Publishes /\ pc[h] = "write" /\ when[h] = Immediate
    <2>1. CASE PatchWrite(h) \/ UploadWrite(h) \/ RemovalWrite(h) \/ DeleteWrite(h)
        BY <1>2, <2>1
        DEF PatchWrite, UploadWrite, RemovalWrite, DeleteWrite, Write, TypeOK, Event
    <2>2. CASE h \in Publishes /\ PublishWrite(h)
        BY <1>2, <2>2 DEF PublishWrite, Write, TypeOK, Event
    <2>3. CASE h \in Publishes /\ ScheduleWrite(h)
        BY <1>2, <2>3 DEF ScheduleWrite, Write, TypeOK, Event
    <2>4. CASE CancelWrite(h)
        BY <1>2, <2>4 DEF CancelWrite, Write, TypeOK, Event
    <2>5. QED
        BY <1>2, <2>1, <2>2, <2>3, <2>4 DEF RequestStep, EmitNotification
<1>3. ASSUME NEW w \in Sweeps, SweepUpdate(w)
      PROVE  pc[w] = "write" /\ event'.scheduled = Immediate
    BY <1>3 DEF SweepUpdate, Goto, TypeOK, Event
<1>4. QED
    BY <1>1, <1>2, <1>3
    DEF Next, vars, Arrive, PatchRead, UploadRead, RemovalRead, DeleteRead, CancelRead,
        PublishRead, Read, SweepStep, SweepSelect, SweepFails, Tick, Crash

\* A sweep is about to publish only what is due.
LEMMA SweepMoves ==
    ASSUME TypeOK, [Next]_vars, NEW w \in Sweeps, pc'[w] = "write", pc[w] # "write"
    PROVE  Due /\ SweepSelect(w)
<1>1. ASSUME NEW h \in Requests, Arrive(h) \/ RequestStep(h) PROVE pc'[w] # "write"
    <2>1. ASSUME NEW row, NEW next \in {"done", "notify"}, Write(h, row, next)
          PROVE  pc'[w] # "write"
        BY <2>1, Sorts DEF Write, TypeOK, Running, Everyone
    <2>2. CASE Arrive(h)
        BY <2>2, Sorts
        DEF Arrive, PatchRead, UploadRead, RemovalRead, DeleteRead, CancelRead, PublishRead,
            Read, Goto, TypeOK, Everyone
    <2>3. CASE PatchWrite(h) \/ PublishWrite(h) \/ ScheduleWrite(h) \/ CancelWrite(h)
        BY <2>1, <2>3 DEF PatchWrite, PublishWrite, ScheduleWrite, CancelWrite
    <2>4. CASE UploadWrite(h) \/ RemovalWrite(h) \/ DeleteWrite(h) \/ EmitNotification(h)
        BY <2>4, Sorts
        DEF UploadWrite, RemovalWrite, DeleteWrite, EmitNotification, Goto, TypeOK, Everyone
    <2>5. QED
        BY <1>1, <2>2, <2>3, <2>4 DEF RequestStep
<1>2. ASSUME NEW v \in Sweeps, SweepStep(v) PROVE Due /\ SweepSelect(w)
    BY <1>2, Sorts
    DEF SweepStep, SweepSelect, SweepUpdate, SweepFails, Goto, TypeOK, Everyone
<1>3. QED
    BY <1>1, <1>2 DEF Next, vars, Tick, Crash, Running

LEMMA NextEarly == EarlyInv /\ [Next]_vars => EarlyInv'
<1> SUFFICES ASSUME EarlyInv, [Next]_vars PROVE EarlyInv'
    OBVIOUS
<1>1. TypeOK /\ Asked
    BY DEF EarlyInv
<1>2. TypeOK' /\ Asked'
    BY <1>1, NextType, NextAsked
<1>3. now \in 0 .. MaxTime /\ event.scheduled \in Times \cup {Immediate}
    BY <1>1 DEF TypeOK, Event
<1>4. Summoned => Summoned'
    <2>1. ASSUME NEW h \in Publishes, when[h] <= now PROVE when'[h] <= now'
        <3>1. when[h] # NotAsked
            BY <1>3, <2>1, BoundsAssumption DEF NotAsked
        <3>2. when'[h] = when[h] /\ when[h] \in Nat
            BY <1>1, <3>1, AskedStays, BoundsAssumption DEF TypeOK, Times, Immediate, NotAsked
        <3>3. QED
            BY <1>1, <1>3, <2>1, <3>2, TimeGoesOn
    <2>2. QED
        BY <2>1 DEF Summoned
<1>5. event'.scheduled # Immediate => \E h \in Publishes : when'[h] = event'.scheduled
    <2>1. ASSUME event'.scheduled # Immediate
          PROVE  \E h \in Publishes : when[h] = event'.scheduled /\ when[h] # NotAsked
        <3>1. CASE event'.scheduled = event.scheduled
            BY <1>3, <2>1, <3>1, BoundsAssumption DEF EarlyInv, NotAsked, Times
        <3>2. CASE \E h \in Publishes : pc[h] = "write" /\ event'.scheduled = when[h]
            BY <1>1, <3>2 DEF Asked, Running
        <3>3. QED
            BY <1>1, <2>1, <3>1, <3>2, RowMoves
    <2>2. QED
        BY <1>1, <2>1, AskedStays
<1>6. Due => Summoned
    BY <1>3 DEF Due, EarlyInv, Summoned
<1>7. event'.status = "PUBLISHED" => Summoned
    <2>1. ASSUME NEW h \in Publishes, when[h] = Immediate PROVE Summoned
        BY <1>3, <2>1 DEF Summoned, Immediate
    <2>2. QED
        BY <1>1, <2>1, RowMoves DEF EarlyInv
<1>8. (\E w \in Sweeps : pc'[w] = "write") => Summoned
    BY <1>1, <1>6, SweepMoves DEF EarlyInv
<1>9. QED
    BY <1>2, <1>4, <1>5, <1>7, <1>8 DEF EarlyInv

\* An event is public only after somebody has asked for it, for a time that has come.
THEOREM NeverEarly == Spec => []NeverPublishedEarly
<1>1. Init => EarlyInv
    <2>1. Init => event.scheduled = Immediate /\ event.status = "DRAFT"
        BY DEF Init
    <2>2. Init => \A w \in Sweeps : pc[w] = "idle"
        BY DEF Init
    <2>3. QED
        BY <2>1, <2>2, InitType, InitAsked DEF EarlyInv
<1>2. EarlyInv => NeverPublishedEarly
    BY DEF EarlyInv, Summoned, NeverPublishedEarly
<1>3. QED
    BY <1>1, <1>2, NextEarly, PTL DEF Spec

-----------------------------------------------------------------------------
(***************************************************************************)
(* A cancellation is final                                                 *)
(***************************************************************************)

\* Once the publications in progress are through, nothing publishes the event again.
THEOREM CancellationFinal == Spec => CancellationSticks
<1>1. ASSUME TypeOK, Asked, [Next]_vars, event.status = "CANCELLED", NobodyPublishes
      PROVE  event'.status = "CANCELLED" /\ NobodyPublishes'
    <2>1. ASSUME NEW h \in Publishes PROVE pc'[h] # "write"
        <3>1. PublishRead(h) => pc'[h] # "write"
            BY <1>1, Sorts
            DEF PublishRead, Read, Goto, CanPublish, IsDraft, TypeOK, Everyone
        <3>2. QED
            BY <1>1, <3>1, PublishMoves DEF NobodyPublishes
    <2>2. ASSUME NEW w \in Sweeps PROVE pc'[w] # "write"
        BY <1>1, SweepMoves DEF NobodyPublishes, Due, IsDraft
    <2>3. event'.status # "PUBLISHED"
        BY <1>1, RowMoves DEF NobodyPublishes
    <2>4. event'.status = "PUBLISHED" \/ event'.status \in {event.status, "CANCELLED"}
        BY <1>1
        DEF Next, vars, Arrive, PatchRead, UploadRead, RemovalRead, DeleteRead, CancelRead,
            PublishRead, Read, RequestStep, PatchWrite, UploadWrite, RemovalWrite, DeleteWrite,
            PublishWrite, ScheduleWrite, CancelWrite, EmitNotification, Write, SweepStep,
            SweepSelect, SweepUpdate, SweepFails, Tick, Crash, TypeOK, Event
    <2>5. QED
        BY <1>1, <2>1, <2>2, <2>3, <2>4 DEF NobodyPublishes
<1>2. QED
    BY <1>1, InitType, InitAsked, NextType, NextAsked, PTL DEF Spec, CancellationSticks

-----------------------------------------------------------------------------
(***************************************************************************)
(* The content is fixed                                                    *)
(***************************************************************************)
\* A step that writes to the content is the UPDATE of an edit, and an edit comes to its
\* UPDATE only while the event is a draft.
LEMMA EditMoves ==
    ASSUME TypeOK, [Next]_vars, event.status # "DRAFT", \A h \in Edits : pc[h] # "write"
    PROVE  event'.edits = event.edits /\ \A h \in Edits : pc'[h] # "write"
<1>1. \A e \in Edits : e \in Everyone /\ e \in Requests
    BY Sorts
<1>2. ASSUME NEW h \in Requests, Arrive(h)
      PROVE  event'.edits = event.edits /\ \A e \in Edits : pc'[e] # "write"
    <2>1. CASE (h \in Patches /\ PatchRead(h)) \/ (h \in Uploads /\ UploadRead(h))
        BY <1>1, <2>1 DEF PatchRead, UploadRead, Read, Goto, IsDraft, TypeOK, Everyone
    <2>2. CASE \/ h \in Removals /\ RemovalRead(h)
               \/ h \in Deletes /\ DeleteRead(h)
               \/ h \in Publishes /\ PublishRead(h)
               \/ h \in Cancellations /\ CancelRead(h)
        <3>1. h \notin Edits
            BY <2>2, HandlersAssumption
        <3>2. QED
            BY <1>1, <2>2, <3>1
            DEF RemovalRead, DeleteRead, PublishRead, CancelRead, Read, Goto, TypeOK, Everyone
    <2>3. QED
        BY <1>2, <2>1, <2>2 DEF Arrive
<1>3. ASSUME NEW h \in Requests, RequestStep(h)
      PROVE  event'.edits = event.edits /\ \A e \in Edits : pc'[e] # "write"
    <2>1. ~ (h \in Patches /\ PatchWrite(h)) /\ ~ (h \in Uploads /\ UploadWrite(h))
        BY Sorts DEF PatchWrite, UploadWrite, Write, Goto
    <2>2. ASSUME NEW row, row.edits = event.edits, NEW next \in {"done", "notify"},
                 Write(h, row, next)
          PROVE  event'.edits = event.edits /\ \A e \in Edits : pc'[e] # "write"
        BY <1>1, <2>2 DEF Write, Running, TypeOK, Everyone
    <2>3. CASE PublishWrite(h) \/ ScheduleWrite(h) \/ CancelWrite(h)
        <3>1. /\ [event EXCEPT !.status = "PUBLISHED", !.scheduled = Immediate].edits = event.edits
              /\ [event EXCEPT !.scheduled = when[h]].edits = event.edits
              /\ [event EXCEPT !.status = "CANCELLED", !.scheduled = Immediate].edits = event.edits
            BY DEF TypeOK, Event
        <3>2. QED
            BY <2>2, <2>3, <3>1 DEF PublishWrite, ScheduleWrite, CancelWrite
    <2>4. CASE RemovalWrite(h) \/ DeleteWrite(h) \/ EmitNotification(h)
        BY <1>1, <2>4
        DEF RemovalWrite, DeleteWrite, EmitNotification, Goto, TypeOK, Event, Everyone
    <2>5. QED
        BY <1>3, <2>1, <2>3, <2>4 DEF RequestStep
<1>4. ASSUME NEW w \in Sweeps, SweepStep(w)
      PROVE  event'.edits = event.edits /\ \A e \in Edits : pc'[e] # "write"
    BY <1>1, <1>4, Sorts
    DEF SweepStep, SweepSelect, SweepUpdate, SweepFails, Goto, TypeOK, Event, Everyone
<1>5. CASE Tick \/ Crash \/ UNCHANGED vars
    BY <1>1, <1>5 DEF Tick, Crash, vars, Running, TypeOK, Everyone
<1>6. QED
    BY <1>2, <1>3, <1>4, <1>5 DEF Next

\* The content of an event that is no draft is fixed once the edits in progress are through.
THEOREM ContentIsFixed == Spec => FrozenAfterDraft
BY EditMoves, InitType, InitAsked, NextType, NextAsked, PTL DEF Spec, FrozenAfterDraft
=============================================================================
