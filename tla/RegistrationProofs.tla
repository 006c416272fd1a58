------------------------- MODULE RegistrationProofs -------------------------
(***************************************************************************)
(* Theorems about Registration, for every set of requests, every capacity  *)
(* and every number of crashes, about RegistrationRefinement (the          *)
(* handlers, served one after the other, implement RegistrationDesk), and  *)
(* about EventCancellation, which goes on in the same tables, for any      *)
(* number of attempts and losses.                                          *)
(***************************************************************************)
EXTENDS RegistrationRefinement, EventCancellation, FiniteSetTheorems, WellFoundedInduction, TLAPS

-----------------------------------------------------------------------------
(***************************************************************************)
(* Lemmas about the tables                                                 *)
(***************************************************************************)

\* The counts of a table are natural numbers.
LEMMA CountsAreNatural ==
    ASSUME NEW table, NEW status
    PROVE  /\ IsFiniteSet(RowsWith(table, status))
           /\ Cardinality(RowsWith(table, status)) \in Nat
<1>1. RowsWith(table, status) \in SUBSET Registers
    BY DEF RowsWith
<1>2. IsFiniteSet(RowsWith(table, status))
    BY <1>1, RegistersAssumption, FS_Subset
<1>3. QED
    BY <1>2, FS_CardinalityType

\* The statements keep a row a row.
LEMMA RowTypes ==
    /\ AbsentRow \in Row
    /\ \A row \in Row : CancelledRow(row) \in Row /\ PromotedRow(row) \in Row
    /\ \A status \in RowStatuses, position, stamp \in Nat : NewRow(status, position, stamp) \in Row
BY DEF AbsentRow, Row, RowStatuses, CancelledRow, PromotedRow, NewRow

\* What an insert is given.
LEMMA NewRowFields ==
    ASSUME NEW status, NEW position, NEW stamp
    PROVE  /\ NewRow(status, position, stamp).status = status
           /\ NewRow(status, position, stamp).ticketed <=> status = "CONFIRMED"
           /\ ~NewRow(status, position, stamp).promoted
BY Zenon DEF NewRow

\* Counting one more notification keeps the counters counters.
LEMMA CounterType ==
    ASSUME NEW S, NEW counters \in [S -> Nat], NEW x
    PROVE  [counters EXCEPT ![x] = @ + 1] \in [S -> Nat]
<1>1. \A y \in S : counters[y] \in Nat /\ counters[y] + 1 \in Nat
    OBVIOUS
<1>2. QED
    BY <1>1, Zenon

-----------------------------------------------------------------------------
(***************************************************************************)
(* Types                                                                   *)
(***************************************************************************)

LEMMA InitType == Init => TypeOK
BY BoundsAssumption, RowTypes
DEF Init, TypeOK, TicketStatuses, PCs

LEMMA RegisterType ==
    ASSUME TypeOK, NEW r \in Registers,
           RegisterStep(r) \/ \E served \in BOOLEAN : RegisterFetchEvent(r, served)
    PROVE  TypeOK'
<1> USE DEF TypeOK, Goto, tables, registerLocals, cancelLocals
<1>1. ASSUME NEW served \in BOOLEAN, RegisterFetchEvent(r, served) PROVE TypeOK'
    BY <1>1 DEF RegisterFetchEvent, PCs, RegisterPCs
<1>2. CASE RegisterFindActive(r)
    BY <1>2 DEF RegisterFindActive, PCs, RegisterPCs
<1>3. CASE RegisterCountConfirmed(r)
    BY <1>3, CountsAreNatural DEF RegisterCountConfirmed, CountConfirmed, PCs, RegisterPCs
<1>4. CASE RegisterCountWaitlisted(r)
    <2>1. PICK d \in ClockSteps : now' = now + d
        BY <1>4 DEF RegisterCountWaitlisted
    <2>2. now' \in Nat
        BY <2>1, BoundsAssumption
    <2>3. CountWaitlisted(rows) + 1 \in Nat
        BY CountsAreNatural DEF CountWaitlisted
    <2>4. draft' \in [Registers -> Row]
        <3>1. PICK status \in {"CONFIRMED", "WAITLISTED"} :
                 draft' = [draft EXCEPT ![r] = NewRow(status, CountWaitlisted(rows) + 1, now')]
            BY <1>4 DEF RegisterCountWaitlisted, Admission
        <3>2. NewRow(status, CountWaitlisted(rows) + 1, now') \in Row
            BY <2>2, <2>3, RowTypes DEF RowStatuses
        <3>3. QED
            BY <3>1, <3>2
    <2>5. QED
        BY <1>4, <2>2, <2>4 DEF RegisterCountWaitlisted, PCs, RegisterPCs
<1>5. CASE RegisterInsert(r)
    BY <1>5, RowTypes DEF RegisterInsert, AfterInsert, PCs, RegisterPCs, TicketStatuses
<1>6. CASE RegisterInsertFails(r)
    BY <1>6, RowTypes DEF RegisterInsertFails, PCs, RegisterPCs
<1>7. CASE RegisterNotify(r)
    <2>1. \A n : [notices EXCEPT ![n] = @ + 1] \in [Registers \X NoticeTypes -> Nat]
        BY CounterType, Zenon
    <2>2. notices' \in [Registers \X NoticeTypes -> Nat]
        BY <1>7, <2>1, ZenonT(60) DEF RegisterNotify, Notify
    <2>3. QED
        BY <1>7, <2>2 DEF RegisterNotify, PCs, RegisterPCs
<1>8. QED
    BY <1>1, <1>2, <1>3, <1>4, <1>5, <1>6, <1>7 DEF RegisterStep

LEMMA CancelType ==
    ASSUME TypeOK, NEW c \in Cancels, CancelFind(c) \/ CancelStep(c)
    PROVE  TypeOK'
<1> USE DEF TypeOK, Goto, tables, registerLocals, cancelLocals
<1>1. CASE CancelFind(c)
    BY <1>1 DEF CancelFind, PCs, CancelPCs
<1>2. CASE CancelRow(c)
    BY <1>2, RowTypes DEF CancelRow, AfterCancel, Forget, PCs, CancelPCs
<1>3. CASE CancelTicket(c)
    BY <1>3, RowTypes DEF CancelTicket, AfterCancel, Forget, TicketStatuses, PCs, CancelPCs
<1>4. CASE PromoteSelect(c)
    BY <1>4, RowTypes DEF PromoteSelect, FirstInLine, RowsWith, Forget, PCs, CancelPCs
<1>5. CASE PromoteCommit(c)
    BY <1>5, RowTypes DEF PromoteCommit, Forget, TicketStatuses, PCs, CancelPCs
<1>6. CASE PromoteNotify(c)
    <2>1. \A n : [notices EXCEPT ![n] = @ + 1] \in [Registers \X NoticeTypes -> Nat]
        BY CounterType, Zenon
    <2>2. notices' = notices \/ \E n : notices' = [notices EXCEPT ![n] = @ + 1]
        BY <1>6 DEF PromoteNotify, Notify
    <2>3. notices' \in [Registers \X NoticeTypes -> Nat]
        <3>1. CASE notices' = notices
            BY <3>1
        <3>2. CASE \E n : notices' = [notices EXCEPT ![n] = @ + 1]
            <4>1. PICK n : notices' = [notices EXCEPT ![n] = @ + 1]
                BY <3>2
            <4>2. [notices EXCEPT ![n] = @ + 1] \in [Registers \X NoticeTypes -> Nat]
                BY <2>1
            <4>3. QED
                BY <4>1, <4>2
        <3>3. QED
            BY <2>2, <3>1, <3>2
    <2>4. QED
        BY <1>6, <2>3 DEF PromoteNotify, PCs, CancelPCs
<1>7. QED
    BY <1>1, <1>2, <1>3, <1>4, <1>5, <1>6, CancelFind(c) \/ CancelStep(c) DEF CancelStep

LEMMA CrashType == TypeOK /\ Crash => TypeOK'
BY BoundsAssumption, RowTypes
DEF TypeOK, Crash, tables, PCs

LEMMA NextType == TypeOK /\ [Next]_vars => TypeOK'
<1> SUFFICES ASSUME TypeOK, [Next]_vars PROVE TypeOK'
    OBVIOUS
<1>1. CASE UNCHANGED vars
    BY <1>1 DEF vars, TypeOK
<1>2. CASE Next
    BY <1>2, RegisterType, CancelType, CrashType DEF Next
<1>3. QED
    BY <1>1, <1>2

\* The variables stay in their types.
THEOREM TypeCorrect == Spec => []TypeOK
BY InitType, NextType, PTL DEF Spec

-----------------------------------------------------------------------------
(***************************************************************************)
(* The tables in every interleaving                                        *)
(***************************************************************************)

BeforeInsert == {"idle", "findActive", "countConfirmed", "countWaitlisted", "insert"}

\* A request that has not inserted its row has left nothing in the tables, and what
\* it is about to insert is a fresh row.
DraftsFresh ==
    \A r \in Registers :
        /\ pc[r] \in BeforeInsert => rows[r] = AbsentRow /\ tickets[r] = "NONE"
        /\ pc[r] = "insert" =>
              /\ Active(draft[r])
              /\ draft[r].ticketed <=> draft[r].status = "CONFIRMED"
              /\ ~draft[r].promoted

\* A cancel handler works on a row that exists, and revokes the ticket of a row
\* that is cancelled.
TargetsExist ==
    \A c \in Cancels :
        /\ pc[c] \in {"cancelRow", "cancelTicket"} =>
              /\ target[c] \in Registers
              /\ rows[target[c]].status # "ABSENT"
        /\ pc[c] = "cancelTicket" =>
              /\ rows[target[c]].status = "CANCELLED"
              /\ rows[target[c]].ticketed

\* A promotion under way has locked a row, which is still waitlisted.
PicksWaiting ==
    \A c \in Cancels :
        pc[c] = "promoteNext" =>
            pick[c] \in Registers /\ rows[pick[c]].status = "WAITLISTED"

PicksDistinct ==
    \A c, d \in Cancels :
        c # d /\ pc[c] = "promoteNext" /\ pc[d] = "promoteNext" => pick[c] # pick[d]

ActiveUnique ==
    \A q, r \in Registers :
        Owner[q] = Owner[r] /\ Active(rows[q]) /\ Active(rows[r]) => q = r

TablesInv ==
    /\ TypeOK
    /\ DraftsFresh
    /\ TargetsExist
    /\ PicksWaiting
    /\ PicksDistinct
    /\ ActiveUnique
    /\ TicketsMatchRows

LEMMA InitTables == Init => TablesInv
BY InitType
DEF Init, TablesInv, DraftsFresh, TargetsExist, PicksWaiting, PicksDistinct, ActiveUnique,
    TicketsMatchRows, AbsentRow, Active, Requests

\* The steps of a register handler that leave the tables alone.
LEMMA RegisterQuiet ==
    ASSUME TablesInv, TypeOK', NEW r \in Registers,
           \/ \E served \in BOOLEAN : RegisterFetchEvent(r, served)
           \/ RegisterFindActive(r)
           \/ RegisterCountConfirmed(r)
           \/ RegisterInsertFails(r)
           \/ RegisterNotify(r)
    PROVE  TablesInv'
<1>1. /\ UNCHANGED <<rows, tickets, target, pick>>
      /\ \A h \in Requests \ {r} : pc'[h] = pc[h]
      /\ pc'[r] \in BeforeInsert \ {"insert"} => pc[r] \in BeforeInsert
      /\ pc'[r] # "insert"
      /\ \A q \in Registers \ {r} : draft'[q] = draft[q]
    BY DEF TablesInv, TypeOK, Requests, RegisterFetchEvent, RegisterFindActive,
        RegisterCountConfirmed, RegisterInsertFails, RegisterNotify, Goto, BeforeInsert,
        tables, registerLocals, cancelLocals
<1>2. \A c \in Cancels : c # r /\ c \in Requests /\ pc'[c] = pc[c]
    BY <1>1, CancelsAssumption DEF Requests
<1>3. DraftsFresh'
    BY <1>1 DEF TablesInv, DraftsFresh, Requests, BeforeInsert
<1>4. TargetsExist' /\ PicksWaiting' /\ PicksDistinct' /\ ActiveUnique' /\ TicketsMatchRows'
    BY <1>1, <1>2
    DEF TablesInv, TargetsExist, PicksWaiting, PicksDistinct, ActiveUnique, TicketsMatchRows
<1>5. QED
    BY <1>3, <1>4 DEF TablesInv

LEMMA RegisterCountWaitlistedTables ==
    ASSUME TablesInv, TypeOK', NEW r \in Registers, RegisterCountWaitlisted(r)
    PROVE  TablesInv'
<1>1. /\ UNCHANGED <<rows, tickets, target, pick>>
      /\ pc[r] = "countWaitlisted"
      /\ pc' = [pc EXCEPT ![r] = "insert"]
      /\ \A q \in Registers \ {r} : draft'[q] = draft[q]
    BY DEF TablesInv, TypeOK, RegisterCountWaitlisted, Goto, tables, cancelLocals
<1>2. \A c \in Cancels : pc'[c] = pc[c]
    BY <1>1, CancelsAssumption DEF Requests, TablesInv, TypeOK
<1>3. /\ Active(draft'[r])
      /\ draft'[r].ticketed <=> draft'[r].status = "CONFIRMED"
      /\ ~draft'[r].promoted
    <2>1. PICK status \in {"CONFIRMED", "WAITLISTED"} :
             draft' = [draft EXCEPT ![r] = NewRow(status, CountWaitlisted(rows) + 1, now')]
        BY DEF RegisterCountWaitlisted, Admission
    <2> DEFINE row == NewRow(status, CountWaitlisted(rows) + 1, now')
    <2>2. draft'[r] = row
        BY <2>1 DEF TablesInv, TypeOK
    <2>3. row.status = status /\ (row.ticketed <=> status = "CONFIRMED") /\ ~row.promoted
        BY NewRowFields
    <2> HIDE DEF row
    <2>4. Active(draft'[r])
        BY <2>1, <2>2, <2>3 DEF Active
    <2>5. QED
        BY <2>2, <2>3, <2>4, Zenon
<1>4. DraftsFresh'
    BY <1>1, <1>3 DEF TablesInv, DraftsFresh, Requests, BeforeInsert, TypeOK
<1>5. TargetsExist' /\ PicksWaiting' /\ PicksDistinct' /\ ActiveUnique' /\ TicketsMatchRows'
    BY <1>1, <1>2
    DEF TablesInv, TargetsExist, PicksWaiting, PicksDistinct, ActiveUnique, TicketsMatchRows
<1>6. QED
    BY <1>4, <1>5 DEF TablesInv

\* The unique index admits the row only when the participant has no active one.
LEMMA RegisterInsertTables ==
    ASSUME TablesInv, TypeOK', NEW r \in Registers, RegisterInsert(r)
    PROVE  TablesInv'
<1>1. /\ UNCHANGED <<target, pick>>
      /\ pc[r] = "insert"
      /\ pc'[r] \in {"done", "notify"}
      /\ \A q \in Registers \ {r} : draft'[q] = draft[q] /\ pc'[q] = pc[q]
      /\ \A c \in Cancels : pc'[c] = pc[c]
    BY CancelsAssumption DEF TablesInv, TypeOK, RegisterInsert, AfterInsert, Goto, cancelLocals, Requests
<1>2. rows[r] = AbsentRow /\ tickets[r] = "NONE"
    BY <1>1 DEF TablesInv, DraftsFresh, BeforeInsert
<1>3. CASE UNCHANGED <<rows, tickets>>
    BY <1>1, <1>3
    DEF TablesInv, DraftsFresh, TargetsExist, PicksWaiting, PicksDistinct, ActiveUnique,
        TicketsMatchRows, BeforeInsert
<1>4. CASE /\ ActiveRowsOf(rows, Owner[r]) = {}
           /\ rows' = [rows EXCEPT ![r] = draft[r]]
           /\ IF draft[r].status = "CONFIRMED"
              THEN tickets' = [tickets EXCEPT ![r] = "ISSUED"]
              ELSE UNCHANGED tickets
    <2>1. /\ Active(draft[r])
          /\ draft[r].ticketed <=> draft[r].status = "CONFIRMED"
        BY <1>1 DEF TablesInv, DraftsFresh
    <2>2. /\ rows'[r] = draft[r]
          /\ tickets'[r] = IF draft[r].status = "CONFIRMED" THEN "ISSUED" ELSE "NONE"
          /\ \A q \in Registers \ {r} : rows'[q] = rows[q] /\ tickets'[q] = tickets[q]
        BY <1>2, <1>4 DEF TablesInv, TypeOK
    <2>3. DraftsFresh'
        BY <1>1, <2>2 DEF TablesInv, DraftsFresh, BeforeInsert
    <2>4. TargetsExist' /\ PicksWaiting' /\ PicksDistinct'
        BY <1>1, <1>2, <2>2 DEF TablesInv, TargetsExist, PicksWaiting, PicksDistinct, AbsentRow
    <2>5. ActiveUnique'
        <3>1. \A q \in Registers : Owner[q] = Owner[r] => ~Active(rows[q])
            BY <1>4 DEF ActiveRowsOf
        <3>2. QED
            BY <2>2, <3>1 DEF TablesInv, ActiveUnique
    <2>6. TicketsMatchRows'
        BY <2>1, <2>2 DEF TablesInv, TicketsMatchRows, Active
    <2>7. QED
        BY <2>3, <2>4, <2>5, <2>6 DEF TablesInv
<1>5. QED
    BY <1>3, <1>4 DEF RegisterInsert, IndexRefuses

LEMMA CancelFindTables ==
    ASSUME TablesInv, TypeOK', NEW c \in Cancels, CancelFind(c)
    PROVE  TablesInv'
<1>1. /\ UNCHANGED <<rows, tickets, draft, pick>>
      /\ \A h \in Requests \ {c} : pc'[h] = pc[h]
      /\ \A d \in Cancels \ {c} : target'[d] = target[d]
      /\ \/ pc'[c] = "done"
         \/ /\ pc'[c] = "cancelRow"
            /\ target'[c] \in Registers
            /\ Active(rows[target'[c]])
    BY DEF TablesInv, TypeOK, CancelFind, Goto, tables, registerLocals, Requests
<1>2. \A r \in Registers : pc'[r] = pc[r]
    BY <1>1, CancelsAssumption DEF Requests
<1>3. DraftsFresh' /\ ActiveUnique' /\ TicketsMatchRows'
    BY <1>1, <1>2 DEF TablesInv, DraftsFresh, ActiveUnique, TicketsMatchRows
<1>4. TargetsExist' /\ PicksWaiting' /\ PicksDistinct'
    BY <1>1 DEF TablesInv, TargetsExist, PicksWaiting, PicksDistinct, Active, Requests
<1>5. QED
    BY <1>3, <1>4 DEF TablesInv

\* The UPDATE waits for the row's lock, so that it never disturbs a promotion.
LEMMA CancelRowTables ==
    ASSUME TablesInv, TypeOK', NEW c \in Cancels, CancelRow(c)
    PROVE  TablesInv'
<1> DEFINE t == target[c]
<1>1. /\ UNCHANGED <<tickets, draft, pick>>
      /\ pc[c] = "cancelRow"
      /\ pc'[c] \in {"cancelTicket", "selectNext", "done"}
      /\ pc'[c] = "cancelTicket" => rows[t].ticketed /\ target' = target
      /\ \A h \in Requests \ {c} : pc'[h] = pc[h]
      /\ \A d \in Cancels \ {c} : target'[d] = target[d]
    BY DEF TablesInv, TypeOK, CancelRow, TicketReturned, AfterCancel, Forget, Goto, registerLocals, Requests
<1>2. /\ t \in Registers
      /\ rows[t].status # "ABSENT"
    BY <1>1 DEF TablesInv, TargetsExist
<1>3. /\ rows'[t].status = "CANCELLED"
      /\ rows'[t].ticketed = rows[t].ticketed
      /\ \A r \in Registers \ {t} : rows'[r] = rows[r]
    <2>1. rows' = [rows EXCEPT ![t] = CancelledRow(@)]
        BY DEF CancelRow
    <2>2. rows'[t] = CancelledRow(rows[t]) /\ rows[t] \in Row
        BY <1>2, <2>1 DEF TablesInv, TypeOK
    <2>3. QED
        BY <1>2, <2>1, <2>2 DEF TablesInv, TypeOK, CancelledRow, Row
<1>4. \A d \in Cancels : pc[d] = "promoteNext" => pick[d] # t
    BY DEF CancelRow, RowFree, Locked
<1>5. DraftsFresh'
    BY <1>1, <1>2, <1>3, CancelsAssumption
    DEF TablesInv, DraftsFresh, Requests, AbsentRow
<1>6. TargetsExist'
    BY <1>1, <1>2, <1>3 DEF TablesInv, TargetsExist, Requests
<1>7. PicksWaiting' /\ PicksDistinct'
    BY <1>1, <1>3, <1>4 DEF TablesInv, PicksWaiting, PicksDistinct, Requests
<1>8. ActiveUnique'
    BY <1>3 DEF TablesInv, ActiveUnique, Active
<1>9. TicketsMatchRows'
    BY <1>1, <1>2, <1>3 DEF TablesInv, TicketsMatchRows
<1>10. QED
    BY <1>5, <1>6, <1>7, <1>8, <1>9 DEF TablesInv

LEMMA CancelTicketTables ==
    ASSUME TablesInv, TypeOK', NEW c \in Cancels, CancelTicket(c)
    PROVE  TablesInv'
<1> DEFINE t == target[c]
<1>1. /\ UNCHANGED <<rows, draft, pick>>
      /\ pc[c] = "cancelTicket"
      /\ pc'[c] \in {"selectNext", "done"}
      /\ tickets' = [tickets EXCEPT ![t] = "CANCELLED"]
      /\ \A h \in Requests \ {c} : pc'[h] = pc[h]
      /\ \A d \in Cancels \ {c} : target'[d] = target[d]
    BY DEF TablesInv, TypeOK, CancelTicket, AfterCancel, Forget, Goto, registerLocals, Requests
<1>2. /\ t \in Registers
      /\ rows[t].status = "CANCELLED"
      /\ rows[t].ticketed
    BY <1>1 DEF TablesInv, TargetsExist
<1>3. /\ tickets'[t] = "CANCELLED"
      /\ \A r \in Registers \ {t} : tickets'[r] = tickets[r]
    BY <1>1, <1>2 DEF TablesInv, TypeOK
<1>4. DraftsFresh'
    BY <1>1, <1>2, <1>3, CancelsAssumption
    DEF TablesInv, DraftsFresh, Requests, AbsentRow
<1>5. TargetsExist' /\ PicksWaiting' /\ PicksDistinct' /\ ActiveUnique'
    BY <1>1 DEF TablesInv, TargetsExist, PicksWaiting, PicksDistinct, ActiveUnique, Requests
<1>6. TicketsMatchRows'
    BY <1>1, <1>2, <1>3 DEF TablesInv, TicketsMatchRows
<1>7. QED
    BY <1>4, <1>5, <1>6 DEF TablesInv

\* SKIP LOCKED: a promotion picks a row no other promotion holds.
LEMMA PromoteSelectTables ==
    ASSUME TablesInv, TypeOK', NEW c \in Cancels, PromoteSelect(c)
    PROVE  TablesInv'
<1>1. /\ UNCHANGED <<rows, tickets, draft>>
      /\ pc'[c] \in {"promoteNext", "done"}
      /\ pc'[c] = "promoteNext" => pick'[c] \in FirstInLine(rows, Locked)
      /\ \A h \in Requests \ {c} : pc'[h] = pc[h]
      /\ \A d \in Cancels \ {c} : target'[d] = target[d] /\ pick'[d] = pick[d]
    BY DEF TablesInv, TypeOK, PromoteSelect, Forget, Goto, tables, registerLocals, Requests
<1>2. \A r \in FirstInLine(rows, Locked) :
         /\ r \in Registers
         /\ rows[r].status = "WAITLISTED"
         /\ \A d \in Cancels : pc[d] = "promoteNext" => pick[d] # r
    BY DEF FirstInLine, RowsWith, Locked
<1>3. DraftsFresh' /\ ActiveUnique' /\ TicketsMatchRows'
    BY <1>1, CancelsAssumption
    DEF TablesInv, DraftsFresh, ActiveUnique, TicketsMatchRows, Requests
<1>4. TargetsExist'
    BY <1>1 DEF TablesInv, TargetsExist, Requests
<1>5. PicksWaiting' /\ PicksDistinct'
    BY <1>1, <1>2 DEF TablesInv, PicksWaiting, PicksDistinct, Requests
<1>6. QED
    BY <1>3, <1>4, <1>5 DEF TablesInv

\* The row a promotion confirms is waitlisted, and so without a ticket.
LEMMA PromoteCommitTables ==
    ASSUME TablesInv, TypeOK', NEW c \in Cancels, PromoteCommit(c)
    PROVE  TablesInv'
<1> DEFINE r == pick[c]
<1>1. /\ UNCHANGED <<draft, pick>>
      /\ pc[c] = "promoteNext"
      /\ pc'[c] = "notify"
      /\ \A h \in Requests \ {c} : pc'[h] = pc[h]
      /\ \A d \in Cancels \ {c} : target'[d] = target[d]
    BY DEF TablesInv, TypeOK, PromoteCommit, Forget, Goto, registerLocals, Requests
<1>2. /\ r \in Registers
      /\ rows[r].status = "WAITLISTED"
    BY <1>1 DEF TablesInv, PicksWaiting
<1>3. /\ rows'[r].status = "CONFIRMED"
      /\ rows'[r].ticketed
      /\ tickets'[r] = "ISSUED"
      /\ \A q \in Registers \ {r} : rows'[q] = rows[q] /\ tickets'[q] = tickets[q]
    <2>1. /\ rows' = [rows EXCEPT ![r] = PromotedRow(@)]
          /\ tickets' = [tickets EXCEPT ![r] = "ISSUED"]
        BY DEF PromoteCommit
    <2>2. rows'[r] = PromotedRow(rows[r]) /\ rows[r] \in Row
        BY <1>2, <2>1 DEF TablesInv, TypeOK
    <2>3. QED
        BY <1>2, <2>1, <2>2 DEF TablesInv, TypeOK, PromotedRow, Row
<1>4. DraftsFresh'
    BY <1>1, <1>2, <1>3, CancelsAssumption
    DEF TablesInv, DraftsFresh, Requests, AbsentRow
<1>5. TargetsExist'
    BY <1>1, <1>2, <1>3 DEF TablesInv, TargetsExist, Requests
<1>6. PicksWaiting' /\ PicksDistinct'
    BY <1>1, <1>3 DEF TablesInv, PicksWaiting, PicksDistinct, Requests
<1>7. ActiveUnique'
    BY <1>2, <1>3 DEF TablesInv, ActiveUnique, Active
<1>8. TicketsMatchRows'
    BY <1>3 DEF TablesInv, TicketsMatchRows
<1>9. QED
    BY <1>4, <1>5, <1>6, <1>7, <1>8 DEF TablesInv

LEMMA PromoteNotifyTables ==
    ASSUME TablesInv, TypeOK', NEW c \in Cancels, PromoteNotify(c)
    PROVE  TablesInv'
<1>1. /\ UNCHANGED <<rows, tickets, draft, target>>
      /\ pc'[c] = "done"
      /\ \A h \in Requests \ {c} : pc'[h] = pc[h]
      /\ \A d \in Cancels \ {c} : pick'[d] = pick[d]
    BY DEF TablesInv, TypeOK, PromoteNotify, Goto, registerLocals, Requests
<1>2. DraftsFresh' /\ ActiveUnique' /\ TicketsMatchRows'
    BY <1>1, CancelsAssumption
    DEF TablesInv, DraftsFresh, ActiveUnique, TicketsMatchRows, Requests
<1>3. TargetsExist' /\ PicksWaiting' /\ PicksDistinct'
    BY <1>1 DEF TablesInv, TargetsExist, PicksWaiting, PicksDistinct, Requests
<1>4. QED
    BY <1>2, <1>3 DEF TablesInv

\* A crash ends every handler and leaves the tables as they are.
LEMMA CrashTables ==
    ASSUME TablesInv, TypeOK', Crash
    PROVE  TablesInv'
<1>1. /\ UNCHANGED <<rows, tickets>>
      /\ \A h \in Requests : pc'[h] = pc[h] \/ pc'[h] = "dropped"
      /\ \A h \in Requests : pc'[h] \in {"idle", "done", "dropped"}
    BY DEF Crash, Running, tables
<1>2. QED
    BY <1>1
    DEF TablesInv, DraftsFresh, TargetsExist, PicksWaiting, PicksDistinct, ActiveUnique,
        TicketsMatchRows, BeforeInsert, Requests

LEMMA NextTables == TablesInv /\ [Next]_vars => TablesInv'
<1> SUFFICES ASSUME TablesInv, [Next]_vars PROVE TablesInv'
    OBVIOUS
<1>1. TypeOK'
    BY NextType DEF TablesInv
<1>2. CASE UNCHANGED vars
    BY <1>1, <1>2
    DEF vars, TablesInv, DraftsFresh, TargetsExist, PicksWaiting, PicksDistinct, ActiveUnique,
        TicketsMatchRows
<1>3. CASE Crash
    BY <1>1, <1>3, CrashTables
<1>4. ASSUME NEW r \in Registers,
             RegisterStep(r) \/ \E served \in BOOLEAN : RegisterFetchEvent(r, served)
      PROVE  TablesInv'
    BY <1>1, <1>4, RegisterQuiet, RegisterCountWaitlistedTables, RegisterInsertTables
    DEF RegisterStep
<1>5. ASSUME NEW c \in Cancels, CancelFind(c) \/ CancelStep(c)
      PROVE  TablesInv'
    BY <1>1, <1>5, CancelFindTables, CancelRowTables, CancelTicketTables,
        PromoteSelectTables, PromoteCommitTables, PromoteNotifyTables
    DEF CancelStep
<1>6. QED
    BY <1>2, <1>3, <1>4, <1>5 DEF Next

LEMMA TablesCorrect == Spec => []TablesInv
BY InitTables, NextTables, PTL DEF Spec

\* In every interleaving and after every crash, the registrations and the tickets
\* agree: what GET /tickets/:id serves is the ticket of the row that carries its id.
THEOREM TicketsAlwaysMatch == Spec => []TicketsMatchRows
<1>1. TablesInv => TicketsMatchRows
    BY DEF TablesInv
<1>2. QED
    BY <1>1, TablesCorrect, PTL

LEMMA TablesUnique == TablesInv => OneActivePerParticipant
<1> SUFFICES ASSUME TablesInv, NEW p \in Participants
             PROVE  Cardinality(ActiveRowsOf(rows, p)) <= 1
    BY DEF OneActivePerParticipant
<1>1. CASE ActiveRowsOf(rows, p) = {}
    BY <1>1, FS_EmptySet
<1>2. CASE ActiveRowsOf(rows, p) # {}
    <2>1. PICK r : r \in ActiveRowsOf(rows, p)
        BY <1>2
    <2>2. ActiveRowsOf(rows, p) = {r}
        BY <2>1 DEF TablesInv, ActiveUnique, ActiveRowsOf
    <2>3. Cardinality({r}) = 1
        BY FS_Singleton
    <2>4. QED
        BY <2>2, <2>3
<1>3. QED
    BY <1>1, <1>2

\* However many requests race, the unique index keeps one active registration per
\* participant: neither a promotion nor a cancellation makes a second one.
THEOREM OneActiveAlways == Spec => []OneActivePerParticipant
BY TablesUnique, TablesCorrect, PTL

\* FOR UPDATE SKIP LOCKED: promotions that run at the same time work on different
\* rows, and nothing cancels a row between its selection and its promotion.
THEOREM PromotionsAlwaysDisjoint == Spec => []PromotionsDisjoint
<1>1. TablesInv => PromotionsDisjoint
    BY DEF TablesInv, PicksWaiting, PicksDistinct, PromotionsDisjoint, Locked
<1>2. QED
    BY <1>1, TablesCorrect, PTL

\* No row comes back, and no ticket.
Forward ==
    \A r \in Registers :
        /\ rows[r].status = "CANCELLED" => rows'[r].status = "CANCELLED"
        /\ rows[r].status = "CONFIRMED" => rows'[r].status \in {"CONFIRMED", "CANCELLED"}
        /\ tickets[r] = "CANCELLED" => tickets'[r] = "CANCELLED"

LEMMA NextForward == ASSUME TablesInv, [Next]_vars PROVE Forward
<1> USE DEF Forward
<1>1. CASE UNCHANGED <<rows, tickets>>
    BY <1>1
<1>2. ASSUME NEW r \in Registers, RegisterInsert(r) PROVE Forward
    <2>1. rows[r] = AbsentRow /\ tickets[r] = "NONE"
        BY <1>2 DEF TablesInv, DraftsFresh, BeforeInsert, RegisterInsert, Goto
    <2>2. \A q \in Registers \ {r} : rows'[q] = rows[q] /\ tickets'[q] = tickets[q]
        BY <1>2 DEF TablesInv, TypeOK, RegisterInsert
    <2>3. QED
        BY <2>1, <2>2 DEF AbsentRow
<1>3. ASSUME NEW c \in Cancels, CancelRow(c) PROVE Forward
    <2>1. \A q \in Registers \ {target[c]} : rows'[q] = rows[q]
        BY <1>3 DEF TablesInv, TypeOK, CancelRow
    <2>2. tickets' = tickets
        BY <1>3 DEF CancelRow
    <2>3. target[c] \in Registers => rows'[target[c]].status = "CANCELLED"
        <3>1. target[c] \in Registers => rows'[target[c]] = CancelledRow(rows[target[c]])
            BY <1>3 DEF TablesInv, TypeOK, CancelRow
        <3>2. \A row \in Row : CancelledRow(row).status = "CANCELLED"
            BY DEF CancelledRow, Row
        <3>3. QED
            BY <3>1, <3>2 DEF TablesInv, TypeOK
    <2>4. QED
        BY <2>1, <2>2, <2>3
<1>4. ASSUME NEW c \in Cancels, CancelTicket(c) PROVE Forward
    BY <1>4 DEF TablesInv, TypeOK, CancelTicket
<1>5. ASSUME NEW c \in Cancels, PromoteCommit(c) PROVE Forward
    <2>1. /\ pick[c] \in Registers
          /\ rows[pick[c]].status = "WAITLISTED"
          /\ tickets[pick[c]] = "NONE"
        BY <1>5 DEF TablesInv, PicksWaiting, TicketsMatchRows, PromoteCommit, Goto
    <2>2. \A q \in Registers \ {pick[c]} : rows'[q] = rows[q] /\ tickets'[q] = tickets[q]
        BY <1>5 DEF TablesInv, TypeOK, PromoteCommit
    <2>3. QED
        BY <2>1, <2>2
<1>6. QED
    BY <1>1, <1>2, <1>3, <1>4, <1>5
    DEF Next, RegisterStep, CancelStep, RegisterFetchEvent, RegisterFindActive,
        RegisterCountConfirmed, RegisterCountWaitlisted, RegisterInsertFails, RegisterNotify,
        CancelFind, PromoteSelect, PromoteNotify, Crash, tables, vars

\* A cancellation is final, a confirmed seat goes back to nobody's waitlist, and a
\* revoked ticket stays revoked, whatever the handlers read before.
THEOREM LifecycleAlwaysForward == Spec => LifecycleIsForward
<1>1. TablesInv /\ [Next]_vars => [Forward]_vars
    BY NextForward
<1>2. QED
    BY <1>1, TablesCorrect, PTL DEF Spec, LifecycleIsForward, Forward

-----------------------------------------------------------------------------
(***************************************************************************)
(* Tickets on their way to be revoked                                      *)
(***************************************************************************)

LEMMA NextRevocation == TablesInv /\ RevocationUnderWay /\ [Next]_vars => RevocationUnderWay'
<1> SUFFICES ASSUME TablesInv, RevocationUnderWay, [Next]_vars PROVE RevocationUnderWay'
    OBVIOUS
<1> USE DEF TablesInv, TypeOK, Goto
<1>1. CASE UNCHANGED vars
    BY <1>1 DEF vars, RevocationUnderWay
<1>2. CASE Crash
    BY <1>2 DEF Crash, RevocationUnderWay
<1>3. ASSUME NEW r \in Registers,
             RegisterStep(r) \/ \E served \in BOOLEAN : RegisterFetchEvent(r, served)
      PROVE  RevocationUnderWay'
    <2>1. /\ UNCHANGED <<crashes, target>>
          /\ \A c \in Cancels : pc'[c] = pc[c]
        BY <1>3, CancelsAssumption
        DEF RegisterStep, RegisterFetchEvent, RegisterFindActive, RegisterCountConfirmed,
            RegisterCountWaitlisted, RegisterInsert, RegisterInsertFails, RegisterNotify,
            cancelLocals, Requests
    <2>2. CASE UNCHANGED <<rows, tickets>>
        BY <2>1, <2>2 DEF RevocationUnderWay
    <2>3. CASE RegisterInsert(r) /\ rows' = [rows EXCEPT ![r] = draft[r]]
        <3>1. Active(draft[r])
            BY <2>3 DEF RegisterInsert, DraftsFresh
        <3>2. /\ rows'[r].status # "CANCELLED"
              /\ \A q \in Registers \ {r} : rows'[q] = rows[q] /\ tickets'[q] = tickets[q]
            BY <2>3, <3>1 DEF RegisterInsert, Active
        <3>3. QED
            BY <2>1, <3>2 DEF RevocationUnderWay
    <2>4. QED
        BY <1>3, <2>2, <2>3
        DEF RegisterStep, RegisterFetchEvent, RegisterFindActive, RegisterCountConfirmed,
            RegisterCountWaitlisted, RegisterInsert, RegisterInsertFails, RegisterNotify, tables
<1>4. ASSUME NEW c \in Cancels,
             CancelFind(c) \/ PromoteSelect(c) \/ PromoteNotify(c)
      PROVE  RevocationUnderWay'
    <2>1. /\ UNCHANGED <<rows, tickets, crashes>>
          /\ pc[c] # "cancelTicket"
          /\ \A d \in Cancels \ {c} : pc'[d] = pc[d] /\ target'[d] = target[d]
        BY <1>4 DEF CancelFind, PromoteSelect, PromoteNotify, Forget, tables, Requests
    <2>2. QED
        BY <2>1 DEF RevocationUnderWay
<1>5. ASSUME NEW c \in Cancels, CancelRow(c) PROVE RevocationUnderWay'
    <2> DEFINE t == target[c]
    <2>1. /\ UNCHANGED <<tickets, crashes>>
          /\ pc[c] = "cancelRow"
          /\ rows[t].ticketed => pc'[c] = "cancelTicket" /\ target' = target
          /\ \A d \in Cancels \ {c} : pc'[d] = pc[d] /\ target'[d] = target[d]
          /\ \A r \in Registers \ {t} : rows'[r] = rows[r]
        BY <1>5 DEF CancelRow, TicketReturned, Forget, Requests
    <2>2. tickets[t] = "ISSUED" => rows[t].ticketed
        BY <2>1 DEF TargetsExist, TicketsMatchRows
    <2>3. QED
        BY <2>1, <2>2 DEF RevocationUnderWay
<1>6. ASSUME NEW c \in Cancels, CancelTicket(c) PROVE RevocationUnderWay'
    <2>1. /\ UNCHANGED <<rows, crashes>>
          /\ tickets'[target[c]] # "ISSUED"
          /\ \A r \in Registers \ {target[c]} : tickets'[r] = tickets[r]
          /\ \A d \in Cancels \ {c} : pc'[d] = pc[d] /\ target'[d] = target[d]
        BY <1>6 DEF CancelTicket, Forget, Requests, TargetsExist
    <2>2. QED
        BY <2>1 DEF RevocationUnderWay
<1>7. ASSUME NEW c \in Cancels, PromoteCommit(c) PROVE RevocationUnderWay'
    <2>1. /\ UNCHANGED crashes
          /\ pc[c] = "promoteNext"
          /\ pick[c] \in Registers
          /\ rows' = [rows EXCEPT ![pick[c]] = PromotedRow(@)]
          /\ \A r \in Registers \ {pick[c]} : rows'[r] = rows[r] /\ tickets'[r] = tickets[r]
          /\ \A d \in Cancels \ {c} : pc'[d] = pc[d] /\ target'[d] = target[d]
        BY <1>7 DEF PromoteCommit, PicksWaiting, Forget, Requests
    <2>2. rows'[pick[c]].status # "CANCELLED"
        BY <2>1 DEF PromotedRow, Row
    <2>3. QED
        BY <2>1, <2>2 DEF RevocationUnderWay
<1>8. QED
    BY <1>1, <1>2, <1>3, <1>4, <1>5, <1>6, <1>7 DEF Next, CancelStep

\* The row is cancelled in one statement and its ticket in another: while the process
\* lives, whoever wrote the first is on his way to write the second, also if a promotion
\* has given the row its ticket after he read it.
THEOREM RevocationAlwaysUnderWay == Spec => []RevocationUnderWay
<1>1. Init => RevocationUnderWay
    BY DEF Init, RevocationUnderWay, AbsentRow
<1>2. QED
    BY <1>1, NextRevocation, TablesCorrect, PTL DEF Spec

-----------------------------------------------------------------------------
(***************************************************************************)
(* Notifications                                                           *)
(***************************************************************************)

\* Only a row that has left the waitlist is promoted.
PromotedLeft ==
    \A r \in Registers : rows[r].status \in {"ABSENT", "WAITLISTED"} => ~rows[r].promoted

\* A register handler about to tell of a confirmation has confirmed, and has told nobody.
ConfirmedUntold ==
    \A r \in Registers :
        /\ pc[r] \in BeforeInsert \cup {"notify"} => notices[<<r, "REGISTRATION_CONFIRMED">>] = 0
        /\ pc[r] = "notify" => rows[r].ticketed /\ ~rows[r].promoted

\* The same of a handler that has promoted; no two of them have promoted one row.
PromotedUntold ==
    /\ \A c \in Cancels :
          pc[c] = "notify" =>
              /\ pick[c] \in Registers
              /\ rows[pick[c]].promoted
              /\ notices[<<pick[c], "WAITLIST_PROMOTED">>] = 0
    /\ \A c, d \in Cancels : c # d /\ pc[c] = "notify" /\ pc[d] = "notify" => pick[c] # pick[d]

\* NoticesTruthful, of one registration.
TruthfulOf(r) ==
    /\ notices[<<r, "REGISTRATION_CONFIRMED">>] <=
          (IF rows[r].ticketed /\ ~rows[r].promoted THEN 1 ELSE 0)
    /\ notices[<<r, "WAITLIST_PROMOTED">>] <= (IF rows[r].promoted THEN 1 ELSE 0)

NoticeInv == PromotedLeft /\ ConfirmedUntold /\ PromotedUntold /\ NoticesTruthful

LEMMA InitNotice == Init => NoticeInv
BY CancelsAssumption
DEF Init, NoticeInv, PromotedLeft, ConfirmedUntold, PromotedUntold, NoticesTruthful, AbsentRow,
    Requests, NoticeTypes

\* What one more notification does to the counters.
LEMMA NotifyEffect ==
    ASSUME TypeOK, NEW r \in Registers, NEW type \in NoticeTypes,
           Notify(r, type) \/ UNCHANGED notices
    PROVE  /\ notices'[<<r, type>>] \in {notices[<<r, type>>], notices[<<r, type>>] + 1}
           /\ \A q \in Registers, other \in NoticeTypes :
                 q # r \/ other # type => notices'[<<q, other>>] = notices[<<q, other>>]
<1>1. CASE UNCHANGED notices
    BY <1>1
<1>2. CASE Notify(r, type)
    <2>1. notices' = [notices EXCEPT ![<<r, type>>] = notices[<<r, type>>] + 1]
        BY <1>2 DEF Notify
    <2>2. DOMAIN notices = Registers \X NoticeTypes
        BY DEF TypeOK
    <2>3. <<r, type>> \in Registers \X NoticeTypes
        OBVIOUS
    <2>4. notices'[<<r, type>>] = notices[<<r, type>>] + 1
        BY <2>1, <2>2, <2>3, Zenon
    <2>5. ASSUME NEW q \in Registers, NEW other \in NoticeTypes, q # r \/ other # type
          PROVE  notices'[<<q, other>>] = notices[<<q, other>>]
        <3>1. <<q, other>> \in Registers \X NoticeTypes /\ <<q, other>> # <<r, type>>
            BY <2>5
        <3>2. QED
            BY <2>1, <2>2, <3>1, Zenon
    <2>6. QED
        BY <2>4, <2>5
<1>3. QED
    BY <1>1, <1>2

\* A register handler moves, and the handlers of cancellations stay where they are.
LEMMA RegisterNotice ==
    ASSUME TablesInv, NoticeInv, NEW r \in Registers,
           RegisterStep(r) \/ \E served \in BOOLEAN : RegisterFetchEvent(r, served)
    PROVE  NoticeInv'
<1>1. /\ UNCHANGED <<pick>>
      /\ \A c \in Cancels : pc'[c] = pc[c]
      /\ \A q \in Registers \ {r} : pc'[q] = pc[q] /\ rows'[q] = rows[q]
    BY CancelsAssumption
    DEF TablesInv, TypeOK, Goto, RegisterStep, RegisterFetchEvent, RegisterFindActive, RegisterCountConfirmed,
        RegisterCountWaitlisted, RegisterInsert, RegisterInsertFails, RegisterNotify,
        cancelLocals, tables, Requests
<1>2. CASE UNCHANGED <<rows, notices>> /\ pc'[r] # "notify"
    <2>1. pc'[r] \in BeforeInsert => pc[r] \in BeforeInsert
        BY <1>2
        DEF TablesInv, TypeOK, Goto, RegisterStep, RegisterFetchEvent, RegisterFindActive, RegisterCountConfirmed,
            RegisterCountWaitlisted, RegisterInsert, RegisterInsertFails, RegisterNotify,
            BeforeInsert, Requests
    <2>2. QED
        BY <1>1, <1>2, <2>1
        DEF NoticeInv, PromotedLeft, ConfirmedUntold, PromotedUntold, NoticesTruthful
<1>3. CASE RegisterInsert(r) /\ rows' = [rows EXCEPT ![r] = draft[r]]
    <2>1. /\ pc[r] = "insert"
          /\ rows[r] = AbsentRow
          /\ ~draft[r].promoted
          /\ draft[r].ticketed <=> draft[r].status = "CONFIRMED"
          /\ rows'[r] = draft[r]
          /\ notices' = notices
          /\ pc'[r] = IF draft[r].status = "CONFIRMED" THEN "notify" ELSE "done"
        <3>1. pc[r] = "insert" /\ rows[r] = AbsentRow
            BY <1>3 DEF TablesInv, TypeOK, Goto, RegisterInsert, DraftsFresh, BeforeInsert
        <3>2. notices' = notices /\ rows'[r] = draft[r]
            BY <1>3 DEF TablesInv, TypeOK, Goto, RegisterInsert
        <3>3. pc'[r] = IF draft[r].status = "CONFIRMED" THEN "notify" ELSE "done"
            <4>1. ~UNCHANGED rows
                <5>1. Active(draft[r]) /\ ~Active(AbsentRow)
                    BY <3>1 DEF TablesInv, DraftsFresh, Active, AbsentRow
                <5>2. QED
                    BY <3>1, <3>2, <5>1
            <4>2. QED
                BY <1>3, <4>1 DEF TablesInv, TypeOK, Goto, RegisterInsert, AfterInsert, Requests
        <3>4. QED
            BY <3>1, <3>2, <3>3 DEF TablesInv, DraftsFresh
    <2>2. ~AbsentRow.promoted
        BY DEF AbsentRow
    <2>3. \A c \in Cancels : pc[c] = "notify" => pick[c] # r
        BY <2>1, <2>2 DEF NoticeInv, PromotedUntold
    <2>4. /\ notices[<<r, "REGISTRATION_CONFIRMED">>] = 0
          /\ notices[<<r, "WAITLIST_PROMOTED">>] <= 0
        BY <2>1, <2>2 DEF NoticeInv, ConfirmedUntold, NoticesTruthful, BeforeInsert
    <2>5. PromotedLeft' /\ PromotedUntold'
        BY <1>1, <2>1, <2>3 DEF NoticeInv, PromotedLeft, PromotedUntold
    <2>6. ConfirmedUntold'
        BY <1>1, <2>1, <2>4 DEF NoticeInv, ConfirmedUntold, BeforeInsert
    <2>7. NoticesTruthful'
        <3>1. TruthfulOf(r)'
            BY <2>1, <2>4 DEF TruthfulOf
        <3>2. \A q \in Registers \ {r} : TruthfulOf(q)'
            BY <1>1, <2>1 DEF NoticeInv, NoticesTruthful, TruthfulOf
        <3>3. QED
            BY <3>1, <3>2, Zenon DEF NoticesTruthful, TruthfulOf
    <2>8. QED
        BY <2>5, <2>6, <2>7 DEF NoticeInv
<1>4. CASE RegisterNotify(r)
    <2>1. /\ pc[r] = "notify" /\ pc'[r] = "done" /\ rows' = rows
          /\ Notify(r, "REGISTRATION_CONFIRMED") \/ UNCHANGED notices
        BY <1>4 DEF TablesInv, TypeOK, Goto, RegisterNotify, Requests
    <2>2. /\ notices'[<<r, "REGISTRATION_CONFIRMED">>]
                \in {notices[<<r, "REGISTRATION_CONFIRMED">>],
                     notices[<<r, "REGISTRATION_CONFIRMED">>] + 1}
          /\ \A q \in Registers, other \in NoticeTypes :
                 q # r \/ other # "REGISTRATION_CONFIRMED" =>
                     notices'[<<q, other>>] = notices[<<q, other>>]
        BY <2>1, NotifyEffect DEF TablesInv, NoticeTypes
    <2>3. /\ \A q \in Registers : notices'[<<q, "WAITLIST_PROMOTED">>] = notices[<<q, "WAITLIST_PROMOTED">>]
          /\ \A q \in Registers \ {r} :
                notices'[<<q, "REGISTRATION_CONFIRMED">>] = notices[<<q, "REGISTRATION_CONFIRMED">>]
        BY <2>2 DEF NoticeTypes
    <2>4. /\ notices'[<<r, "REGISTRATION_CONFIRMED">>] \in {0, 1}
          /\ rows[r].ticketed /\ ~rows[r].promoted
        BY <2>1, <2>2 DEF NoticeInv, ConfirmedUntold
    <2>5. PromotedLeft' /\ PromotedUntold'
        BY <1>1, <2>1, <2>3 DEF NoticeInv, PromotedLeft, PromotedUntold
    <2>6. ConfirmedUntold'
        BY <1>1, <2>1, <2>3 DEF NoticeInv, ConfirmedUntold, BeforeInsert
    <2>7. NoticesTruthful'
        <3>1. TruthfulOf(r)'
            BY <2>1, <2>3, <2>4 DEF NoticeInv, NoticesTruthful, TruthfulOf
        <3>2. \A q \in Registers \ {r} : TruthfulOf(q)'
            BY <2>1, <2>3 DEF NoticeInv, NoticesTruthful, TruthfulOf
        <3>3. QED
            BY <3>1, <3>2, Zenon DEF NoticesTruthful, TruthfulOf
    <2>8. QED
        BY <2>5, <2>6, <2>7 DEF NoticeInv
<1>5. QED
    BY <1>2, <1>3, <1>4
    DEF TablesInv, TypeOK, Goto, RegisterStep, RegisterFetchEvent, RegisterFindActive, RegisterCountConfirmed,
        RegisterCountWaitlisted, RegisterInsert, RegisterInsertFails, tables, Requests

LEMMA CancelNotice ==
    ASSUME TablesInv, NoticeInv, NEW c \in Cancels, CancelFind(c) \/ CancelStep(c)
    PROVE  NoticeInv'
<1>1. /\ \A r \in Registers : pc'[r] = pc[r]
      /\ \A d \in Cancels \ {c} : pc'[d] = pc[d] /\ pick'[d] = pick[d]
    BY CancelsAssumption
    DEF TablesInv, TypeOK, Goto, CancelFind, CancelStep, CancelRow, CancelTicket, PromoteSelect, PromoteCommit,
        PromoteNotify, Requests
<1>2. CASE CancelFind(c) \/ CancelTicket(c) \/ PromoteSelect(c)
    <2>1. UNCHANGED <<rows, notices>> /\ pc'[c] # "notify"
        BY <1>2 DEF TablesInv, TypeOK, Goto, CancelFind, CancelTicket, AfterCancel, PromoteSelect, tables, Requests
    <2>2. QED
        BY <1>1, <2>1
        DEF NoticeInv, PromotedLeft, ConfirmedUntold, PromotedUntold, NoticesTruthful
<1>3. CASE CancelRow(c)
    <2> DEFINE t == target[c]
    <2>1. UNCHANGED <<notices, pick>> /\ pc[c] = "cancelRow" /\ pc'[c] # "notify"
        BY <1>3 DEF TablesInv, TypeOK, Goto, CancelRow, AfterCancel, Requests
    <2>2. /\ \A r \in Registers \ {t} : rows'[r] = rows[r]
          /\ t \in Registers /\ rows'[t] = CancelledRow(rows[t])
        BY <1>3, <2>1 DEF TablesInv, TypeOK, Goto, CancelRow, TargetsExist
    <2>3. /\ rows'[t].status = "CANCELLED"
          /\ rows'[t].ticketed = rows[t].ticketed
          /\ rows'[t].promoted = rows[t].promoted
        BY <2>2 DEF TablesInv, TypeOK, CancelledRow, Row
    <2>4. \A r \in Registers : /\ rows'[r].ticketed = rows[r].ticketed
                               /\ rows'[r].promoted = rows[r].promoted
                               /\ rows'[r].status \in {rows[r].status, "CANCELLED"}
        BY <2>2, <2>3
    <2>5. PromotedLeft' /\ PromotedUntold'
        BY <1>1, <2>1, <2>4 DEF NoticeInv, PromotedLeft, PromotedUntold
    <2>6. ConfirmedUntold' /\ NoticesTruthful'
        BY <1>1, <2>1, <2>4 DEF NoticeInv, ConfirmedUntold, NoticesTruthful
    <2>7. QED
        BY <2>5, <2>6 DEF NoticeInv
<1>4. CASE PromoteCommit(c)
    <2>0. PICK r \in Registers : r = pick[c]
        BY <1>4 DEF TablesInv, PicksWaiting, PromoteCommit, Goto
    <2>1. /\ pc[c] = "promoteNext" /\ pc'[c] = "notify"
          /\ UNCHANGED <<notices, pick>>
          /\ rows[r].status = "WAITLISTED"
          /\ rows'[r] = PromotedRow(rows[r])
          /\ \A q \in Registers \ {r} : rows'[q] = rows[q]
        BY <1>4, <2>0 DEF TablesInv, TypeOK, Goto, PromoteCommit, PicksWaiting, Requests
    <2>2. rows'[r].status = "CONFIRMED" /\ rows'[r].promoted
        BY <2>1 DEF TablesInv, TypeOK, PromotedRow, Row
    <2>3. ~rows[r].promoted /\ ~rows[r].ticketed
        BY <2>1 DEF NoticeInv, PromotedLeft, TablesInv, TicketsMatchRows
    <2>4. /\ pc[r] # "notify"
          /\ \A d \in Cancels : pc[d] = "notify" => pick[d] # r
        BY <2>1, <2>3 DEF NoticeInv, ConfirmedUntold, PromotedUntold
    <2>5. /\ notices[<<r, "REGISTRATION_CONFIRMED">>] <= 0
          /\ notices[<<r, "WAITLIST_PROMOTED">>] = 0
        <3>1. TruthfulOf(r)
            BY DEF NoticeInv, NoticesTruthful, TruthfulOf
        <3>2. notices[<<r, "WAITLIST_PROMOTED">>] \in Nat
            BY DEF TablesInv, TypeOK, NoticeTypes
        <3>3. QED
            BY <2>3, <3>1, <3>2 DEF TruthfulOf
    <2>6. PromotedLeft'
        BY <2>1, <2>2 DEF NoticeInv, PromotedLeft
    <2>7. ConfirmedUntold'
        BY <1>1, <2>1, <2>4 DEF NoticeInv, ConfirmedUntold
    <2>8. PromotedUntold'
        BY <1>1, <2>0, <2>1, <2>2, <2>4, <2>5 DEF NoticeInv, PromotedUntold
    <2>9. NoticesTruthful'
        <3>1. TruthfulOf(r)'
            BY <2>1, <2>2, <2>5 DEF TruthfulOf
        <3>2. \A q \in Registers \ {r} : TruthfulOf(q)'
            BY <2>1 DEF NoticeInv, NoticesTruthful, TruthfulOf
        <3>3. QED
            BY <3>1, <3>2, Zenon DEF NoticesTruthful, TruthfulOf
    <2>10. QED
        BY <2>6, <2>7, <2>8, <2>9 DEF NoticeInv
<1>5. CASE PromoteNotify(c)
    <2>0. PICK r \in Registers : r = pick[c]
        BY <1>5 DEF NoticeInv, PromotedUntold, PromoteNotify, Goto
    <2>1. /\ pc[c] = "notify" /\ pc'[c] = "done" /\ rows' = rows
          /\ Notify(r, "WAITLIST_PROMOTED") \/ UNCHANGED notices
        BY <1>5, <2>0 DEF TablesInv, TypeOK, Goto, PromoteNotify, Requests
    <2>2. /\ rows[r].promoted
          /\ notices[<<r, "WAITLIST_PROMOTED">>] = 0
          /\ \A d \in Cancels \ {c} : pc[d] = "notify" => pick[d] # r
        BY <2>0, <2>1 DEF NoticeInv, PromotedUntold
    <2>3. /\ notices'[<<r, "WAITLIST_PROMOTED">>] \in {0, 1}
          /\ \A q \in Registers : notices'[<<q, "REGISTRATION_CONFIRMED">>] = notices[<<q, "REGISTRATION_CONFIRMED">>]
          /\ \A q \in Registers \ {r} :
                notices'[<<q, "WAITLIST_PROMOTED">>] = notices[<<q, "WAITLIST_PROMOTED">>]
        <3>1. /\ notices'[<<r, "WAITLIST_PROMOTED">>] \in
                    {notices[<<r, "WAITLIST_PROMOTED">>], notices[<<r, "WAITLIST_PROMOTED">>] + 1}
              /\ \A q \in Registers, other \in NoticeTypes :
                    q # r \/ other # "WAITLIST_PROMOTED" =>
                        notices'[<<q, other>>] = notices[<<q, other>>]
            BY <2>1, NotifyEffect DEF TablesInv, NoticeTypes
        <3>2. notices'[<<r, "WAITLIST_PROMOTED">>] \in {0, 1}
            BY <2>2, <3>1
        <3>3. QED
            BY <3>1, <3>2 DEF NoticeTypes
    <2>4. PromotedLeft' /\ ConfirmedUntold'
        BY <1>1, <2>1, <2>3 DEF NoticeInv, PromotedLeft, ConfirmedUntold
    <2>5. PromotedUntold'
        BY <1>1, <2>1, <2>2, <2>3 DEF NoticeInv, PromotedUntold
    <2>6. NoticesTruthful'
        <3>1. TruthfulOf(r)'
            BY <2>1, <2>2, <2>3 DEF NoticeInv, NoticesTruthful, TruthfulOf
        <3>2. \A q \in Registers \ {r} : TruthfulOf(q)'
            BY <2>1, <2>3 DEF NoticeInv, NoticesTruthful, TruthfulOf
        <3>3. QED
            BY <3>1, <3>2, Zenon DEF NoticesTruthful, TruthfulOf
    <2>7. QED
        BY <2>4, <2>5, <2>6 DEF NoticeInv
<1>6. QED
    BY <1>2, <1>3, <1>4, <1>5 DEF CancelStep

\* Of a confirmation and of a promotion a participant is told once at most, by the
\* handler that brought it about, and also when that handler dies after telling.
THEOREM NoticesAlwaysTruthful == Spec => []NoticesTruthful
<1>1. TablesInv /\ NoticeInv /\ [Next]_vars => NoticeInv'
    <2> SUFFICES ASSUME TablesInv, NoticeInv, [Next]_vars PROVE NoticeInv'
        OBVIOUS
    <2>1. CASE UNCHANGED vars
        BY <2>1
        DEF vars, NoticeInv, PromotedLeft, ConfirmedUntold, PromotedUntold, NoticesTruthful
    <2>2. CASE Crash
        <3>1. /\ UNCHANGED <<rows, notices>>
              /\ \A h \in Requests : pc'[h] = pc[h] \/ pc'[h] = "dropped"
              /\ \A h \in Requests : pc'[h] \in {"idle", "done", "dropped"}
            BY <2>2 DEF Crash, Running, tables
        <3>2. QED
            BY <3>1
            DEF NoticeInv, PromotedLeft, ConfirmedUntold, PromotedUntold, NoticesTruthful,
                BeforeInsert, Requests
    <2>3. QED
        BY <2>1, <2>2, RegisterNotice, CancelNotice DEF Next
<1>2. NoticeInv => NoticesTruthful
    BY DEF NoticeInv
<1>3. QED
    BY <1>1, <1>2, InitNotice, TablesCorrect, PTL DEF Spec

-----------------------------------------------------------------------------
(***************************************************************************)
(* The capacity, when requests do not overlap                              *)
(***************************************************************************)

\* What one UPDATE or INSERT does to the number of confirmed rows.
LEMMA CountAfter ==
    ASSUME NEW table \in [Registers -> Row], NEW after \in [Registers -> Row],
           NEW r \in Registers, \A q \in Registers \ {r} : after[q] = table[q]
    PROVE  /\ CountConfirmed(table) \in Nat
           /\ CountConfirmed(after) \in Nat
           /\ table[r].status # "CONFIRMED" /\ after[r].status = "CONFIRMED"
              => CountConfirmed(after) = CountConfirmed(table) + 1
           /\ table[r].status = "CONFIRMED" /\ after[r].status # "CONFIRMED"
              => CountConfirmed(after) = CountConfirmed(table) - 1
           /\ table[r].status # "CONFIRMED" /\ after[r].status # "CONFIRMED"
              => CountConfirmed(after) = CountConfirmed(table)
<1> DEFINE before == RowsWith(table, "CONFIRMED")
<1>1. IsFiniteSet(before) /\ Cardinality(before) \in Nat
    BY CountsAreNatural
<1>2. CountConfirmed(after) \in Nat
    BY CountsAreNatural DEF CountConfirmed
<1>3. after[r].status = "CONFIRMED" => RowsWith(after, "CONFIRMED") = before \cup {r}
    BY DEF RowsWith
<1>4. after[r].status # "CONFIRMED" => RowsWith(after, "CONFIRMED") = before \ {r}
    BY DEF RowsWith
<1>5. r \in before <=> table[r].status = "CONFIRMED"
    BY DEF RowsWith
<1>6. Cardinality(before \cup {r}) = IF r \in before THEN Cardinality(before) ELSE Cardinality(before) + 1
    BY <1>1, FS_AddElement
<1>7. Cardinality(before \ {r}) = IF r \in before THEN Cardinality(before) - 1 ELSE Cardinality(before)
    BY <1>1, FS_RemoveElement
<1>8. QED
    BY <1>1, <1>2, <1>3, <1>4, <1>5, <1>6, <1>7 DEF CountConfirmed

OneAtATime == \A g, h \in Requests : Running(g) /\ Running(h) => g = h

\* What a handler has read still holds when it acts on it.
ReadsFresh ==
    /\ \A r \in Registers :
          /\ pc[r] = "countWaitlisted" => confirmedSeen[r] = CountConfirmed(rows)
          /\ pc[r] = "insert" /\ draft[r].status = "CONFIRMED" => CountConfirmed(rows) < Capacity
    /\ \A c \in Cancels :
          /\ pc[c] = "cancelRow" => seen[c] = rows[target[c]]
          /\ pc[c] = "cancelTicket" /\ seen[c].status = "CONFIRMED" => CountConfirmed(rows) < Capacity
          /\ pc[c] \in {"selectNext", "promoteNext"} => CountConfirmed(rows) < Capacity

SerialInv == OneAtATime /\ ReadsFresh /\ CapacityRespected

LEMMA InitSerial == Init => SerialInv
<1>1. Init => RowsWith(rows, "CONFIRMED") = {}
    BY DEF Init, RowsWith, AbsentRow
<1>2. Init => CountConfirmed(rows) = 0
    BY <1>1, FS_EmptySet DEF CountConfirmed
<1>3. QED
    BY <1>2, BoundsAssumption
    DEF Init, SerialInv, OneAtATime, ReadsFresh, CapacityRespected, Running, Requests

\* A request is admitted only when no other is being served.
LEMMA AdmittedAlone ==
    ASSUME MaxInFlight = 1, Admitted
    PROVE  \A h \in Requests : ~Running(h)
<1>1. IsFiniteSet(Requests)
    BY RegistersAssumption, CancelsAssumption, FS_Union DEF Requests
<1>2. InFlight \in SUBSET Requests
    BY DEF InFlight
<1>3. IsFiniteSet(InFlight)
    BY <1>1, <1>2, FS_Subset
<1>4. Cardinality(InFlight) \in Nat
    BY <1>3, FS_CardinalityType
<1>5. Cardinality(InFlight) = 0
    BY <1>4 DEF Admitted
<1>6. InFlight = {}
    BY <1>3, <1>5, FS_EmptySet
<1>7. QED
    BY <1>6 DEF InFlight

\* Requests are taken one after the other, and only the one that is served moves.
LEMMA NextAlone ==
    ASSUME MaxInFlight = 1, TypeOK, OneAtATime, [Next]_vars
    PROVE  OneAtATime'
<1>1. CASE UNCHANGED vars
    BY <1>1 DEF vars, OneAtATime, Running
<1>2. CASE Crash
    BY <1>2 DEF Crash, OneAtATime, Running
<1>3. ASSUME NEW h \in Requests, Running(h), NEW next, pc' = [pc EXCEPT ![h] = next]
      PROVE  OneAtATime'
    BY <1>3 DEF OneAtATime, Running, TypeOK
<1>4. ASSUME NEW h \in Requests, Admitted, NEW next, pc' = [pc EXCEPT ![h] = next]
      PROVE  OneAtATime'
    BY <1>4, AdmittedAlone DEF OneAtATime, Running, TypeOK
<1>5. ASSUME NEW r \in Registers, RegisterStep(r) PROVE OneAtATime'
    <2>1. r \in Requests /\ Running(r) /\ \E next : pc' = [pc EXCEPT ![r] = next]
        BY <1>5
        DEF RegisterStep, RegisterFindActive, RegisterCountConfirmed, RegisterCountWaitlisted,
            RegisterInsert, RegisterInsertFails, RegisterNotify, Goto, Running, Requests
    <2>2. QED
        BY <2>1, <1>3
<1>6. ASSUME NEW c \in Cancels, CancelStep(c) PROVE OneAtATime'
    <2>1. c \in Requests /\ Running(c) /\ \E next : pc' = [pc EXCEPT ![c] = next]
        BY <1>6
        DEF CancelStep, CancelRow, CancelTicket, PromoteSelect, PromoteCommit, PromoteNotify,
            Goto, Running, Requests
    <2>2. QED
        BY <2>1, <1>3
<1>7. ASSUME NEW r \in Registers, NEW served \in BOOLEAN, RegisterFetchEvent(r, served)
      PROVE  OneAtATime'
    <2>1. r \in Requests /\ Admitted /\ \E next : pc' = [pc EXCEPT ![r] = next]
        BY <1>7 DEF RegisterFetchEvent, Goto, Requests
    <2>2. QED
        BY <2>1, <1>4
<1>8. ASSUME NEW c \in Cancels, CancelFind(c) PROVE OneAtATime'
    <2>1. c \in Requests /\ Admitted /\ \E next : pc' = [pc EXCEPT ![c] = next]
        BY <1>8 DEF CancelFind, Goto, Requests
    <2>2. QED
        BY <2>1, <1>4
<1>9. QED
    BY <1>1, <1>2, <1>5, <1>6, <1>7, <1>8 DEF Next

LEMMA OthersWait ==
    ASSUME TypeOK, OneAtATime, NEW h \in Requests, Running(h), NEW next,
           pc' = [pc EXCEPT ![h] = next]
    PROVE  \A g \in Requests \ {h} : pc'[g] \in {"idle", "done", "dropped"}
BY DEF OneAtATime, Running, TypeOK

LEMMA RegisterSerial ==
    ASSUME TablesInv, SerialInv, OneAtATime', NEW r \in Registers, RegisterStep(r)
    PROVE  SerialInv'
<1>1. TypeOK
    BY DEF TablesInv
<1>2. r \in Requests /\ Running(r) /\ \E next : pc' = [pc EXCEPT ![r] = next]
    BY DEF RegisterStep, RegisterFindActive, RegisterCountConfirmed, RegisterCountWaitlisted,
        RegisterInsert, RegisterInsertFails, RegisterNotify, Goto, Running, Requests
<1>3. \A g \in Requests \ {r} : pc'[g] \in {"idle", "done", "dropped"}
    BY <1>1, <1>2, OthersWait DEF SerialInv
<1>4. \A g \in Registers \cup Cancels : g # r => pc'[g] \in {"idle", "done", "dropped"}
    BY <1>3 DEF Requests
<1>5. \A c \in Cancels : pc'[c] \in {"idle", "done", "dropped"}
    BY <1>4, CancelsAssumption
<1>6. CASE RegisterFindActive(r) \/ RegisterInsertFails(r) \/ RegisterNotify(r)
    <2>1. rows' = rows /\ pc'[r] \in {"countConfirmed", "done"}
        BY <1>1, <1>6
        DEF TypeOK, RegisterFindActive, RegisterInsertFails, RegisterNotify, Goto, tables, Requests
    <2>2. ReadsFresh'
        BY <1>4, <1>5, <2>1 DEF ReadsFresh
    <2>3. QED
        BY <2>1, <2>2 DEF SerialInv, CapacityRespected, CountConfirmed, RowsWith
<1>7. CASE RegisterCountConfirmed(r)
    <2>1. /\ rows' = rows
          /\ pc'[r] = "countWaitlisted"
          /\ confirmedSeen'[r] = CountConfirmed(rows)
        BY <1>1, <1>7 DEF TypeOK, RegisterCountConfirmed, Goto, tables, Requests
    <2>2. CountConfirmed(rows)' = CountConfirmed(rows)
        BY <2>1 DEF CountConfirmed, RowsWith
    <2>3. ReadsFresh'
        BY <1>4, <1>5, <2>1, <2>2 DEF ReadsFresh
    <2>4. QED
        BY <2>2, <2>3 DEF SerialInv, CapacityRespected
<1>8. CASE RegisterCountWaitlisted(r)
    <2>1. rows' = rows /\ pc'[r] = "insert" /\ confirmedSeen[r] = CountConfirmed(rows)
        BY <1>1, <1>8
        DEF TypeOK, RegisterCountWaitlisted, Goto, tables, Requests, SerialInv, ReadsFresh
    <2>2. CountConfirmed(rows)' = CountConfirmed(rows)
        BY <2>1 DEF CountConfirmed, RowsWith
    <2>3. draft'[r].status = IF confirmedSeen[r] < Capacity THEN "CONFIRMED" ELSE "WAITLISTED"
        <3> DEFINE status == IF confirmedSeen[r] < Capacity THEN "CONFIRMED" ELSE "WAITLISTED"
        <3>1. draft' = [draft EXCEPT ![r] = NewRow(status, CountWaitlisted(rows) + 1, now')]
            BY <1>8 DEF RegisterCountWaitlisted, Admission
        <3>2. draft'[r] = NewRow(status, CountWaitlisted(rows) + 1, now')
            BY <1>1, <3>1 DEF TypeOK
        <3>3. QED
            BY <3>2, NewRowFields
    <2>4. ReadsFresh'
        BY <1>4, <1>5, <2>1, <2>2, <2>3 DEF ReadsFresh
    <2>5. QED
        BY <2>2, <2>4 DEF SerialInv, CapacityRespected
<1>9. CASE RegisterInsert(r)
    <2>1. pc[r] = "insert" /\ pc'[r] \in {"done", "notify"}
        BY <1>1, <1>9 DEF TypeOK, RegisterInsert, AfterInsert, Goto, Requests
    <2>2. ReadsFresh'
        BY <1>4, <1>5, <2>1 DEF ReadsFresh
    <2>3. CapacityRespected'
        <3>1. CASE rows' = rows
            BY <3>1 DEF SerialInv, CapacityRespected, CountConfirmed, RowsWith
        <3>2. CASE rows' = [rows EXCEPT ![r] = draft[r]]
            <4>1. /\ rows \in [Registers -> Row]
                  /\ draft[r] \in Row
                  /\ rows[r].status = "ABSENT"
                BY <2>1 DEF TablesInv, TypeOK, DraftsFresh, BeforeInsert, AbsentRow
            <4>2. /\ CountConfirmed(rows) \in Nat
                  /\ CountConfirmed(rows') \in Nat
                  /\ draft[r].status = "CONFIRMED" => CountConfirmed(rows') = CountConfirmed(rows) + 1
                  /\ draft[r].status # "CONFIRMED" => CountConfirmed(rows') = CountConfirmed(rows)
                <5>1. /\ rows' \in [Registers -> Row]
                      /\ rows'[r] = draft[r]
                      /\ \A q \in Registers \ {r} : rows'[q] = rows[q]
                    BY <3>2, <4>1
                <5>2. QED
                    BY <4>1, <5>1, CountAfter
            <4>3. draft[r].status = "CONFIRMED" => CountConfirmed(rows) < Capacity
                BY <2>1 DEF SerialInv, ReadsFresh
            <4>4. CountConfirmed(rows)' = CountConfirmed(rows')
                BY DEF CountConfirmed, RowsWith
            <4>5. QED
                BY <4>2, <4>3, <4>4, BoundsAssumption DEF SerialInv, CapacityRespected
        <3>3. QED
            BY <1>9, <3>1, <3>2 DEF RegisterInsert
    <2>4. QED
        BY <2>2, <2>3 DEF SerialInv
<1>10. QED
    BY <1>6, <1>7, <1>8, <1>9 DEF RegisterStep

LEMMA CancelSerial ==
    ASSUME TablesInv, SerialInv, OneAtATime', NEW c \in Cancels, CancelStep(c)
    PROVE  SerialInv'
<1>1. TypeOK
    BY DEF TablesInv
<1>2. c \in Requests /\ Running(c) /\ \E next : pc' = [pc EXCEPT ![c] = next]
    BY DEF CancelStep, CancelRow, CancelTicket, PromoteSelect, PromoteCommit, PromoteNotify,
        Goto, Running, Requests
<1>3. \A g \in Requests \ {c} : pc'[g] \in {"idle", "done", "dropped"}
    BY <1>1, <1>2, OthersWait DEF SerialInv
<1>4. \A g \in Registers \cup Cancels : g # c => pc'[g] \in {"idle", "done", "dropped"}
    BY <1>3 DEF Requests
<1>5. \A r \in Registers : pc'[r] \in {"idle", "done", "dropped"}
    BY <1>4, CancelsAssumption
<1>6. CASE CancelRow(c)
    <2> DEFINE t == target[c]
    <2>1. /\ pc[c] = "cancelRow"
          /\ pc'[c] \in {"cancelTicket", "selectNext", "done"}
          /\ pc'[c] = "cancelTicket" => seen'[c] = seen[c]
          /\ pc'[c] = "selectNext" => seen[c].status = "CONFIRMED"
          /\ rows' = [rows EXCEPT ![t] = CancelledRow(@)]
        BY <1>1, <1>6 DEF TypeOK, CancelRow, AfterCancel, Goto, Requests
    <2>2. t \in Registers /\ seen[c] = rows[t]
        BY <2>1 DEF TablesInv, TargetsExist, SerialInv, ReadsFresh
    <2>3. /\ rows \in [Registers -> Row]
          /\ CancelledRow(rows[t]) \in Row
          /\ CancelledRow(rows[t]).status = "CANCELLED"
        BY <1>1, <2>2 DEF TypeOK, CancelledRow, Row, RowStatuses
    <2>4. rows' = [rows EXCEPT ![t] = CancelledRow(rows[t])]
        BY <2>1
    <2>5. CountConfirmed(rows)' = CountConfirmed(rows')
        BY DEF CountConfirmed, RowsWith
    <2>6. /\ CountConfirmed(rows) \in Nat
          /\ CountConfirmed(rows') \in Nat
          /\ CountConfirmed(rows') <= CountConfirmed(rows)
          /\ rows[t].status = "CONFIRMED" => CountConfirmed(rows') < CountConfirmed(rows)
        <3> HIDE DEF t
        <3>1. /\ rows' \in [Registers -> Row]
              /\ rows'[t].status = "CANCELLED"
              /\ \A q \in Registers \ {t} : rows'[q] = rows[q]
            BY <2>2, <2>3, <2>4
        <3>2. QED
            BY <2>2, <2>3, <3>1, CountAfter
    <2>7. CapacityRespected'
        BY <2>5, <2>6, BoundsAssumption DEF SerialInv, CapacityRespected
    <2>8. seen[c].status = "CONFIRMED" => CountConfirmed(rows)' < Capacity
        BY <2>2, <2>5, <2>6, BoundsAssumption DEF SerialInv, CapacityRespected
    <2>9. ReadsFresh'
        BY <1>4, <1>5, <2>1, <2>8 DEF ReadsFresh
    <2>10. QED
        BY <2>7, <2>9 DEF SerialInv
<1>7. CASE CancelTicket(c) \/ PromoteSelect(c) \/ PromoteNotify(c)
    <2>1. /\ rows' = rows
          /\ pc'[c] \in {"selectNext", "promoteNext", "done"}
          /\ pc'[c] # "done" =>
                \/ pc[c] = "cancelTicket" /\ seen[c].status = "CONFIRMED"
                \/ pc[c] = "selectNext"
        BY <1>1, <1>7
        DEF TypeOK, CancelTicket, PromoteSelect, PromoteNotify, AfterCancel, Goto, tables, Requests
    <2>2. CountConfirmed(rows)' = CountConfirmed(rows)
        BY <2>1 DEF CountConfirmed, RowsWith
    <2>3. ReadsFresh'
        BY <1>4, <1>5, <2>1, <2>2 DEF ReadsFresh, SerialInv
    <2>4. QED
        BY <2>2, <2>3 DEF SerialInv, CapacityRespected
<1>8. CASE PromoteCommit(c)
    <2> DEFINE r == pick[c]
    <2>1. /\ pc[c] = "promoteNext"
          /\ pc'[c] = "notify"
          /\ rows' = [rows EXCEPT ![r] = PromotedRow(rows[r])]
        BY <1>1, <1>8 DEF TypeOK, PromoteCommit, Goto, Requests
    <2>2. r \in Registers /\ rows[r].status = "WAITLISTED" /\ CountConfirmed(rows) < Capacity
        BY <2>1 DEF TablesInv, PicksWaiting, SerialInv, ReadsFresh
    <2>3. /\ rows \in [Registers -> Row]
          /\ PromotedRow(rows[r]) \in Row
          /\ PromotedRow(rows[r]).status = "CONFIRMED"
        <3> HIDE DEF r
        <3>1. rows \in [Registers -> Row] /\ rows[r] \in Row
            BY <1>1, <2>2 DEF TypeOK
        <3>2. PromotedRow(rows[r]).status = "CONFIRMED"
            BY <3>1 DEF PromotedRow, Row
        <3>3. QED
            BY <3>1, <3>2, RowTypes
    <2>4. CountConfirmed(rows)' = CountConfirmed(rows')
        BY DEF CountConfirmed, RowsWith
    <2>5. CapacityRespected'
        <3>1. CountConfirmed(rows) \in Nat /\ CountConfirmed(rows') = CountConfirmed(rows) + 1
            <4> HIDE DEF r
            <4>1. /\ rows' \in [Registers -> Row]
                  /\ rows'[r].status = "CONFIRMED"
                  /\ \A q \in Registers \ {r} : rows'[q] = rows[q]
                BY <2>1, <2>2, <2>3
            <4>2. QED
                BY <2>2, <2>3, <4>1, CountAfter
        <3>2. QED
            BY <2>2, <2>4, <3>1, BoundsAssumption DEF CapacityRespected
    <2>6. ReadsFresh'
        BY <1>4, <1>5, <2>1 DEF ReadsFresh
    <2>7. QED
        BY <2>5, <2>6 DEF SerialInv
<1>9. QED
    BY <1>6, <1>7, <1>8 DEF CancelStep

\* A request that is admitted reads the tables while nobody else is served.
LEMMA AdmitSerial ==
    ASSUME MaxInFlight = 1, TablesInv, SerialInv, OneAtATime',
           \/ \E r \in Registers, served \in BOOLEAN : RegisterFetchEvent(r, served)
           \/ \E c \in Cancels : CancelFind(c)
    PROVE  SerialInv'
<1>1. TypeOK /\ \A h \in Requests : ~Running(h)
    BY AdmittedAlone DEF TablesInv, RegisterFetchEvent, CancelFind
<1>2. rows' = rows
    BY DEF RegisterFetchEvent, CancelFind, tables
<1>3. CountConfirmed(rows)' = CountConfirmed(rows)
    BY <1>2 DEF CountConfirmed, RowsWith
<1>4. \A h \in Requests : pc'[h] \in {"idle", "done", "dropped", "findActive", "cancelRow"}
    BY <1>1 DEF RegisterFetchEvent, CancelFind, Goto, Running, TypeOK
<1>5. \A c \in Cancels : pc'[c] = "cancelRow" => seen'[c] = rows[target'[c]]
    <2>1. CASE \E r \in Registers, served \in BOOLEAN : RegisterFetchEvent(r, served)
        BY <1>1, <2>1, CancelsAssumption
        DEF RegisterFetchEvent, Goto, Running, TypeOK, Requests
    <2>2. CASE \E c \in Cancels : CancelFind(c)
        BY <1>1, <2>2 DEF CancelFind, Goto, Running, TypeOK, Requests
    <2>3. QED
        BY <2>1, <2>2
<1>6. ReadsFresh'
    BY <1>2, <1>4, <1>5 DEF ReadsFresh, Requests
<1>7. QED
    BY <1>3, <1>6 DEF SerialInv, CapacityRespected

LEMMA NextSerial ==
    ASSUME MaxInFlight = 1, TablesInv, SerialInv, [Next]_vars
    PROVE  SerialInv'
<1>1. OneAtATime'
    BY NextAlone DEF TablesInv, SerialInv
<1>2. CASE UNCHANGED vars
    BY <1>1, <1>2
    DEF vars, SerialInv, ReadsFresh, CapacityRespected, CountConfirmed, RowsWith
<1>3. CASE Crash
    <2>1. rows' = rows /\ \A h \in Requests : pc'[h] \in {"idle", "done", "dropped"}
        BY <1>3 DEF Crash, Running, tables
    <2>2. ReadsFresh'
        BY <2>1 DEF ReadsFresh, Requests
    <2>3. QED
        BY <1>1, <2>1, <2>2 DEF SerialInv, CapacityRespected, CountConfirmed, RowsWith
<1>4. QED
    BY <1>1, <1>2, <1>3, RegisterSerial, CancelSerial, AdmitSerial DEF Next

LEMMA SerialCorrect ==
    ASSUME MaxInFlight = 1
    PROVE  Spec => []SerialInv
<1>1. TablesInv /\ SerialInv /\ [Next]_vars => SerialInv'
    BY NextSerial
<1>2. QED
    BY <1>1, InitSerial, TablesCorrect, PTL DEF Spec

\* Clients that wait for one answer before they send the next request never
\* overbook an event, whatever the order of requests and wherever it crashes.
THEOREM SerialCapacity ==
    ASSUME MaxInFlight = 1
    PROVE  Spec => []CapacityRespected
<1>1. SerialInv => CapacityRespected
    BY DEF SerialInv
<1>2. QED
    BY <1>1, SerialCorrect, PTL

-----------------------------------------------------------------------------
(***************************************************************************)
(* How far an event is overbooked, when requests overlap                   *)
(***************************************************************************)

\* Those who have a seat, and those who have one in hand: a registration that has found one
\* and has not taken it yet, and a cancellation that has one to pass on.
SeatFound ==
    {r \in Registers :
        \/ pc[r] = "countWaitlisted" /\ confirmedSeen[r] < Capacity
        \/ pc[r] = "insert" /\ draft[r].status = "CONFIRMED"}
SeatToPass ==
    {c \in Cancels :
        \/ pc[c] = "cancelTicket" /\ seen[c].status = "CONFIRMED"
        \/ pc[c] \in {"selectNext", "promoteNext"}}
Seats == RowsWith(rows, "CONFIRMED") \cup SeatFound \cup SeatToPass
Gone == RowsWith(rows, "CANCELLED")

\* A confirmed row is cancelled or stays confirmed while a cancellation is on its way.
SeenHolds ==
    \A c \in Cancels :
        pc[c] = "cancelRow" /\ seen[c].status = "CONFIRMED" =>
            rows[target[c]].status \in {"CONFIRMED", "CANCELLED"}

OverlapBounded == Cardinality(InFlight) <= MaxInFlight

LEMMA FiniteRequests ==
    /\ IsFiniteSet(Requests)
    /\ IsFiniteSet(InFlight) /\ Cardinality(InFlight) \in Nat
    /\ IsFiniteSet(Seats) /\ Cardinality(Seats) \in Nat
    /\ IsFiniteSet(Gone) /\ Cardinality(Gone) \in Nat
    /\ IsFiniteSet(Served) /\ Cardinality(Served) \in Nat
<1>1. IsFiniteSet(Requests)
    BY RegistersAssumption, CancelsAssumption, FS_Union DEF Requests
<1>2. /\ InFlight \subseteq Requests /\ Seats \subseteq Requests
      /\ Gone \subseteq Requests /\ Served \subseteq Requests
    BY DEF InFlight, Seats, SeatFound, SeatToPass, Gone, RowsWith, Served, Requests
<1>3. QED
    BY <1>1, <1>2, FS_Subset, FS_CardinalityType

LEMMA FiniteRequestsNext ==
    /\ IsFiniteSet(InFlight') /\ Cardinality(InFlight') \in Nat
    /\ IsFiniteSet(Seats') /\ Cardinality(Seats') \in Nat
    /\ IsFiniteSet(Gone') /\ Cardinality(Gone') \in Nat
    /\ IsFiniteSet(Served') /\ Cardinality(Served') \in Nat
<1>1. (/\ IsFiniteSet(InFlight) /\ Cardinality(InFlight) \in Nat
       /\ IsFiniteSet(Seats) /\ Cardinality(Seats) \in Nat
       /\ IsFiniteSet(Gone) /\ Cardinality(Gone) \in Nat
       /\ IsFiniteSet(Served) /\ Cardinality(Served) \in Nat)'
    BY FiniteRequests, PTL
<1>2. QED
    BY <1>1

\* What taking out, adding and exchanging an element do to the size of a set.
LEMMA FewerOrEqual ==
    ASSUME NEW S, IsFiniteSet(S), NEW T, T \subseteq S
    PROVE  Cardinality(T) <= Cardinality(S)
BY FS_Subset

LEMMA OneMore ==
    ASSUME NEW S, IsFiniteSet(S), NEW x, NEW T, T \subseteq S \cup {x}
    PROVE  Cardinality(T) <= Cardinality(S) + 1
<1>1. /\ IsFiniteSet(S \cup {x})
      /\ Cardinality(S \cup {x}) \in {Cardinality(S), Cardinality(S) + 1}
    BY FS_AddElement
<1>2. IsFiniteSet(T) /\ Cardinality(T) <= Cardinality(S \cup {x})
    BY <1>1, FS_Subset
<1>3. Cardinality(S) \in Nat /\ Cardinality(T) \in Nat
    BY <1>2, FS_CardinalityType
<1>4. QED
    BY <1>1, <1>2, <1>3

LEMMA Exchanged ==
    ASSUME NEW S, IsFiniteSet(S), NEW a \in S, NEW x, NEW T, T \subseteq (S \ {a}) \cup {x}
    PROVE  Cardinality(T) <= Cardinality(S)
<1>1. IsFiniteSet(S \ {a}) /\ Cardinality(S \ {a}) = Cardinality(S) - 1
    BY FS_RemoveElement
<1>2. Cardinality(T) <= Cardinality(S \ {a}) + 1
    BY <1>1, OneMore
<1>3. Cardinality(S) \in Nat
    BY FS_CardinalityType
<1>4. QED
    BY <1>1, <1>2, <1>3

\* Only a request that is admitted adds to those in flight.
LEMMA NextOverlap ==
    ASSUME TypeOK, OverlapBounded, [Next]_vars
    PROVE  OverlapBounded'
<1>1. ASSUME InFlight' \subseteq InFlight PROVE OverlapBounded'
    BY <1>1, FiniteRequests, FiniteRequestsNext, FewerOrEqual, BoundsAssumption DEF OverlapBounded
<1>2. CASE UNCHANGED vars \/ Crash
    BY <1>1, <1>2 DEF vars, Crash, InFlight, Running
<1>3. ASSUME NEW h \in Requests, Running(h), NEW next, pc' = [pc EXCEPT ![h] = next]
      PROVE  OverlapBounded'
    BY <1>1, <1>3 DEF InFlight, Running, TypeOK
<1>4. ASSUME NEW h \in Requests, Admitted, NEW next, pc' = [pc EXCEPT ![h] = next]
      PROVE  OverlapBounded'
    <2>1. InFlight' \subseteq InFlight \cup {h}
        BY <1>4 DEF InFlight, Running, TypeOK
    <2>2. Cardinality(InFlight') <= Cardinality(InFlight) + 1
        BY <2>1, FiniteRequests, OneMore
    <2>3. QED
        BY <1>4, <2>2, FiniteRequests, FiniteRequestsNext, BoundsAssumption
        DEF OverlapBounded, Admitted
<1>5. ASSUME NEW r \in Registers, RegisterStep(r) PROVE OverlapBounded'
    <2>1. r \in Requests /\ Running(r) /\ \E next : pc' = [pc EXCEPT ![r] = next]
        BY <1>5
        DEF RegisterStep, RegisterFindActive, RegisterCountConfirmed, RegisterCountWaitlisted,
            RegisterInsert, RegisterInsertFails, RegisterNotify, Goto, Running, Requests
    <2>2. QED
        BY <2>1, <1>3
<1>6. ASSUME NEW c \in Cancels, CancelStep(c) PROVE OverlapBounded'
    <2>1. c \in Requests /\ Running(c) /\ \E next : pc' = [pc EXCEPT ![c] = next]
        BY <1>6
        DEF CancelStep, CancelRow, CancelTicket, PromoteSelect, PromoteCommit, PromoteNotify,
            Goto, Running, Requests
    <2>2. QED
        BY <2>1, <1>3
<1>7. ASSUME NEW h \in Requests,
             \/ h \in Registers /\ \E served \in BOOLEAN : RegisterFetchEvent(h, served)
             \/ h \in Cancels /\ CancelFind(h)
      PROVE  OverlapBounded'
    <2>1. Admitted /\ \E next : pc' = [pc EXCEPT ![h] = next]
        BY <1>7 DEF RegisterFetchEvent, CancelFind, Goto
    <2>2. QED
        BY <2>1, <1>4
<1>8. QED
    BY <1>2, <1>5, <1>6, <1>7 DEF Next, Requests

\* A registration takes a seat it has found, or finds one while the event is not full.
LEMMA RegisterSeats ==
    ASSUME TablesInv, TypeOK', NEW r \in Registers,
           RegisterStep(r) \/ \E served \in BOOLEAN : RegisterFetchEvent(r, served)
    PROVE  /\ Gone' \subseteq Gone /\ Served' = Served
           /\ Seats' \subseteq Seats \/ CountConfirmed(rows)' < Capacity
<1>1. /\ UNCHANGED cancelLocals
      /\ \A h \in Requests \ {r} : pc'[h] = pc[h]
      /\ \A q \in Registers \ {r} : /\ rows'[q] = rows[q] /\ draft'[q] = draft[q]
                                    /\ confirmedSeen'[q] = confirmedSeen[q]
    BY DEF TablesInv, TypeOK, Requests, RegisterStep, RegisterFetchEvent, RegisterFindActive,
        RegisterCountConfirmed, RegisterCountWaitlisted, RegisterInsert, RegisterInsertFails,
        RegisterNotify, Goto, tables, registerLocals
<1>2. \A c \in Cancels : c # r /\ c \in Requests /\ pc'[c] = pc[c]
    BY <1>1, CancelsAssumption DEF Requests
<1>3. Served' = Served /\ SeatToPass' = SeatToPass
    BY <1>1, <1>2 DEF Served, SeatToPass, cancelLocals
<1>4. /\ \/ rows' = rows
         \/ /\ pc[r] = "insert"
            /\ rows'[r] = draft[r]
      /\ r \in SeatFound' =>
            \/ r \in SeatFound
            \/ rows' = rows /\ CountConfirmed(rows) < Capacity
    <2>1. CASE RegisterCountConfirmed(r)
        BY <2>1 DEF TablesInv, TypeOK, RegisterCountConfirmed, Goto, SeatFound, tables, Requests
    <2>2. CASE RegisterCountWaitlisted(r)
        <3>1. /\ rows' = rows /\ pc[r] = "countWaitlisted"
              /\ draft'[r] = Admission(confirmedSeen[r], CountWaitlisted(rows), now')
              /\ pc'[r] = "insert"
            BY <2>2 DEF TablesInv, TypeOK, RegisterCountWaitlisted, Goto, tables, Requests
        <3>2. draft'[r].status = "CONFIRMED" => confirmedSeen[r] < Capacity
            BY <3>1, NewRowFields DEF Admission
        <3>3. QED
            BY <3>1, <3>2 DEF SeatFound
    <2>3. CASE RegisterInsert(r)
        BY <2>3, Zenon DEF TablesInv, TypeOK, RegisterInsert, AfterInsert, Goto, SeatFound, Requests
    <2>4. CASE \/ \E served \in BOOLEAN : RegisterFetchEvent(r, served)
               \/ RegisterFindActive(r) \/ RegisterInsertFails(r) \/ RegisterNotify(r)
        BY <2>4 DEF TablesInv, TypeOK, RegisterFetchEvent, RegisterFindActive,
            RegisterInsertFails, RegisterNotify, Goto, SeatFound, tables, Requests
    <2>5. QED
        BY <2>1, <2>2, <2>3, <2>4 DEF RegisterStep
<1>5. \A q \in Registers \ {r} :
          /\ q \in RowsWith(rows, "CONFIRMED")' <=> q \in RowsWith(rows, "CONFIRMED")
          /\ q \in SeatFound' <=> q \in SeatFound
    BY <1>1 DEF RowsWith, SeatFound, Requests
<1>6. Gone' \subseteq Gone
    BY <1>1, <1>4 DEF TablesInv, DraftsFresh, Active, Gone, RowsWith
<1>7. r \in RowsWith(rows, "CONFIRMED")' => r \in RowsWith(rows, "CONFIRMED") \cup SeatFound
    BY <1>4 DEF RowsWith, SeatFound
<1>8. ASSUME ~(CountConfirmed(rows)' < Capacity) PROVE Seats' \subseteq Seats
    <2>1. r \in SeatFound' => r \in SeatFound
        BY <1>4, <1>8
    <2>2. /\ RowsWith(rows, "CONFIRMED")' \subseteq Registers
          /\ SeatFound' \subseteq Registers
        BY DEF RowsWith, SeatFound
    <2>3. QED
        BY <1>3, <1>5, <1>7, <2>1, <2>2 DEF Seats
<1>9. QED
    BY <1>3, <1>6, <1>8

\* The steps of a cancellation that take nobody's seat.
LEMMA CancelSeats ==
    ASSUME TablesInv, TypeOK', NEW c \in Cancels,
           CancelFind(c) \/ CancelTicket(c) \/ PromoteSelect(c) \/ PromoteNotify(c)
    PROVE  Gone' \subseteq Gone /\ Served \subseteq Served' /\ Seats' \subseteq Seats
<1>1. /\ UNCHANGED <<rows, confirmedSeen, draft>>
      /\ \A h \in Requests \ {c} : pc'[h] = pc[h]
      /\ \A d \in Cancels \ {c} : seen'[d] = seen[d]
    BY DEF TablesInv, TypeOK, Requests, CancelFind, CancelTicket, PromoteSelect, PromoteNotify,
        Forget, Goto, tables, registerLocals
<1>2. \A r \in Registers : pc'[r] = pc[r]
    BY <1>1, CancelsAssumption DEF Requests
<1>3. Gone' = Gone /\ RowsWith(rows, "CONFIRMED")' = RowsWith(rows, "CONFIRMED")
      /\ SeatFound' = SeatFound
    BY <1>1, <1>2 DEF Gone, RowsWith, SeatFound
<1>4. /\ c \in Served => c \in Served'
      /\ c \in SeatToPass' => c \in SeatToPass
    BY DEF TablesInv, TypeOK, Requests, CancelFind, CancelTicket, PromoteSelect, PromoteNotify,
        AfterCancel, Goto, Served, SeatToPass
<1>5. \A d \in Cancels \ {c} : /\ d \in Served <=> d \in Served'
                               /\ d \in SeatToPass' <=> d \in SeatToPass
    BY <1>1 DEF Served, SeatToPass, Requests
<1>6. Served \subseteq Served' /\ SeatToPass' \subseteq SeatToPass
    <2>1. Served \subseteq Cancels /\ SeatToPass' \subseteq Cancels
        BY DEF Served, SeatToPass
    <2>2. QED
        BY <1>4, <1>5, <2>1
<1>7. QED
    BY <1>3, <1>6 DEF Seats

\* A promotion passes its seat on.
LEMMA CommitSeats ==
    ASSUME TablesInv, TypeOK', NEW c \in Cancels, PromoteCommit(c)
    PROVE  /\ Gone' \subseteq Gone /\ Served' = Served
           /\ c \in Seats /\ Seats' \subseteq (Seats \ {c}) \cup {pick[c]}
<1>1. /\ UNCHANGED <<confirmedSeen, draft>>
      /\ pc[c] = "promoteNext" /\ pc'[c] = "notify"
      /\ \A h \in Requests \ {c} : pc'[h] = pc[h]
      /\ \A d \in Cancels \ {c} : seen'[d] = seen[d]
      /\ \A q \in Registers \ {pick[c]} : rows'[q] = rows[q]
      /\ pick[c] \in Registers => rows'[pick[c]] = PromotedRow(rows[pick[c]])
    BY DEF TablesInv, TypeOK, Requests, PromoteCommit, Forget, Goto, registerLocals
<1>2. \A r \in Registers : pc'[r] = pc[r] /\ r # c
    BY <1>1, CancelsAssumption DEF Requests
<1>3. \A row \in Row : PromotedRow(row).status = "CONFIRMED"
    BY DEF PromotedRow, Row
<1>4. Gone' \subseteq Gone
    BY <1>1, <1>3 DEF TablesInv, TypeOK, Gone, RowsWith
<1>5. SeatFound' = SeatFound
    BY <1>1, <1>2 DEF SeatFound
<1>6. RowsWith(rows, "CONFIRMED")' \subseteq RowsWith(rows, "CONFIRMED") \cup {pick[c]}
    BY <1>1 DEF RowsWith
<1>7. /\ SeatToPass' \subseteq SeatToPass \ {c} /\ c \in SeatToPass
      /\ Served' = Served
    BY <1>1 DEF SeatToPass, Served, Requests
<1>8. c \notin RowsWith(rows, "CONFIRMED") /\ c \notin SeatFound
    BY <1>2 DEF RowsWith, SeatFound
<1>9. QED
    BY <1>4, <1>5, <1>6, <1>7, <1>8 DEF Seats

\* A cancellation takes the seat of its registration in hand.  Only if that has lost it to
\* another cancellation, there is one more in hand.
LEMMA CancelRowSeats ==
    ASSUME TablesInv, TypeOK', SeenHolds, NEW c \in Cancels, CancelRow(c)
    PROVE  /\ Served' = Served \cup {c} /\ c \notin Served
           /\ Gone' \subseteq Gone \cup {target[c]}
           /\ \/ Seats' \subseteq Seats
              \/ target[c] \in Seats /\ Seats' \subseteq (Seats \ {target[c]}) \cup {c}
              \/ /\ rows[target[c]].status = "CANCELLED"
                 /\ Seats' \subseteq Seats \cup {c} /\ Gone' \subseteq Gone
<1> DEFINE t == target[c]
<1>1. /\ UNCHANGED <<confirmedSeen, draft>>
      /\ pc[c] = "cancelRow" /\ pc'[c] \in {"cancelTicket", "selectNext", "done"}
      /\ c \in SeatToPass' => seen[c].status = "CONFIRMED"
      /\ \A h \in Requests \ {c} : pc'[h] = pc[h]
      /\ \A d \in Cancels \ {c} : seen'[d] = seen[d]
    BY DEF TablesInv, TypeOK, Requests, CancelRow, AfterCancel, Forget, Goto, registerLocals,
        SeatToPass
<1>2. t \in Registers /\ rows[t].status # "ABSENT"
    BY <1>1 DEF TablesInv, TargetsExist
<1>3. /\ \A q \in Registers \ {t} : rows'[q] = rows[q]
      /\ rows'[t].status = "CANCELLED"
    <2>1. rows' = [rows EXCEPT ![t] = CancelledRow(@)]
        BY DEF CancelRow
    <2>2. rows'[t] = CancelledRow(rows[t]) /\ rows[t] \in Row
        BY <1>2, <2>1 DEF TablesInv, TypeOK
    <2>3. QED
        BY <1>2, <2>1, <2>2 DEF TablesInv, TypeOK, CancelledRow, Row
<1>4. \A r \in Registers : pc'[r] = pc[r] /\ r # c
    BY <1>1, CancelsAssumption DEF Requests
<1>5. Served' = Served \cup {c} /\ c \notin Served
    BY <1>1 DEF Served, Requests
<1>6. Gone' \subseteq Gone \cup {t} /\ (rows[t].status = "CANCELLED" => Gone' \subseteq Gone)
    BY <1>2, <1>3 DEF Gone, RowsWith
<1>7. SeatFound' = SeatFound /\ t \notin SeatFound
    BY <1>1, <1>2, <1>4 DEF TablesInv, DraftsFresh, BeforeInsert, AbsentRow, SeatFound
<1>8. RowsWith(rows, "CONFIRMED")' = RowsWith(rows, "CONFIRMED") \ {t}
    BY <1>2, <1>3 DEF RowsWith
<1>9. SeatToPass' \subseteq SeatToPass \cup {c} /\ t \notin SeatToPass'
    BY <1>1, <1>2, CancelsAssumption DEF SeatToPass, Requests
<1>10. CASE seen[c].status # "CONFIRMED"
    <2>1. SeatToPass' \subseteq SeatToPass
        BY <1>1, <1>9, <1>10
    <2>2. QED
        BY <1>5, <1>6, <1>7, <1>8, <2>1 DEF Seats
<1>11. CASE seen[c].status = "CONFIRMED" /\ rows[t].status = "CONFIRMED"
    <2>1. t \in RowsWith(rows, "CONFIRMED")
        BY <1>2, <1>11 DEF RowsWith
    <2>2. t \in Seats /\ Seats' \subseteq (Seats \ {t}) \cup {c}
        BY <1>7, <1>8, <1>9, <2>1 DEF Seats
    <2>3. QED
        BY <1>5, <1>6, <2>2
<1>12. CASE seen[c].status = "CONFIRMED" /\ rows[t].status = "CANCELLED"
    <2>1. Seats' \subseteq Seats \cup {c}
        BY <1>7, <1>8, <1>9 DEF Seats
    <2>2. QED
        BY <1>5, <1>6, <1>12, <2>1
<1>13. QED
    BY <1>1, <1>10, <1>11, <1>12 DEF SeenHolds

LEMMA CrashSeats ==
    ASSUME TablesInv, Crash
    PROVE  Gone' \subseteq Gone /\ Served \subseteq Served' /\ Seats' \subseteq Seats
<1>1. rows' = rows
    BY DEF Crash, tables
<1>2. \A h \in Requests : pc'[h] = IF Running(h) THEN "dropped" ELSE pc[h]
    BY DEF Crash
<1>3. SeatFound' = {} /\ SeatToPass' = {}
    BY <1>2 DEF SeatFound, SeatToPass, Running, Requests
<1>4. Served \subseteq Served'
    BY <1>2 DEF Served, Running, Requests
<1>5. Gone' = Gone /\ RowsWith(rows, "CONFIRMED")' = RowsWith(rows, "CONFIRMED")
    BY <1>1 DEF Gone, RowsWith
<1>6. QED
    BY <1>3, <1>4, <1>5 DEF Seats

\* A cancellation on its way to its UPDATE has just found an active registration, or found
\* it before.
LEMMA OnItsWay ==
    ASSUME TablesInv, TypeOK', [Next]_vars, NEW c \in Cancels, pc'[c] = "cancelRow"
    PROVE  \/ pc[c] = "cancelRow" /\ seen'[c] = seen[c] /\ target'[c] = target[c]
           \/ rows' = rows /\ seen'[c] = rows[target'[c]] /\ Active(rows[target'[c]])
<1>1. CASE CancelFind(c)
    BY <1>1 DEF TablesInv, TypeOK, CancelFind, Goto, tables, Requests
<1>2. ASSUME NEW d \in Cancels, CancelStep(d) \/ (CancelFind(d) /\ d # c)
      PROVE  pc[c] = "cancelRow" /\ seen'[c] = seen[c] /\ target'[c] = target[c]
    <2>1. d # c
        BY <1>2
        DEF TablesInv, TypeOK, Requests, CancelStep, CancelRow, AfterCancel, CancelTicket,
            PromoteSelect, PromoteCommit, PromoteNotify, Goto
    <2>2. QED
        BY <1>2, <2>1
        DEF TablesInv, TypeOK, Requests, CancelStep, CancelFind, CancelRow, CancelTicket,
            PromoteSelect, PromoteCommit, PromoteNotify, Forget, Goto
<1>3. ASSUME NEW r \in Registers,
             RegisterStep(r) \/ \E served \in BOOLEAN : RegisterFetchEvent(r, served)
      PROVE  pc[c] = "cancelRow" /\ seen'[c] = seen[c] /\ target'[c] = target[c]
    BY <1>3, CancelsAssumption
    DEF TablesInv, TypeOK, Requests, RegisterStep, RegisterFetchEvent, RegisterFindActive,
        RegisterCountConfirmed, RegisterCountWaitlisted, RegisterInsert,
        RegisterInsertFails, RegisterNotify, Goto, cancelLocals
<1>4. CASE Crash
    BY <1>4 DEF Crash, Running, Requests
<1>5. CASE UNCHANGED vars
    BY <1>5 DEF vars
<1>6. QED
    BY <1>1, <1>2, <1>3, <1>4, <1>5 DEF Next

LEMMA NextSeenHolds ==
    ASSUME TablesInv, TypeOK', SeenHolds, [Next]_vars
    PROVE  SeenHolds'
<1> SUFFICES ASSUME NEW c \in Cancels, pc'[c] = "cancelRow", seen'[c].status = "CONFIRMED"
             PROVE  rows'[target'[c]].status \in {"CONFIRMED", "CANCELLED"}
    BY DEF SeenHolds
<1>1. CASE rows' = rows /\ seen'[c] = rows[target'[c]]
    BY <1>1
<1>2. CASE pc[c] = "cancelRow" /\ seen'[c] = seen[c] /\ target'[c] = target[c]
    <2>1. target[c] \in Registers /\ rows[target[c]].status \in {"CONFIRMED", "CANCELLED"}
        BY <1>2 DEF SeenHolds, TablesInv, TargetsExist
    <2>2. QED
        BY <1>2, <2>1, NextForward DEF Forward
<1>3. QED
    BY <1>1, <1>2, OnItsWay

\* No more are cancelled than cancellations were served, and no more have a seat, or one in
\* hand, than the capacity, the overlap and the cancellations in vain account for.
SeatsInv ==
    /\ OverlapBounded
    /\ SeenHolds
    /\ Cardinality(Gone) <= Cardinality(Served)
    /\ Cardinality(Seats) + Cardinality(Gone) < Capacity + MaxInFlight + Cardinality(Served)

LEMMA InitSeats == Init => SeatsInv
<1> SUFFICES ASSUME Init PROVE SeatsInv
    OBVIOUS
<1>1. InFlight = {} /\ Seats = {} /\ Gone = {}
    BY DEF Init, InFlight, Running, Seats, SeatFound, SeatToPass, Gone, RowsWith, AbsentRow,
        Requests
<1>2. Cardinality(InFlight) = 0 /\ Cardinality(Seats) = 0 /\ Cardinality(Gone) = 0
    BY <1>1, FS_EmptySet
<1>3. SeenHolds
    BY DEF Init, SeenHolds, Requests
<1>4. QED
    BY <1>2, <1>3, FiniteRequests, BoundsAssumption DEF SeatsInv, OverlapBounded

\* Whoever finds the event not full finds no more seats in hand than requests in flight.
LEMMA JoinedSeats ==
    ASSUME TypeOK, OverlapBounded, CountConfirmed(rows) < Capacity
    PROVE  Cardinality(Seats) < Capacity + MaxInFlight
<1>1. /\ SeatFound \subseteq InFlight /\ SeatToPass \subseteq InFlight
    BY DEF SeatFound, SeatToPass, InFlight, Running, Requests
<1> DEFINE C == RowsWith(rows, "CONFIRMED")
<1>2. Seats \subseteq C \cup InFlight
    BY <1>1 DEF Seats
<1>3. IsFiniteSet(C) /\ Cardinality(C) \in Nat /\ Cardinality(C) < Capacity
    BY CountsAreNatural DEF CountConfirmed
<1> HIDE DEF C
<1>4. /\ IsFiniteSet(C \cup InFlight)
      /\ Cardinality(C \cup InFlight) = Cardinality(C) + Cardinality(InFlight)
                                           - Cardinality(C \cap InFlight)
    BY <1>3, FiniteRequests, FS_Union
<1>5. Cardinality(C \cap InFlight) \in Nat
    BY <1>3, FS_Intersection, FS_CardinalityType
<1>6. Cardinality(Seats) <= Cardinality(C \cup InFlight)
    BY <1>2, <1>4, FewerOrEqual
<1>7. QED
    BY <1>3, <1>4, <1>5, <1>6, FiniteRequests, BoundsAssumption DEF OverlapBounded

LEMMA JoinedSeatsNext ==
    ASSUME TypeOK', OverlapBounded', CountConfirmed(rows)' < Capacity
    PROVE  Cardinality(Seats') < Capacity + MaxInFlight
<1>1. (TypeOK /\ OverlapBounded /\ CountConfirmed(rows) < Capacity
          => Cardinality(Seats) < Capacity + MaxInFlight)'
    BY JoinedSeats, PTL
<1>2. QED
    BY <1>1

\* What any step does: it brings no new seat, or it finds one while the event is not full, or
\* it is the UPDATE of a cancellation.
LEMMA SeatSteps ==
    ASSUME TablesInv, TypeOK', SeenHolds, [Next]_vars
    PROVE  \/ /\ Gone' \subseteq Gone /\ Served \subseteq Served'
              /\ \/ Cardinality(Seats') <= Cardinality(Seats)
                 \/ CountConfirmed(rows)' < Capacity
           \/ \E c \in Cancels : CancelRow(c)
<1>1. ASSUME Seats' \subseteq Seats PROVE Cardinality(Seats') <= Cardinality(Seats)
    BY <1>1, FiniteRequests, FewerOrEqual
<1>2. ASSUME NEW r \in Registers,
             RegisterStep(r) \/ \E served \in BOOLEAN : RegisterFetchEvent(r, served)
      PROVE  /\ Gone' \subseteq Gone /\ Served \subseteq Served'
             /\ \/ Cardinality(Seats') <= Cardinality(Seats)
                \/ CountConfirmed(rows)' < Capacity
    BY <1>1, <1>2, RegisterSeats
<1>3. ASSUME NEW c \in Cancels,
             CancelFind(c) \/ CancelTicket(c) \/ PromoteSelect(c) \/ PromoteNotify(c)
      PROVE  /\ Gone' \subseteq Gone /\ Served \subseteq Served'
             /\ Cardinality(Seats') <= Cardinality(Seats)
    BY <1>1, <1>3, CancelSeats
<1>4. ASSUME NEW c \in Cancels, PromoteCommit(c)
      PROVE  /\ Gone' \subseteq Gone /\ Served \subseteq Served'
             /\ Cardinality(Seats') <= Cardinality(Seats)
    <2>1. /\ Gone' \subseteq Gone /\ Served' = Served
          /\ c \in Seats /\ Seats' \subseteq (Seats \ {c}) \cup {pick[c]}
        BY <1>4, CommitSeats
    <2>2. Cardinality(Seats') <= Cardinality(Seats)
        BY <2>1, FiniteRequests, Exchanged
    <2>3. QED
        BY <2>1, <2>2
<1>5. ASSUME Crash
      PROVE  /\ Gone' \subseteq Gone /\ Served \subseteq Served'
             /\ Cardinality(Seats') <= Cardinality(Seats)
    BY <1>1, <1>5, CrashSeats
<1>6. CASE UNCHANGED vars
    <2>1. Gone' = Gone /\ Served' = Served /\ Seats' = Seats
        BY <1>6 DEF vars, Gone, Served, Seats, SeatFound, SeatToPass, RowsWith
    <2>2. QED
        BY <1>1, <2>1
<1>7. QED
    BY <1>2, <1>3, <1>4, <1>5, <1>6 DEF Next, CancelStep

LEMMA NextSeats == ASSUME TablesInv, TypeOK', SeatsInv, [Next]_vars PROVE SeatsInv'
<1>1. OverlapBounded' /\ SeenHolds'
    BY NextOverlap, NextSeenHolds DEF TablesInv, SeatsInv
<1> DEFINE s == Cardinality(Seats)     t == Cardinality(Seats')
           g == Cardinality(Gone)      h == Cardinality(Gone')
           a == Cardinality(Served)    b == Cardinality(Served')
<1>2. /\ s \in Nat /\ t \in Nat /\ g \in Nat /\ h \in Nat /\ a \in Nat /\ b \in Nat
      /\ Capacity \in Nat /\ MaxInFlight \in Nat
    BY FiniteRequests, FiniteRequestsNext, BoundsAssumption
<1>3. g <= a /\ s + g < Capacity + MaxInFlight + a
    BY DEF SeatsInv
<1>4. CASE /\ Gone' \subseteq Gone /\ Served \subseteq Served'
           /\ t <= s \/ CountConfirmed(rows)' < Capacity
    <2>1. h <= g /\ a <= b
        BY <1>4, FiniteRequests, FiniteRequestsNext, FewerOrEqual
    <2>2. t <= s \/ t < Capacity + MaxInFlight
        BY <1>1, <1>4, JoinedSeatsNext
    <2> HIDE DEF s, t, g, h, a, b
    <2>3. h <= b /\ t + h < Capacity + MaxInFlight + b
        BY <1>2, <1>3, <2>1, <2>2
    <2>4. QED
        BY <1>1, <2>3 DEF SeatsInv, s, t, g, h, a, b
<1>5. ASSUME NEW c \in Cancels, CancelRow(c) PROVE SeatsInv'
    <2>1. /\ Served' = Served \cup {c} /\ c \notin Served
          /\ Gone' \subseteq Gone \cup {target[c]}
          /\ \/ Seats' \subseteq Seats
             \/ target[c] \in Seats /\ Seats' \subseteq (Seats \ {target[c]}) \cup {c}
             \/ Seats' \subseteq Seats \cup {c} /\ Gone' \subseteq Gone
        BY <1>5, CancelRowSeats DEF SeatsInv
    <2>2. b = a + 1
        BY <2>1, FiniteRequests, FS_AddElement
    <2>3. h <= g + 1
        BY <2>1, FiniteRequests, OneMore
    <2>4. t <= s \/ (t <= s + 1 /\ h <= g)
        <3>1. CASE Seats' \subseteq Seats
            BY <3>1, FiniteRequests, FewerOrEqual
        <3>2. CASE target[c] \in Seats /\ Seats' \subseteq (Seats \ {target[c]}) \cup {c}
            BY <3>2, FiniteRequests, Exchanged
        <3>3. CASE Seats' \subseteq Seats \cup {c} /\ Gone' \subseteq Gone
            BY <3>3, FiniteRequests, FewerOrEqual, OneMore
        <3>4. QED
            BY <2>1, <3>1, <3>2, <3>3
    <2> HIDE DEF s, t, g, h, a, b
    <2>5. h <= b /\ t + h < Capacity + MaxInFlight + b
        BY <1>2, <1>3, <2>2, <2>3, <2>4
    <2>6. QED
        BY <1>1, <2>5 DEF SeatsInv, s, t, g, h, a, b
<1>6. QED
    BY <1>4, <1>5, SeatSteps DEF SeatsInv

\* However requests overlap and the service crashes, an event is overbooked by fewer seats
\* than requests are served at a time, and one for each cancellation that has cancelled nothing
\* (the counts of POST /registrations and the promotion of .../cancel take no lock per event).
THEOREM OverbookingAlwaysBounded == Spec => []OverbookingBounded
<1>1. SeatsInv => OverbookingBounded
    <2>1. RowsWith(rows, "CONFIRMED") \subseteq Seats
        BY DEF Seats
    <2>2. CountConfirmed(rows) <= Cardinality(Seats)
        BY <2>1, FiniteRequests, FewerOrEqual DEF CountConfirmed
    <2>3. CountConfirmed(rows) \in Nat
        BY CountsAreNatural DEF CountConfirmed
    <2>4. QED
        BY <2>2, <2>3, FiniteRequests, BoundsAssumption DEF SeatsInv, OverbookingBounded, Gone
<1>2. TablesInv /\ TablesInv' /\ SeatsInv /\ [Next]_vars => SeatsInv'
    BY NextSeats DEF TablesInv
<1>3. QED
    BY <1>1, <1>2, InitSeats, TablesCorrect, PTL DEF Spec

\* A registration that is about to be cancelled is active, while nobody else cancels it.
StillActive ==
    \A c \in Cancels : pc[c] = "cancelRow" => Active(rows[target[c]])

DistinctInv ==
    /\ OverlapBounded /\ SeenHolds /\ StillActive
    /\ Cardinality(Seats) < Capacity + MaxInFlight

\* Nothing but a cancellation ends a registration.
LEMMA OnlyCancelEnds ==
    ASSUME TablesInv, [Next]_vars, NEW t \in Registers, Active(rows[t]),
           \A d \in Cancels : CancelRow(d) => target[d] # t
    PROVE  Active(rows'[t])
<1>1. CASE rows' = rows
    BY <1>1
<1>2. ASSUME NEW r \in Registers, RegisterInsert(r) PROVE Active(rows'[t])
    <2>1. rows[r] = AbsentRow
        BY <1>2 DEF TablesInv, DraftsFresh, BeforeInsert, RegisterInsert, Goto
    <2>2. r # t
        BY <2>1 DEF Active, AbsentRow
    <2>3. rows'[t] = rows[t]
        BY <1>2, <2>2 DEF TablesInv, TypeOK, RegisterInsert
    <2>4. QED
        BY <2>3
<1>3. ASSUME NEW d \in Cancels, CancelRow(d) PROVE Active(rows'[t])
    <2>1. rows'[t] = rows[t]
        BY <1>3 DEF TablesInv, TypeOK, CancelRow
    <2>2. QED
        BY <2>1
<1>4. ASSUME NEW d \in Cancels, PromoteCommit(d) PROVE Active(rows'[t])
    <2>1. rows'[t] = rows[t] \/ rows'[t] = PromotedRow(rows[t])
        BY <1>4 DEF TablesInv, TypeOK, PromoteCommit
    <2>2. rows[t] \in Row
        BY DEF TablesInv, TypeOK
    <2>3. PromotedRow(rows[t]).status = "CONFIRMED"
        BY <2>2 DEF PromotedRow, Row
    <2>4. QED
        BY <2>1, <2>3 DEF Active
<1>5. QED
    BY <1>1, <1>2, <1>3, <1>4
    DEF Next, RegisterStep, CancelStep, RegisterFetchEvent, RegisterFindActive,
        RegisterCountConfirmed, RegisterCountWaitlisted, RegisterInsertFails, RegisterNotify,
        CancelFind, CancelTicket, PromoteSelect, PromoteNotify, Crash, tables, vars

LEMMA NextStillActive ==
    ASSUME TablesInv, TypeOK', StillActive, CancelsDistinct, [Next]_vars
    PROVE  StillActive'
<1> SUFFICES ASSUME NEW c \in Cancels, pc'[c] = "cancelRow" PROVE Active(rows'[target'[c]])
    BY DEF StillActive
<1>1. CASE rows' = rows /\ Active(rows[target'[c]])
    BY <1>1
<1>2. CASE pc[c] = "cancelRow" /\ target'[c] = target[c]
    <2>1. target[c] \in Registers /\ Active(rows[target[c]])
        BY <1>2 DEF StillActive, TablesInv, TargetsExist
    <2>2. ASSUME NEW d \in Cancels, CancelRow(d) PROVE target[d] # target[c]
        <3>1. pc[d] = "cancelRow" /\ pc'[d] # "cancelRow"
            BY <2>2 DEF TablesInv, TypeOK, CancelRow, AfterCancel, Goto, Requests
        <3>2. QED
            BY <1>2, <3>1 DEF CancelsDistinct
    <2>3. QED
        BY <1>2, <2>1, <2>2, OnlyCancelEnds
<1>3. QED
    BY <1>1, <1>2, OnItsWay

LEMMA NextDistinct ==
    ASSUME TablesInv, TypeOK', DistinctInv, CancelsDistinct, [Next]_vars
    PROVE  DistinctInv'
<1>1. OverlapBounded' /\ SeenHolds' /\ StillActive'
    BY NextOverlap, NextSeenHolds, NextStillActive DEF TablesInv, DistinctInv
<1>2. /\ Cardinality(Seats) \in Nat /\ Cardinality(Seats') \in Nat
      /\ Capacity \in Nat /\ MaxInFlight \in Nat
      /\ Cardinality(Seats) < Capacity + MaxInFlight
    BY FiniteRequests, FiniteRequestsNext, BoundsAssumption DEF DistinctInv
<1>3. ASSUME NEW c \in Cancels, CancelRow(c) PROVE Cardinality(Seats') <= Cardinality(Seats)
    <2>1. rows[target[c]].status # "CANCELLED"
        BY <1>3 DEF DistinctInv, StillActive, Active, CancelRow, Goto
    <2>2. \/ Seats' \subseteq Seats
          \/ target[c] \in Seats /\ Seats' \subseteq (Seats \ {target[c]}) \cup {c}
        BY <1>3, <2>1, CancelRowSeats DEF DistinctInv
    <2>3. QED
        BY <2>2, FiniteRequests, FewerOrEqual, Exchanged
<1>4. Cardinality(Seats') <= Cardinality(Seats) \/ CountConfirmed(rows)' < Capacity
    BY <1>3, SeatSteps DEF DistinctInv
<1>5. Cardinality(Seats') < Capacity + MaxInFlight
    BY <1>1, <1>2, <1>4, JoinedSeatsNext
<1>6. QED
    BY <1>1, <1>5 DEF DistinctInv

\* Unless somebody cancels a registration while a cancellation of it is on its way, an event is
\* overbooked by fewer seats than requests are served at a time.
THEOREM OverbookingIsOverlap == Spec /\ []CancelsDistinct => []OverbookedByOverlap
<1>1. Init => DistinctInv
    <2> SUFFICES ASSUME Init PROVE DistinctInv
        OBVIOUS
    <2>1. Served = {} /\ StillActive
        BY DEF Init, Served, StillActive, Requests
    <2>2. Cardinality(Served) = 0
        BY <2>1, FS_EmptySet
    <2>3. QED
        BY <2>1, <2>2, InitSeats, FiniteRequests, BoundsAssumption DEF SeatsInv, DistinctInv
<1>2. /\ TablesInv /\ TablesInv' /\ DistinctInv /\ CancelsDistinct /\ [Next]_vars
      => DistinctInv'
    BY NextDistinct DEF TablesInv
<1>3. DistinctInv => OverbookedByOverlap
    <2>1. RowsWith(rows, "CONFIRMED") \subseteq Seats
        BY DEF Seats
    <2>2. CountConfirmed(rows) <= Cardinality(Seats)
        BY <2>1, FiniteRequests, FewerOrEqual DEF CountConfirmed
    <2>3. CountConfirmed(rows) \in Nat
        BY CountsAreNatural DEF CountConfirmed
    <2>4. QED
        BY <2>2, <2>3, FiniteRequests, BoundsAssumption DEF DistinctInv, OverbookedByOverlap
<1>4. QED
    BY <1>1, <1>2, <1>3, TablesCorrect, PTL DEF Spec

-----------------------------------------------------------------------------
(***************************************************************************)
(* The waitlist, when requests do not overlap                              *)
(***************************************************************************)

\* A set of natural numbers has a least one.
LEMMA LeastNumber ==
    ASSUME NEW S \in SUBSET Nat, S # {}
    PROVE  \E x \in S : \A y \in S : x <= y
<1> DEFINE less == {p \in Nat \X Nat : p[1] < p[2]}
<1>1. IsWellFoundedOn(less, Nat)
    <2>1. less = OpToRel(<, Nat)
        BY DEF OpToRel
    <2>2. QED
        BY <2>1, NatLessThanWellFounded
<1>2. \A x, y \in Nat : y < x => <<y, x>> \in less
    OBVIOUS
<1> HIDE DEF less
<1>3. PICK x \in S : \A y \in S : <<y, x>> \notin less
    BY <1>1, WFMin
<1>4. ASSUME NEW y \in S PROVE x <= y
    <2>1. x \in Nat /\ y \in Nat
        OBVIOUS
    <2>2. ~(y < x)
        BY <1>2, <1>3, <2>1, Zenon
    <2>3. QED
        BY <2>1, <2>2
<1>5. QED
    BY <1>4

\* If anybody waits whose row is not locked, somebody is first in line.
LEMMA SomebodyIsFirst ==
    ASSUME NEW table \in [Registers -> Row], NEW locked,
           RowsWith(table, "WAITLISTED") \ locked # {}
    PROVE  FirstInLine(table, locked) # {}
<1> DEFINE waiting == RowsWith(table, "WAITLISTED") \ locked
<1>1. waiting \subseteq Registers /\ waiting # {}
    BY DEF RowsWith
<1>2. \A r \in Registers : table[r].position \in Nat /\ table[r].stamp \in Nat
    BY DEF Row
<1>3. FirstInLine(table, locked) =
          {r \in waiting : \A q \in waiting : Precedes(table[r], table[q])}
    BY DEF FirstInLine
<1> HIDE DEF waiting
<1> DEFINE positions == {table[r].position : r \in waiting}
<1>4. PICK p \in positions : \A x \in positions : p <= x
    <2>1. positions \in SUBSET Nat /\ positions # {}
        BY <1>1, <1>2
    <2> HIDE DEF positions
    <2>2. QED
        BY <2>1, LeastNumber
<1> DEFINE front == {r \in waiting : table[r].position = p}
           stamps == {table[r].stamp : r \in front}
<1>5. PICK s \in stamps : \A x \in stamps : s <= x
    <2>1. stamps \in SUBSET Nat /\ stamps # {}
        BY <1>1, <1>2, <1>4
    <2> HIDE DEF stamps
    <2>2. QED
        BY <2>1, LeastNumber
<1>6. PICK r \in front : table[r].stamp = s
    BY <1>5
<1>7. ASSUME NEW q \in waiting PROVE Precedes(table[r], table[q])
    <2>1. table[q].position \in Nat /\ table[r].position = p /\ p <= table[q].position
        BY <1>1, <1>2, <1>4, <1>6, <1>7
    <2>2. table[q].position = p => table[r].stamp <= table[q].stamp
        BY <1>5, <1>6, <1>7
    <2>3. QED
        BY <1>1, <1>2, <1>6, <2>1, <2>2 DEF Precedes
<1>8. r \in FirstInLine(table, locked)
    BY <1>3, <1>6, <1>7
<1>9. QED
    BY <1>8

\* A handler that has freed a seat, or is about to give it away.
Promoting(c) ==
    \/ pc[c] = "cancelTicket" /\ seen[c].status = "CONFIRMED"
    \/ pc[c] \in {"selectNext", "promoteNext"}

\* While somebody waits, every seat is taken but the one that is being passed on.
SeatPassedOn ==
    crashes = 0 /\ RowsWith(rows, "WAITLISTED") # {} =>
        \/ CountConfirmed(rows) = Capacity
        \/ CountConfirmed(rows) = Capacity - 1 /\ \E c \in Cancels : Promoting(c)

\* Whoever is about to be put on the waitlist has found the event full, and it still is.
WaitersFoundFull ==
    \A r \in Registers :
        pc[r] = "insert" /\ draft[r].status = "WAITLISTED" => CountConfirmed(rows) = Capacity

StrandInv == SeatPassedOn /\ WaitersFoundFull

LEMMA InitStrand == Init => StrandInv
<1>1. Init => RowsWith(rows, "WAITLISTED") = {}
    BY DEF Init, RowsWith, AbsentRow
<1>2. QED
    BY <1>1 DEF Init, StrandInv, SeatPassedOn, WaitersFoundFull, Requests

\* Steps after which the same rows are there and the same seat is being passed on.
LEMMA RowsUnchangedStrand ==
    ASSUME StrandInv, UNCHANGED <<rows, crashes>>,
           \A c \in Cancels : Promoting(c) => Promoting(c)'
    PROVE  SeatPassedOn'
<1>1. /\ CountConfirmed(rows)' = CountConfirmed(rows)
      /\ RowsWith(rows, "WAITLISTED")' = RowsWith(rows, "WAITLISTED")
    BY DEF CountConfirmed, RowsWith
<1>2. QED
    BY <1>1 DEF StrandInv, SeatPassedOn

LEMMA RegisterStrand ==
    ASSUME TablesInv, SerialInv, SerialInv', StrandInv, NEW r \in Registers, RegisterStep(r)
    PROVE  StrandInv'
<1>1. TypeOK
    BY DEF TablesInv
<1>2. r \in Requests /\ Running(r) /\ \E next : pc' = [pc EXCEPT ![r] = next]
    BY DEF RegisterStep, RegisterFindActive, RegisterCountConfirmed, RegisterCountWaitlisted,
        RegisterInsert, RegisterInsertFails, RegisterNotify, Goto, Running, Requests
<1>3. /\ \A q \in Registers \ {r} : pc'[q] \in {"idle", "done", "dropped"}
      /\ \A c \in Cancels : ~Promoting(c)
    <2>1. \A h \in Requests \ {r} : ~Running(h) /\ pc'[h] \in {"idle", "done", "dropped"}
        BY <1>1, <1>2, OthersWait DEF SerialInv, OneAtATime
    <2>2. \A c \in Cancels : ~Running(c)
        BY <2>1, CancelsAssumption DEF Requests
    <2>3. QED
        BY <2>1, <2>2 DEF Running, Requests, Promoting
<1>4. CASE UNCHANGED rows /\ (pc'[r] = "insert" => RegisterCountWaitlisted(r))
    <2>1. SeatPassedOn'
        BY <1>3, <1>4, RowsUnchangedStrand
        DEF RegisterStep, RegisterFindActive, RegisterCountConfirmed, RegisterCountWaitlisted,
            RegisterInsert, RegisterInsertFails, RegisterNotify
    <2>2. CountConfirmed(rows)' = CountConfirmed(rows)
        BY <1>4 DEF CountConfirmed, RowsWith
    <2>3. ASSUME RegisterCountWaitlisted(r), draft'[r].status = "WAITLISTED"
          PROVE  CountConfirmed(rows) = Capacity
        <3> DEFINE status == IF confirmedSeen[r] < Capacity THEN "CONFIRMED" ELSE "WAITLISTED"
        <3>1. draft' = [draft EXCEPT ![r] = NewRow(status, CountWaitlisted(rows) + 1, now')]
            BY <2>3 DEF RegisterCountWaitlisted, Admission
        <3>2. draft'[r] = NewRow(status, CountWaitlisted(rows) + 1, now')
            BY <1>1, <3>1 DEF TypeOK
        <3>3. status = "WAITLISTED"
            BY <2>3, <3>2, NewRowFields
        <3>4. confirmedSeen[r] = CountConfirmed(rows)
            BY <2>3 DEF RegisterCountWaitlisted, Goto, SerialInv, ReadsFresh
        <3>5. CountConfirmed(rows) \in Nat /\ CountConfirmed(rows) <= Capacity
            BY CountsAreNatural DEF CountConfirmed, SerialInv, CapacityRespected
        <3>6. QED
            BY <3>3, <3>4, <3>5, BoundsAssumption
    <2>4. WaitersFoundFull'
        BY <1>3, <1>4, <2>2, <2>3 DEF WaitersFoundFull
    <2>5. QED
        BY <2>1, <2>4 DEF StrandInv
<1>5. CASE RegisterInsert(r) /\ rows' = [rows EXCEPT ![r] = draft[r]]
    <2>1. /\ pc[r] = "insert" /\ pc'[r] # "insert" /\ crashes' = crashes
          /\ rows \in [Registers -> Row] /\ rows' \in [Registers -> Row]
          /\ rows[r].status = "ABSENT"
          /\ rows'[r] = draft[r]
          /\ draft[r].status \in {"CONFIRMED", "WAITLISTED"}
          /\ \A q \in Registers \ {r} : rows'[q] = rows[q]
        <3>1. pc[r] = "insert" /\ pc'[r] # "insert" /\ crashes' = crashes
            BY <1>1, <1>5 DEF RegisterInsert, AfterInsert, Goto, TypeOK, Requests
        <3>2. rows[r].status = "ABSENT" /\ draft[r].status \in {"CONFIRMED", "WAITLISTED"}
            BY <3>1 DEF TablesInv, DraftsFresh, BeforeInsert, AbsentRow, Active
        <3>3. QED
            BY <1>1, <1>5, <3>1, <3>2 DEF TypeOK
    <2>2. /\ CountConfirmed(rows) \in Nat
          /\ draft[r].status = "CONFIRMED" => CountConfirmed(rows') = CountConfirmed(rows) + 1
          /\ draft[r].status # "CONFIRMED" => CountConfirmed(rows') = CountConfirmed(rows)
        BY <2>1, CountAfter
    <2>3. /\ CountConfirmed(rows)' = CountConfirmed(rows')
          /\ RowsWith(rows, "WAITLISTED")' = RowsWith(rows', "WAITLISTED")
        BY DEF CountConfirmed, RowsWith
    <2>4. WaitersFoundFull'
        BY <1>3, <2>1 DEF WaitersFoundFull
    <2>5. SeatPassedOn'
        <3>1. CASE draft[r].status = "CONFIRMED"
            <4>1. RowsWith(rows', "WAITLISTED") = RowsWith(rows, "WAITLISTED")
                BY <2>1, <3>1 DEF RowsWith
            <4>2. CountConfirmed(rows) < Capacity
                BY <2>1, <3>1 DEF SerialInv, ReadsFresh
            <4>3. crashes = 0 => RowsWith(rows, "WAITLISTED") = {}
                BY <1>3, <4>2, BoundsAssumption DEF StrandInv, SeatPassedOn
            <4>4. QED
                BY <2>1, <2>3, <4>1, <4>3 DEF SeatPassedOn
        <3>2. CASE draft[r].status = "WAITLISTED"
            <4>1. CountConfirmed(rows) = Capacity
                BY <2>1, <3>2 DEF StrandInv, WaitersFoundFull
            <4>2. QED
                BY <2>2, <2>3, <3>2, <4>1 DEF SeatPassedOn
        <3>3. QED
            BY <2>1, <3>1, <3>2
    <2>6. QED
        BY <2>4, <2>5 DEF StrandInv
<1>6. pc'[r] = "insert" => RegisterCountWaitlisted(r)
    BY <1>1 DEF RegisterStep, RegisterFindActive, RegisterCountConfirmed,
        RegisterInsert, AfterInsert, RegisterInsertFails, RegisterNotify, Goto, TypeOK, Requests
<1>7. QED
    BY <1>4, <1>5, <1>6
    DEF RegisterStep, RegisterFindActive, RegisterCountConfirmed, RegisterCountWaitlisted,
        RegisterInsert, RegisterInsertFails, RegisterNotify, tables

LEMMA CancelStrand ==
    ASSUME TablesInv, SerialInv, SerialInv', StrandInv, NEW c \in Cancels, CancelStep(c)
    PROVE  StrandInv'
<1>1. TypeOK
    BY DEF TablesInv
<1>2. c \in Requests /\ Running(c) /\ \E next : pc' = [pc EXCEPT ![c] = next]
    BY DEF CancelStep, CancelRow, CancelTicket, PromoteSelect, PromoteCommit, PromoteNotify,
        Goto, Running, Requests
<1>3. \A h \in Requests \ {c} : ~Running(h) /\ pc'[h] \in {"idle", "done", "dropped"}
    BY <1>1, <1>2, OthersWait DEF SerialInv, OneAtATime
<1>4. WaitersFoundFull'
    BY <1>3, CancelsAssumption DEF WaitersFoundFull, Requests
<1>5. \A d \in Cancels \ {c} : ~Promoting(d)
    BY <1>3 DEF Running, Requests, Promoting
<1>6. CountConfirmed(rows) \in Nat /\ CountConfirmed(rows) <= Capacity
    BY CountsAreNatural DEF CountConfirmed, SerialInv, CapacityRespected
<1>7. CASE CancelRow(c)
    <2>0. PICK t \in Registers : t = target[c]
        BY <1>7 DEF TablesInv, TargetsExist, CancelRow, Goto
    <2>1. /\ pc[c] = "cancelRow" /\ crashes' = crashes
          /\ seen[c] = rows[t]
          /\ rows[t].status = "CONFIRMED" =>
                pc'[c] = "selectNext" \/ (pc'[c] = "cancelTicket" /\ seen'[c] = seen[c])
        BY <1>1, <1>7, <2>0
        DEF CancelRow, AfterCancel, Goto, TypeOK, Requests, SerialInv, ReadsFresh
    <2>2. /\ rows \in [Registers -> Row]
          /\ rows' \in [Registers -> Row]
          /\ rows'[t].status = "CANCELLED"
          /\ \A q \in Registers \ {t} : rows'[q] = rows[q]
        <3>1. rows' = [rows EXCEPT ![t] = CancelledRow(rows[t])]
            BY <1>7, <2>0 DEF CancelRow
        <3>2. CancelledRow(rows[t]) \in Row /\ CancelledRow(rows[t]).status = "CANCELLED"
            BY <1>1 DEF TypeOK, CancelledRow, Row, RowStatuses
        <3>3. QED
            BY <1>1, <3>1, <3>2 DEF TypeOK
    <2>3. /\ rows[t].status = "CONFIRMED" => CountConfirmed(rows') = CountConfirmed(rows) - 1
          /\ rows[t].status # "CONFIRMED" => CountConfirmed(rows') = CountConfirmed(rows)
        BY <2>2, CountAfter
    <2>4. /\ CountConfirmed(rows)' = CountConfirmed(rows')
          /\ RowsWith(rows, "WAITLISTED")' \subseteq RowsWith(rows, "WAITLISTED")
        BY <2>2 DEF CountConfirmed, RowsWith
    <2>5. ~Promoting(c)
        BY <2>1 DEF Promoting
    <2>6. crashes = 0 /\ RowsWith(rows, "WAITLISTED") # {} => CountConfirmed(rows) = Capacity
        BY <1>5, <2>5 DEF StrandInv, SeatPassedOn
    <2>7. rows[t].status = "CONFIRMED" => Promoting(c)'
        BY <2>1 DEF Promoting
    <2>8. SeatPassedOn'
        BY <2>1, <2>3, <2>4, <2>6, <2>7 DEF SeatPassedOn
    <2>9. QED
        BY <1>4, <2>8 DEF StrandInv
<1>8. CASE PromoteCommit(c)
    <2>0. PICK r \in Registers : r = pick[c]
        BY <1>8 DEF TablesInv, PicksWaiting, PromoteCommit, Goto
    <2>1. /\ crashes' = crashes
          /\ rows[r].status = "WAITLISTED"
        BY <1>8, <2>0 DEF PromoteCommit, Goto, TablesInv, PicksWaiting
    <2>2. /\ rows \in [Registers -> Row]
          /\ rows' \in [Registers -> Row]
          /\ rows'[r].status = "CONFIRMED"
          /\ \A q \in Registers \ {r} : rows'[q] = rows[q]
        <3>1. rows' = [rows EXCEPT ![r] = PromotedRow(rows[r])]
            BY <1>8, <2>0 DEF PromoteCommit
        <3>2. PromotedRow(rows[r]) \in Row /\ PromotedRow(rows[r]).status = "CONFIRMED"
            BY <1>1 DEF TypeOK, PromotedRow, Row, RowStatuses
        <3>3. QED
            BY <1>1, <3>1, <3>2 DEF TypeOK
    <2>3. CountConfirmed(rows') = CountConfirmed(rows) + 1
        BY <2>1, <2>2, CountAfter
    <2>4. CountConfirmed(rows)' = CountConfirmed(rows')
        BY DEF CountConfirmed, RowsWith
    <2>5. CountConfirmed(rows') <= Capacity
        BY <2>4 DEF SerialInv, CapacityRespected
    <2>6. RowsWith(rows, "WAITLISTED") # {}
        BY <2>1 DEF RowsWith
    <2>7. SeatPassedOn'
        BY <1>6, <2>1, <2>3, <2>4, <2>5, <2>6, BoundsAssumption DEF StrandInv, SeatPassedOn
    <2>8. QED
        BY <1>4, <2>7 DEF StrandInv
<1>9. CASE PromoteSelect(c) /\ pc'[c] = "done"
    <2>1. /\ pc[c] = "selectNext" /\ rows' = rows
          /\ FirstInLine(rows, Locked) = {}
        BY <1>1, <1>9 DEF PromoteSelect, Goto, tables, TypeOK, Requests
    <2>2. Locked = {}
        BY <1>3, <2>1 DEF Locked, Running, Requests
    <2>3. RowsWith(rows, "WAITLISTED") \ {} = {}
        BY <1>1, <2>1, <2>2, SomebodyIsFirst DEF TypeOK
    <2>4. RowsWith(rows, "WAITLISTED")' = {}
        BY <2>1, <2>3 DEF RowsWith
    <2>5. QED
        BY <1>4, <2>4 DEF StrandInv, SeatPassedOn
<1>10. CASE CancelTicket(c) \/ (PromoteSelect(c) /\ pc'[c] # "done") \/ PromoteNotify(c)
    <2>1. UNCHANGED <<rows, crashes>>
        BY <1>10 DEF CancelTicket, PromoteSelect, PromoteNotify, tables
    <2>2. Promoting(c) => Promoting(c)'
        BY <1>1, <1>10
        DEF CancelTicket, AfterCancel, PromoteSelect, PromoteNotify, Goto, TypeOK, Requests,
            Promoting
    <2>3. \A d \in Cancels : Promoting(d) => Promoting(d)'
        BY <1>5, <2>2
    <2>4. QED
        BY <1>4, <2>1, <2>3, RowsUnchangedStrand DEF StrandInv
<1>11. QED
    BY <1>7, <1>8, <1>9, <1>10 DEF CancelStep

\* While requests do not overlap and nothing crashes, a seat that is given back goes to
\* somebody who waits before the request is answered, and nobody is put on the waitlist
\* of an event that has a seat.
THEOREM SerialWaitlist ==
    ASSUME MaxInFlight = 1
    PROVE  Spec => []NoStrandedSeat
<1>1. TablesInv /\ SerialInv /\ StrandInv /\ [Next]_vars => StrandInv'
    <2> SUFFICES ASSUME TablesInv, SerialInv, StrandInv, [Next]_vars PROVE StrandInv'
        OBVIOUS
    <2>1. SerialInv'
        BY NextSerial
    <2>2. CASE UNCHANGED vars
        <3>1. CountConfirmed(rows)' = CountConfirmed(rows)
            BY <2>2 DEF vars, CountConfirmed, RowsWith
        <3>2. SeatPassedOn'
            BY <2>2, RowsUnchangedStrand DEF vars, Promoting
        <3>3. QED
            BY <2>2, <3>1, <3>2 DEF vars, StrandInv, WaitersFoundFull
    <2>3. CASE Crash
        <3>1. crashes' # 0 /\ \A r \in Registers : pc'[r] # "insert"
            BY <2>3 DEF Crash, Running, TablesInv, TypeOK, Requests
        <3>2. QED
            BY <3>1 DEF StrandInv, SeatPassedOn, WaitersFoundFull
    <2>4. ASSUME NEW r \in Registers, NEW served \in BOOLEAN, RegisterFetchEvent(r, served)
          PROVE  StrandInv'
        <3>1. /\ UNCHANGED <<rows, crashes, draft, seen>>
              /\ \A h \in Requests : pc'[h] # pc[h] => pc[h] = "idle" /\ pc'[h] # "insert"
            BY <2>4 DEF RegisterFetchEvent, Goto, TablesInv, TypeOK, tables, registerLocals, cancelLocals
        <3>2. SeatPassedOn'
            BY <3>1, RowsUnchangedStrand DEF Promoting, Requests
        <3>3. CountConfirmed(rows)' = CountConfirmed(rows)
            BY <3>1 DEF CountConfirmed, RowsWith
        <3>4. QED
            BY <3>1, <3>2, <3>3 DEF StrandInv, WaitersFoundFull, Requests
    <2>5. ASSUME NEW c \in Cancels, CancelFind(c)
          PROVE  StrandInv'
        <3>1. /\ UNCHANGED <<rows, crashes, draft>>
              /\ pc[c] = "idle"
              /\ \A d \in Cancels \ {c} : seen'[d] = seen[d]
              /\ \A h \in Requests : pc'[h] # pc[h] => h = c /\ pc'[h] # "insert"
            BY <2>5 DEF CancelFind, Goto, TablesInv, TypeOK, tables, registerLocals
        <3>2. SeatPassedOn'
            BY <3>1, RowsUnchangedStrand DEF Promoting, Requests
        <3>3. CountConfirmed(rows)' = CountConfirmed(rows)
            BY <3>1 DEF CountConfirmed, RowsWith
        <3>4. QED
            BY <3>1, <3>2, <3>3 DEF StrandInv, WaitersFoundFull, Requests
    <2>6. QED
        BY <2>1, <2>2, <2>3, <2>4, <2>5, RegisterStrand, CancelStrand DEF Next
<1>2. StrandInv => NoStrandedSeat
    <2> SUFFICES ASSUME StrandInv, crashes = 0, InFlight = {}, CountConfirmed(rows) < Capacity
                 PROVE  CountWaitlisted(rows) = 0
        BY DEF NoStrandedSeat
    <2>1. \A c \in Cancels : ~Promoting(c)
        BY DEF InFlight, Running, Requests, Promoting
    <2>2. RowsWith(rows, "WAITLISTED") = {}
        BY <2>1, BoundsAssumption DEF StrandInv, SeatPassedOn
    <2>3. QED
        BY <2>2, FS_EmptySet DEF CountWaitlisted
<1>3. QED
    BY <1>1, <1>2, InitStrand, SerialCorrect, TablesCorrect, PTL DEF Spec

-----------------------------------------------------------------------------
(***************************************************************************)
(* The handlers, served one after the other, implement the desk            *)
(***************************************************************************)


\* The desk has the tables and the SQL statements of the handlers.
LEMMA DeskWords ==
    /\ Desk!AbsentRow = AbsentRow
    /\ \A table : /\ Desk!CountConfirmed(table) = CountConfirmed(table)
                  /\ Desk!CountWaitlisted(table) = CountWaitlisted(table)
    /\ \A table, person : Desk!ActiveRowsOf(table, person) = ActiveRowsOf(table, person)
    /\ \A table, locked : Desk!FirstInLine(table, locked) = FirstInLine(table, locked)
    /\ \A status, position, stamp :
          Desk!NewRow(status, position, stamp) = NewRow(status, position, stamp)
    /\ \A row : /\ Desk!Active(row) <=> Active(row)
                /\ Desk!CancelledRow(row) = CancelledRow(row)
                /\ Desk!PromotedRow(row) = PromotedRow(row)
<1>1. Desk!AbsentRow = AbsentRow
    BY DEF Desk!AbsentRow, AbsentRow
<1>2. \A table, status : Desk!RowsWith(table, status) = RowsWith(table, status)
    BY DEF Desk!RowsWith, RowsWith
<1>3. \A table : /\ Desk!CountConfirmed(table) = CountConfirmed(table)
                 /\ Desk!CountWaitlisted(table) = CountWaitlisted(table)
    BY <1>2
    DEF Desk!CountConfirmed, CountConfirmed, Desk!CountWaitlisted, CountWaitlisted,
        Desk!Cardinality, Cardinality, Desk!IsFiniteSet, IsFiniteSet
<1>4. \A row : /\ Desk!Active(row) <=> Active(row)
               /\ Desk!CancelledRow(row) = CancelledRow(row)
               /\ Desk!PromotedRow(row) = PromotedRow(row)
    BY DEF Desk!Active, Active, Desk!CancelledRow, CancelledRow, Desk!PromotedRow, PromotedRow
<1>5. \A table, person : Desk!ActiveRowsOf(table, person) = ActiveRowsOf(table, person)
    BY <1>4 DEF Desk!ActiveRowsOf, ActiveRowsOf
<1>6. \A a, b : Desk!Precedes(a, b) <=> Precedes(a, b)
    BY DEF Desk!Precedes, Precedes
<1>7. \A table, locked : Desk!FirstInLine(table, locked) = FirstInLine(table, locked)
    BY <1>2, <1>6 DEF Desk!FirstInLine, FirstInLine
<1>8. \A status, position, stamp :
          Desk!NewRow(status, position, stamp) = NewRow(status, position, stamp)
    BY DEF Desk!NewRow, NewRow
<1>9. QED
    BY <1>1, <1>3, <1>4, <1>5, <1>7, <1>8

-----------------------------------------------------------------------------
(***************************************************************************)
(* What the handlers know of the tables, when requests do not overlap      *)
(***************************************************************************)
\* What a handler is about to insert is what the desk would decide now.
Foreseen ==
    \A r \in Registers : pc[r] = "insert" =>
        \E stamp \in Nat :
            draft[r] = Admission(CountConfirmed(rows), CountWaitlisted(rows), stamp)

\* A cancel handler about to change a row has read it active.
ReadActive == \A c \in Cancels : pc[c] = "cancelRow" => Active(seen[c])

\* A cancellation that is not complete has cancelled a row with a seat and a ticket.
Underway ==
    \A c \in Unfinished :
        /\ target[c] \in Registers
        /\ seen[c].status = "CONFIRMED"
        /\ seen[c].ticketed
        /\ rows[target[c]] = CancelledRow(seen[c])
        /\ tickets[target[c]] = IF pc[c] = "cancelTicket" THEN "ISSUED" ELSE "CANCELLED"

\* The row that is about to be promoted is the first in line.
PickedFirst ==
    \A c \in Cancels : pc[c] = "promoteNext" => pick[c] \in FirstInLine(rows, {})

DeskInv == Foreseen /\ ReadActive /\ Underway /\ PickedFirst

LEMMA InitDesk == Init => DeskInv
BY CancelsAssumption
DEF Init, DeskInv, Foreseen, ReadActive, Underway, PickedFirst, Unfinished, Requests

\* Only the handler that is served can have a cancellation that is not complete.
LEMMA ServedAlone ==
    ASSUME SerialInv, NEW h \in Requests, Running(h)
    PROVE  /\ h \notin Unfinished => Unfinished = {}
           /\ h \in Unfinished => Unfinished = {h}
BY DEF SerialInv, OneAtATime, Unfinished, Running, Requests

\* Where a step of one handler leaves the others.
LEMMA StepAlone ==
    ASSUME TablesInv, SerialInv, NEW h \in Requests, Running(h), NEW next,
           pc' = [pc EXCEPT ![h] = next]
    PROVE  /\ pc'[h] = next
           /\ \A g \in Requests \ {h} :
                 pc[g] \in {"idle", "done", "dropped"} /\ pc'[g] = pc[g]
BY DEF SerialInv, OneAtATime, Running, TablesInv, TypeOK

LEMMA RegisterDesk ==
    ASSUME TablesInv, SerialInv, DeskInv, NEW r \in Registers, RegisterStep(r)
    PROVE  DeskInv'
<1>1. r \in Requests /\ r \notin Cancels /\ Running(r)
    BY CancelsAssumption
    DEF RegisterStep, RegisterFindActive, RegisterCountConfirmed, RegisterCountWaitlisted,
        RegisterInsert, RegisterInsertFails, RegisterNotify, Goto, Running, Requests
<1>2. PICK next : pc' = [pc EXCEPT ![r] = next]
    BY DEF RegisterStep, RegisterFindActive, RegisterCountConfirmed, RegisterCountWaitlisted,
        RegisterInsert, RegisterInsertFails, RegisterNotify, Goto
<1>3. pc'[r] = next /\ \A g \in Requests \ {r} : pc'[g] \in {"idle", "done", "dropped"}
    BY <1>1, <1>2, StepAlone
<1>4. \A c \in Cancels : pc'[c] \in {"idle", "done", "dropped"}
    BY <1>1, <1>3 DEF Requests
<1>5. ReadActive' /\ Underway' /\ PickedFirst'
    BY <1>4 DEF ReadActive, Underway, PickedFirst, Unfinished
<1>6. CASE pc'[r] # "insert"
    BY <1>1, <1>3, <1>5, <1>6 DEF DeskInv, Foreseen, Requests
<1>7. CASE pc'[r] = "insert"
    <2>1. RegisterCountWaitlisted(r)
        BY <1>1, <1>7
        DEF RegisterStep, RegisterFindActive, RegisterCountConfirmed, RegisterInsert, AfterInsert,
            RegisterInsertFails, RegisterNotify, Goto, TablesInv, TypeOK
    <2>2. /\ pc[r] = "countWaitlisted" /\ rows' = rows
          /\ draft' = [draft EXCEPT ![r] =
                          Admission(confirmedSeen[r], CountWaitlisted(rows), now')]
        BY <2>1 DEF RegisterCountWaitlisted, Goto, tables
    <2>3. now' \in Nat
        <3>1. PICK d \in ClockSteps : now' = now + d
            BY <2>1 DEF RegisterCountWaitlisted
        <3>2. QED
            BY <3>1, BoundsAssumption DEF TablesInv, TypeOK
    <2>4. draft'[r] = Admission(CountConfirmed(rows), CountWaitlisted(rows), now')
        BY <2>2 DEF SerialInv, ReadsFresh, TablesInv, TypeOK
    <2>5. /\ CountConfirmed(rows)' = CountConfirmed(rows)
          /\ CountWaitlisted(rows)' = CountWaitlisted(rows)
        BY <2>2 DEF CountConfirmed, CountWaitlisted, RowsWith
    <2>6. Foreseen'
        BY <1>1, <1>3, <2>3, <2>4, <2>5 DEF Foreseen, Requests, Admission
    <2>7. QED
        BY <1>5, <2>6 DEF DeskInv
<1>8. QED
    BY <1>6, <1>7

LEMMA CancelDesk ==
    ASSUME TablesInv, SerialInv, DeskInv, NEW c \in Cancels, CancelStep(c)
    PROVE  DeskInv'
<1>1. c \in Requests /\ c \notin Registers /\ Running(c)
    BY CancelsAssumption
    DEF CancelStep, CancelRow, CancelTicket, PromoteSelect, PromoteCommit, PromoteNotify, Goto,
        Running, Requests
<1>2. PICK next : pc' = [pc EXCEPT ![c] = next]
    BY DEF CancelStep, CancelRow, CancelTicket, PromoteSelect, PromoteCommit, PromoteNotify, Goto
<1>3. pc'[c] = next /\ \A g \in Requests \ {c} : pc'[g] \in {"idle", "done", "dropped"}
    BY <1>1, <1>2, StepAlone
<1>4. \A r \in Registers : pc'[r] \in {"idle", "done", "dropped"}
    BY <1>1, <1>3 DEF Requests
<1>5. Foreseen'
    BY <1>4 DEF Foreseen
<1>6. \A d \in Cancels \ {c} : pc'[d] \in {"idle", "done", "dropped"}
    BY <1>3 DEF Requests
<1>7. ReadActive'
    <2>1. pc'[c] # "cancelRow"
        BY <1>1
        DEF CancelStep, CancelRow, CancelTicket, AfterCancel, PromoteSelect, PromoteCommit,
            PromoteNotify, Goto, TablesInv, TypeOK
    <2>2. QED
        BY <1>6, <2>1 DEF ReadActive
<1>8. CASE CancelRow(c)
    <2> DEFINE t == target[c]
    <2>1. /\ pc[c] = "cancelRow" /\ tickets' = tickets
          /\ rows' = [rows EXCEPT ![t] = CancelledRow(rows[t])]
          /\ pc'[c] = IF rows[t].ticketed THEN "cancelTicket" ELSE AfterCancel(c)
          /\ pc'[c] # "done" => target' = target /\ seen' = seen
        BY <1>1, <1>8
        DEF CancelRow, TicketReturned, Goto, TablesInv, TypeOK
    <2>2. t \in Registers /\ seen[c] = rows[t] /\ Active(seen[c])
        BY <2>1 DEF TablesInv, TargetsExist, SerialInv, ReadsFresh, DeskInv, ReadActive
    <2>3. CASE rows[t].ticketed
        <3>1. seen[c].status = "CONFIRMED" /\ seen[c].ticketed /\ tickets[t] = "ISSUED"
            BY <2>2, <2>3 DEF TablesInv, TicketsMatchRows, Active
        <3>2. rows'[t] = CancelledRow(seen[c])
            BY <2>1, <2>2 DEF TablesInv, TypeOK
        <3>3. pc'[c] = "cancelTicket" /\ UNCHANGED <<target, seen, tickets>>
            BY <2>1, <2>3
        <3>4. Underway'
            BY <1>6, <2>2, <3>1, <3>2, <3>3 DEF Underway, Unfinished, CancelledRow
        <3>5. PickedFirst'
            BY <1>6, <3>3 DEF PickedFirst
        <3>6. QED
            BY <1>5, <1>7, <3>4, <3>5 DEF DeskInv
    <2>4. CASE ~rows[t].ticketed
        <3>1. seen[c].status # "CONFIRMED"
            BY <2>2, <2>4 DEF TablesInv, TicketsMatchRows
        <3>2. pc'[c] = "done"
            BY <2>1, <2>4, <3>1 DEF AfterCancel
        <3>3. QED
            BY <1>5, <1>6, <1>7, <3>2 DEF DeskInv, Underway, PickedFirst, Unfinished
    <2>5. QED
        BY <2>3, <2>4
<1>9. CASE CancelTicket(c)
    <2> DEFINE t == target[c]
    <2>1. c \in Unfinished
        BY <1>9 DEF CancelTicket, Goto, Unfinished
    <2>2. /\ t \in Registers /\ seen[c].status = "CONFIRMED" /\ seen[c].ticketed
          /\ rows[t] = CancelledRow(seen[c])
        BY <2>1 DEF DeskInv, Underway
    <2>3. /\ pc'[c] = "selectNext" /\ UNCHANGED <<rows, target, seen>>
          /\ tickets' = [tickets EXCEPT ![t] = "CANCELLED"]
        BY <1>1, <1>9, <2>2 DEF CancelTicket, AfterCancel, Goto, TablesInv, TypeOK
    <2>4. tickets'[t] = "CANCELLED"
        BY <2>2, <2>3 DEF TablesInv, TypeOK
    <2>5. Underway'
        BY <1>6, <2>2, <2>3, <2>4 DEF Underway, Unfinished, CancelledRow
    <2>6. PickedFirst'
        BY <1>6, <2>3 DEF PickedFirst
    <2>7. QED
        BY <1>5, <1>7, <2>5, <2>6 DEF DeskInv
<1>10. CASE PromoteSelect(c)
    <2>1. /\ pc[c] = "selectNext" /\ UNCHANGED <<rows, tickets>>
          /\ \/ pc'[c] = "done"
             \/ /\ pc'[c] = "promoteNext" /\ UNCHANGED <<target, seen>>
                /\ pick'[c] \in FirstInLine(rows, Locked)
        BY <1>1, <1>10 DEF PromoteSelect, Goto, tables, TablesInv, TypeOK
    <2>2. Locked = {}
        BY <1>1, <2>1 DEF Locked, SerialInv, OneAtATime, Running, Requests
    <2>3. CASE pc'[c] = "done"
        BY <1>5, <1>6, <1>7, <2>3 DEF DeskInv, Underway, PickedFirst, Unfinished
    <2>4. CASE pc'[c] = "promoteNext"
        <3>1. FirstInLine(rows, {})' = FirstInLine(rows, {})
            BY <2>1 DEF FirstInLine, RowsWith, Precedes
        <3>2. PickedFirst'
            BY <1>6, <2>1, <2>2, <2>4, <3>1 DEF PickedFirst
        <3>3. c \in Unfinished
            BY <2>1 DEF Unfinished
        <3>4. Underway'
            BY <1>6, <2>1, <2>4, <3>3 DEF DeskInv, Underway, Unfinished, CancelledRow
        <3>5. QED
            BY <1>5, <1>7, <3>2, <3>4 DEF DeskInv
    <2>5. QED
        BY <2>1, <2>3, <2>4
<1>11. CASE PromoteCommit(c) \/ PromoteNotify(c)
    <2>1. pc'[c] \in {"notify", "done"}
        BY <1>1, <1>11 DEF PromoteCommit, PromoteNotify, Goto, TablesInv, TypeOK
    <2>2. QED
        BY <1>5, <1>6, <1>7, <2>1 DEF DeskInv, Underway, PickedFirst, Unfinished
<1>12. QED
    BY <1>8, <1>9, <1>10, <1>11 DEF CancelStep

\* What a request finds when it is admitted, and what a crash leaves.
LEMMA NextDesk ==
    ASSUME MaxInFlight = 1, TablesInv, SerialInv, DeskInv, [Next]_vars
    PROVE  DeskInv'
<1>1. CASE UNCHANGED vars
    <2>1. /\ CountConfirmed(rows)' = CountConfirmed(rows)
          /\ CountWaitlisted(rows)' = CountWaitlisted(rows)
          /\ FirstInLine(rows, {})' = FirstInLine(rows, {})
        BY <1>1 DEF vars, CountConfirmed, CountWaitlisted, FirstInLine, RowsWith, Precedes
    <2>2. QED
        BY <1>1, <2>1
        DEF vars, DeskInv, Foreseen, ReadActive, Underway, PickedFirst, Unfinished, Admission,
            CancelledRow
<1>2. CASE Crash
    <2>1. \A h \in Requests : pc'[h] \in {"idle", "done", "dropped"}
        BY <1>2 DEF Crash, Running
    <2>2. QED
        BY <2>1
        DEF DeskInv, Foreseen, ReadActive, Underway, PickedFirst, Unfinished, Requests
<1>3. ASSUME NEW r \in Registers, NEW served \in BOOLEAN, RegisterFetchEvent(r, served)
      PROVE  DeskInv'
    <2>1. \A h \in Requests : pc'[h] \in {"idle", "done", "dropped", "findActive"}
        BY <1>3, AdmittedAlone DEF RegisterFetchEvent, Goto, Running, TablesInv, TypeOK
    <2>2. QED
        BY <2>1
        DEF DeskInv, Foreseen, ReadActive, Underway, PickedFirst, Unfinished, Requests
<1>4. ASSUME NEW c \in Cancels, CancelFind(c) PROVE DeskInv'
    <2>1. \A h \in Requests : pc'[h] \in {"idle", "done", "dropped", "cancelRow"}
        BY <1>4, AdmittedAlone DEF CancelFind, Goto, Running, TablesInv, TypeOK
    <2>2. \A d \in Cancels : pc'[d] = "cancelRow" => Active(seen'[d])
        <3>1. \A d \in Cancels : pc[d] # "cancelRow"
            BY <1>4, AdmittedAlone DEF CancelFind, Running, Requests
        <3>2. PICK t \in Registers, caller \in Participants :
                  IF caller = Owner[t] /\ Active(rows[t])
                  THEN /\ Goto(c, "idle", "cancelRow")
                       /\ target' = [target EXCEPT ![c] = t]
                       /\ seen' = [seen EXCEPT ![c] = rows[t]]
                  ELSE /\ Goto(c, "idle", "done")
                       /\ UNCHANGED <<target, seen>>
            BY <1>4 DEF CancelFind
        <3>3. CASE caller = Owner[t] /\ Active(rows[t])
            <4>1. pc' = [pc EXCEPT ![c] = "cancelRow"] /\ seen'[c] = rows[t]
                BY <3>2, <3>3 DEF Goto, TablesInv, TypeOK
            <4>2. \A d \in Cancels \ {c} : pc'[d] = pc[d]
                BY <4>1 DEF TablesInv, TypeOK, Requests
            <4>3. QED
                BY <3>1, <3>3, <4>1, <4>2
        <3>4. CASE ~(caller = Owner[t] /\ Active(rows[t]))
            BY <3>1, <3>2, <3>4 DEF Goto, TablesInv, TypeOK, Requests
        <3>5. QED
            BY <3>3, <3>4
    <2>3. QED
        BY <2>1, <2>2
        DEF DeskInv, Foreseen, ReadActive, Underway, PickedFirst, Unfinished, Requests
<1>5. QED
    BY <1>1, <1>2, <1>3, <1>4, RegisterDesk, CancelDesk DEF Next

-----------------------------------------------------------------------------
(***************************************************************************)
(* What the desk shows                                                     *)
(***************************************************************************)
\* With no cancellation half done, the tables as they are.
LEMMA ShownAtRest ==
    TablesInv /\ Unfinished = {} => DeskRows = rows /\ DeskTickets = tickets
<1> SUFFICES ASSUME TablesInv, Unfinished = {} PROVE DeskRows = rows /\ DeskTickets = tickets
    OBVIOUS
<1>1. \A r \in Registers : HandlersOf(r) = {}
    BY DEF HandlersOf
<1>2. QED
    BY <1>1 DEF DeskRows, DeskTickets, TablesInv, TypeOK

\* With one, the row as the handler has read it, with its ticket.
LEMMA ShownUnderway ==
    TablesInv /\ DeskInv => \A c \in Cancels : Unfinished = {c} =>
        /\ DeskRows = [rows EXCEPT ![target[c]] = seen[c]]
        /\ DeskTickets = [tickets EXCEPT ![target[c]] = "ISSUED"]
<1> SUFFICES ASSUME TablesInv, DeskInv, NEW c \in Cancels, Unfinished = {c}
             PROVE  /\ DeskRows = [rows EXCEPT ![target[c]] = seen[c]]
                    /\ DeskTickets = [tickets EXCEPT ![target[c]] = "ISSUED"]
    OBVIOUS
<1>1. target[c] \in Registers /\ seen[c].ticketed
    BY DEF DeskInv, Underway
<1>2. \A r \in Registers : HandlersOf(r) = IF r = target[c] THEN {c} ELSE {}
    BY DEF HandlersOf
<1>3. (CHOOSE d \in {c} : TRUE) = c
    OBVIOUS
<1>4. \A r \in Registers : DeskRows[r] = IF r = target[c] THEN seen[c] ELSE rows[r]
    BY <1>2, <1>3 DEF DeskRows
<1>5. \A r \in Registers : DeskTickets[r] = IF r = target[c] THEN "ISSUED" ELSE tickets[r]
    BY <1>1, <1>2, <1>4 DEF DeskTickets
<1>6. DeskRows = [r \in Registers |-> DeskRows[r]] /\ DeskTickets = [r \in Registers |-> DeskTickets[r]]
    BY DEF DeskRows, DeskTickets
<1>7. QED
    BY <1>4, <1>5, <1>6 DEF TablesInv, TypeOK

-----------------------------------------------------------------------------
(***************************************************************************)
(* Every step is a step of the desk, or none                               *)
(***************************************************************************)
LEMMA InitShown == Init => Desk!Init
<1> SUFFICES ASSUME Init PROVE Desk!Init
    OBVIOUS
<1>1. TablesInv /\ Unfinished = {}
    BY InitTables DEF Init, Unfinished, Requests
<1>2. QED
    BY <1>1, ShownAtRest, DeskWords DEF Init, Desk!Init

\* The desk after a step.
Shown ==
    /\ Unfinished = {} => DeskRows = rows /\ DeskTickets = tickets
    /\ \A c \in Cancels : Unfinished = {c} =>
          /\ DeskRows = [rows EXCEPT ![target[c]] = seen[c]]
          /\ DeskTickets = [tickets EXCEPT ![target[c]] = "ISSUED"]

LEMMA InvShown == TablesInv /\ DeskInv => Shown
BY ShownAtRest, ShownUnderway DEF Shown

\* Steps that leave the tables alone, while no cancellation is half done.
LEMMA QuietShown ==
    ASSUME Shown, Shown', Unfinished = {}, Unfinished' = {}, UNCHANGED <<rows, tickets, crashes>>
    PROVE  UNCHANGED Desk!vars
BY DEF Shown, Desk!vars

LEMMA InsertShown ==
    ASSUME Stamps = Nat, TablesInv, SerialInv, DeskInv, Shown, Shown',
           NEW r \in Registers, RegisterInsert(r)
    PROVE  Desk!Register(r) \/ UNCHANGED Desk!vars
<1>1. r \in Requests /\ Running(r) /\ pc[r] = "insert" /\ crashes' = crashes
    BY DEF RegisterInsert, Goto, Running, Requests
<1>2. r \notin Cancels
    BY CancelsAssumption
<1>3. Unfinished = {}
    BY <1>1, <1>2, ServedAlone DEF Unfinished
<1>4. Unfinished' = {}
    <2>1. \A c \in Cancels : pc'[c] \in {"idle", "done", "dropped"}
        BY <1>1, <1>2, StepAlone DEF RegisterInsert, Goto, Requests
    <2>2. QED
        BY <2>1 DEF Unfinished
<1>5. CASE IndexRefuses(r)
    BY <1>1, <1>3, <1>4, <1>5, QuietShown DEF RegisterInsert
<1>6. CASE ~IndexRefuses(r)
    <2>1. PICK stamp \in Nat :
              draft[r] = Admission(CountConfirmed(rows), CountWaitlisted(rows), stamp)
        BY <1>1 DEF DeskInv, Foreseen
    <2> DEFINE status == IF CountConfirmed(rows) < Capacity THEN "CONFIRMED" ELSE "WAITLISTED"
    <2>2. draft[r] = NewRow(status, CountWaitlisted(rows) + 1, stamp)
        BY <2>1 DEF Admission
    <2>3. draft[r].status = status
        BY <2>2 DEF NewRow
    <2>4. /\ rows' = [rows EXCEPT ![r] = draft[r]]
          /\ tickets' = IF status = "CONFIRMED" THEN [tickets EXCEPT ![r] = "ISSUED"] ELSE tickets
        BY <1>6, <2>3 DEF RegisterInsert
    <2>5. rows[r].status = "ABSENT" /\ ActiveRowsOf(rows, Owner[r]) = {}
        BY <1>1, <1>6 DEF TablesInv, DraftsFresh, BeforeInsert, AbsentRow, IndexRefuses
    <2>6. /\ DeskRows = rows /\ DeskTickets = tickets
          /\ DeskRows' = rows' /\ DeskTickets' = tickets'
        BY <1>3, <1>4 DEF Shown
    <2>7. QED
        BY <1>1, <2>2, <2>4, <2>5, <2>6, DeskWords DEF Desk!Register
<1>7. QED
    BY <1>5, <1>6

LEMMA RegisterShown ==
    ASSUME Stamps = Nat, TablesInv, SerialInv, DeskInv, Shown, Shown',
           NEW r \in Registers, RegisterStep(r)
    PROVE  Desk!Next \/ UNCHANGED Desk!vars
<1>1. CASE RegisterInsert(r)
    BY <1>1, InsertShown DEF Desk!Next
<1>2. CASE ~RegisterInsert(r)
    <2>1. r \in Requests /\ Running(r) /\ r \notin Cancels /\ UNCHANGED <<rows, tickets, crashes>>
        BY <1>2, CancelsAssumption
        DEF RegisterStep, RegisterFindActive, RegisterCountConfirmed, RegisterCountWaitlisted,
            RegisterInsertFails, RegisterNotify, Goto, Running, Requests, tables
    <2>2. PICK next : pc' = [pc EXCEPT ![r] = next]
        BY <1>2
        DEF RegisterStep, RegisterFindActive, RegisterCountConfirmed, RegisterCountWaitlisted,
            RegisterInsertFails, RegisterNotify, Goto
    <2>3. Unfinished = {}
        BY <2>1, ServedAlone DEF Unfinished
    <2>4. \A c \in Cancels : pc'[c] \in {"idle", "done", "dropped"}
        BY <2>1, <2>2, StepAlone DEF Requests
    <2>5. Unfinished' = {}
        BY <2>4 DEF Unfinished
    <2>6. QED
        BY <2>1, <2>3, <2>5, QuietShown
<1>3. QED
    BY <1>1, <1>2

LEMMA CancelShown ==
    ASSUME TablesInv, SerialInv, DeskInv, DeskInv', Shown, Shown', NEW c \in Cancels, CancelStep(c)
    PROVE  Desk!Next \/ UNCHANGED Desk!vars
<1> DEFINE t == target[c]
<1>1. c \in Requests /\ Running(c)
    BY DEF CancelStep, CancelRow, CancelTicket, PromoteSelect, PromoteCommit, PromoteNotify, Goto,
        Running, Requests
<1>2. PICK next : pc' = [pc EXCEPT ![c] = next]
    BY DEF CancelStep, CancelRow, CancelTicket, PromoteSelect, PromoteCommit, PromoteNotify, Goto
<1>3. pc'[c] = next /\ \A d \in Cancels \ {c} : pc'[d] \in {"idle", "done", "dropped"}
    BY <1>1, <1>2, StepAlone DEF Requests
<1>4. /\ pc'[c] \in {"cancelTicket", "selectNext", "promoteNext"} => Unfinished' = {c}
      /\ pc'[c] \notin {"cancelTicket", "selectNext", "promoteNext"} => Unfinished' = {}
    BY <1>3 DEF Unfinished
<1>5. /\ pc[c] \in {"cancelTicket", "selectNext", "promoteNext"} => Unfinished = {c}
      /\ pc[c] \notin {"cancelTicket", "selectNext", "promoteNext"} => Unfinished = {}
    BY <1>1, ServedAlone DEF Unfinished
<1>6. crashes' = crashes
    BY DEF CancelStep, CancelRow, CancelTicket, PromoteSelect, PromoteCommit, PromoteNotify, tables
<1>7. rows \in [Registers -> Row] /\ tickets \in [Registers -> TicketStatuses]
    BY DEF TablesInv, TypeOK
\* While it is half done, the cancellation has a row with a seat, and has taken it away.
<1>8. ASSUME Unfinished = {c}
      PROVE  /\ t \in Registers
             /\ seen[c] \in Row /\ seen[c].status = "CONFIRMED" /\ seen[c].ticketed
             /\ rows[t] = CancelledRow(seen[c])
             /\ tickets[t] = IF pc[c] = "cancelTicket" THEN "ISSUED" ELSE "CANCELLED"
             /\ DeskRows = [rows EXCEPT ![t] = seen[c]]
             /\ DeskTickets = [tickets EXCEPT ![t] = "ISSUED"]
    BY <1>8 DEF DeskInv, Underway, Shown, TablesInv, TypeOK
<1>9. CASE CancelRow(c)
    <2>1. /\ pc[c] = "cancelRow" /\ tickets' = tickets
          /\ rows' = [rows EXCEPT ![t] = CancelledRow(rows[t])]
          /\ pc'[c] = IF rows[t].ticketed THEN "cancelTicket" ELSE AfterCancel(c)
          /\ pc'[c] # "done" => target' = target /\ seen' = seen
        BY <1>1, <1>9 DEF CancelRow, TicketReturned, Goto, TablesInv, TypeOK
    <2>2. t \in Registers /\ seen[c] = rows[t] /\ Active(rows[t])
        BY <2>1 DEF TablesInv, TargetsExist, SerialInv, ReadsFresh, DeskInv, ReadActive
    <2>3. DeskRows = rows /\ DeskTickets = tickets
        BY <1>5, <2>1 DEF Shown
    <2>4. CASE rows[t].ticketed
        <3>1. tickets[t] = "ISSUED"
            BY <2>2, <2>4 DEF TablesInv, TicketsMatchRows, Active
        <3>2. /\ DeskRows' = [rows' EXCEPT ![t] = rows[t]]
              /\ DeskTickets' = [tickets EXCEPT ![t] = "ISSUED"]
            BY <1>4, <2>1, <2>2, <2>4 DEF Shown
        <3>3. DeskRows' = rows /\ DeskTickets' = tickets
            BY <1>7, <2>1, <2>2, <3>1, <3>2
        <3>4. QED
            BY <1>6, <2>3, <3>3 DEF Desk!vars
    <2>5. CASE ~rows[t].ticketed
        <3>1. rows[t].status # "CONFIRMED"
            BY <2>2, <2>5 DEF TablesInv, TicketsMatchRows
        <3>2. DeskRows' = rows' /\ DeskTickets' = tickets
            BY <1>4, <2>1, <2>2, <2>5, <3>1 DEF AfterCancel, Shown
        <3>3. [tickets EXCEPT ![t] = tickets[t]] = tickets
            BY <1>7
        <3>4. Desk!Withdraw(t)
            BY <1>6, <2>1, <2>2, <2>3, <2>5, <3>1, <3>2, <3>3, DeskWords
            DEF Desk!Withdraw, Desk!WithoutSeat, Desk!WithoutTicket
        <3>5. QED
            BY <2>2, <3>4 DEF Desk!Next
    <2>6. QED
        BY <2>4, <2>5
<1>10. CASE CancelTicket(c)
    <2>1. pc[c] = "cancelTicket" /\ Unfinished = {c}
        BY <1>5, <1>10 DEF CancelTicket, Goto
    <2>2. /\ pc'[c] = "selectNext" /\ UNCHANGED <<rows, target, seen>>
          /\ tickets' = [tickets EXCEPT ![t] = "CANCELLED"]
        BY <1>1, <1>8, <1>10, <2>1 DEF CancelTicket, AfterCancel, Goto, TablesInv, TypeOK
    <2>3. /\ DeskRows' = [rows EXCEPT ![t] = seen[c]]
          /\ DeskTickets' = [tickets' EXCEPT ![t] = "ISSUED"]
        BY <1>4, <2>2 DEF Shown
    <2>4. [tickets' EXCEPT ![t] = "ISSUED"] = [tickets EXCEPT ![t] = "ISSUED"]
        BY <1>7, <2>2
    <2>5. QED
        BY <1>6, <1>8, <2>1, <2>3, <2>4 DEF Desk!vars
<1>11. CASE PromoteSelect(c)
    <2>1. /\ pc[c] = "selectNext" /\ UNCHANGED <<rows, tickets>>
          /\ \/ pc'[c] = "done" /\ FirstInLine(rows, Locked) = {}
             \/ pc'[c] = "promoteNext" /\ UNCHANGED <<target, seen>>
        BY <1>1, <1>11 DEF PromoteSelect, Goto, tables, TablesInv, TypeOK
    <2>2. Unfinished = {c}
        BY <1>5, <2>1
    <2>3. CASE pc'[c] = "promoteNext"
        <3>1. /\ DeskRows' = [rows EXCEPT ![t] = seen[c]]
              /\ DeskTickets' = [tickets EXCEPT ![t] = "ISSUED"]
            BY <1>4, <2>1, <2>3 DEF Shown
        <3>2. QED
            BY <1>6, <1>8, <2>2, <3>1 DEF Desk!vars
    <2>4. CASE pc'[c] = "done"
        <3>1. Locked = {}
            BY <1>1, <2>1 DEF Locked, SerialInv, OneAtATime, Running, Requests
        <3>2. RowsWith(rows, "WAITLISTED") = {}
            BY <1>7, <2>1, <2>4, <3>1, SomebodyIsFirst
        <3>3. RowsWith(DeskRows, "WAITLISTED") = {}
            BY <1>7, <1>8, <2>2, <3>2 DEF RowsWith
        <3>4. CountWaitlisted(DeskRows) = 0
            BY <3>3, FS_EmptySet DEF CountWaitlisted
        <3>5. DeskRows' = rows /\ DeskTickets' = tickets
            BY <1>4, <2>1, <2>4 DEF Shown
        <3>6. DeskRows[t] = seen[c] /\ Active(DeskRows[t])
            BY <1>7, <1>8, <2>2 DEF Active
        <3>7. [DeskRows EXCEPT ![t] = CancelledRow(DeskRows[t])] = rows
            BY <1>7, <1>8, <2>2, <3>6
        <3>8. [DeskTickets EXCEPT ![t] = "CANCELLED"] = tickets
            BY <1>7, <1>8, <2>1, <2>2
        <3>9. Desk!Withdraw(t)
            BY <1>6, <1>8, <2>2, <3>4, <3>5, <3>6, <3>7, <3>8, DeskWords
            DEF Desk!Withdraw, Desk!WithoutSeat, Desk!WithoutTicket
        <3>10. QED
            BY <1>8, <2>2, <3>9 DEF Desk!Next
    <2>5. QED
        BY <2>1, <2>3, <2>4
<1>12. CASE PromoteCommit(c)
    <2> DEFINE q == pick[c]
    <2>1. /\ pc[c] = "promoteNext" /\ pc'[c] = "notify"
          /\ rows' = [rows EXCEPT ![q] = PromotedRow(rows[q])]
          /\ tickets' = [tickets EXCEPT ![q] = "ISSUED"]
        BY <1>1, <1>12 DEF PromoteCommit, Goto, TablesInv, TypeOK
    <2>2. Unfinished = {c}
        BY <1>5, <2>1
    <2>3. q \in FirstInLine(rows, {})
        BY <2>1 DEF DeskInv, PickedFirst
    <2>4. DeskRows' = rows' /\ DeskTickets' = tickets'
        BY <1>4, <2>1 DEF Shown
    <2>5. DeskRows[t] = seen[c]
        BY <1>7, <1>8, <2>2
    <2>6. [DeskRows EXCEPT ![t] = CancelledRow(DeskRows[t])] = rows
        BY <1>7, <1>8, <2>2, <2>5
    <2>7. [DeskTickets EXCEPT ![t] = "CANCELLED"] = tickets
        BY <1>7, <1>8, <2>1, <2>2
    <2>8. Desk!WithoutSeat(t) = rows /\ Desk!WithoutTicket(t) = tickets
        BY <1>8, <2>2, <2>5, <2>6, <2>7, DeskWords DEF Desk!WithoutSeat, Desk!WithoutTicket
    <2>9. Desk!HandOver(t)
        BY <1>6, <1>8, <2>1, <2>2, <2>3, <2>4, <2>5, <2>8, DeskWords DEF Desk!HandOver
    <2>10. QED
        BY <1>8, <2>2, <2>9 DEF Desk!Next
<1>13. CASE PromoteNotify(c)
    <2>1. pc[c] = "notify" /\ pc'[c] = "done" /\ UNCHANGED <<rows, tickets>>
        BY <1>1, <1>13 DEF PromoteNotify, Goto, TablesInv, TypeOK
    <2>2. QED
        BY <1>4, <1>5, <1>6, <2>1, QuietShown
<1>14. QED
    BY <1>9, <1>10, <1>11, <1>12, <1>13 DEF CancelStep

\* A crash shows what the cancellation has done so far.
LEMMA CrashShown ==
    ASSUME TablesInv, SerialInv, DeskInv, Shown, Shown', Crash
    PROVE  Desk!Crash
<1>1. crashes < MaxCrashes /\ crashes' = crashes + 1 /\ UNCHANGED <<rows, tickets>>
    BY DEF Crash, tables
<1>2. Unfinished' = {}
    BY DEF Crash, Unfinished, Running, Requests
<1>3. DeskRows' = rows /\ DeskTickets' = tickets
    BY <1>1, <1>2 DEF Shown
<1>4. CASE Unfinished = {}
    BY <1>1, <1>3, <1>4 DEF Shown, Desk!Crash
<1>5. CASE Unfinished # {}
    <2> PICK c \in Unfinished : TRUE
        BY <1>5
    <2> DEFINE t == target[c]
    <2>1. c \in Cancels /\ Unfinished = {c}
        BY ServedAlone DEF Unfinished, Running, Requests
    <2>2. /\ t \in Registers
          /\ seen[c].status = "CONFIRMED" /\ seen[c].ticketed
          /\ rows[t] = CancelledRow(seen[c])
          /\ tickets[t] \in {"ISSUED", "CANCELLED"}
          /\ DeskRows = [rows EXCEPT ![t] = seen[c]]
          /\ DeskTickets = [tickets EXCEPT ![t] = "ISSUED"]
        BY <2>1 DEF DeskInv, Underway, Shown
    <2>3. rows \in [Registers -> Row] /\ tickets \in [Registers -> TicketStatuses]
        BY DEF TablesInv, TypeOK
    <2>4. DeskRows[t] = seen[c] /\ Active(DeskRows[t])
        BY <2>2, <2>3 DEF Active
    <2>5. [DeskRows EXCEPT ![t] = CancelledRow(DeskRows[t])] = rows
        BY <2>2, <2>3, <2>4
    <2>6. tickets \in {DeskTickets, [DeskTickets EXCEPT ![t] = "CANCELLED"]}
        <3>1. CASE tickets[t] = "ISSUED"
            BY <2>2, <2>3, <3>1
        <3>2. CASE tickets[t] = "CANCELLED"
            BY <2>2, <2>3, <3>2
        <3>3. QED
            BY <2>2, <3>1, <3>2
    <2>7. Desk!WithoutSeat(t) = rows
          /\ Desk!WithoutTicket(t) = [DeskTickets EXCEPT ![t] = "CANCELLED"]
        BY <2>2, <2>4, <2>5, DeskWords DEF Desk!WithoutSeat, Desk!WithoutTicket
    <2>8. QED
        BY <1>1, <1>3, <2>2, <2>4, <2>6, <2>7, DeskWords DEF Desk!Crash
<1>6. QED
    BY <1>4, <1>5

LEMMA NextShown ==
    ASSUME MaxInFlight = 1, Stamps = Nat,
           TablesInv, SerialInv, DeskInv, DeskInv', Shown, Shown', [Next]_vars
    PROVE  [Desk!Next]_(Desk!vars)
<1>1. CASE UNCHANGED vars
    <2>1. DeskRows' = DeskRows /\ DeskTickets' = DeskTickets /\ crashes' = crashes
        BY <1>1 DEF vars, DeskRows, DeskTickets, HandlersOf, Unfinished
    <2>2. QED
        BY <2>1 DEF Desk!vars
<1>2. CASE Crash
    BY <1>2, CrashShown DEF Desk!Next
<1>3. CASE \/ \E r \in Registers, served \in BOOLEAN : RegisterFetchEvent(r, served)
           \/ \E c \in Cancels : CancelFind(c)
    <2>1. /\ UNCHANGED <<rows, tickets, crashes>>
          /\ \A h \in Requests : ~Running(h)
        BY <1>3, AdmittedAlone DEF RegisterFetchEvent, CancelFind, tables
    <2>2. \A h \in Requests : pc'[h] \in {"idle", "done", "dropped", "findActive", "cancelRow"}
        BY <1>3, <2>1 DEF RegisterFetchEvent, CancelFind, Goto, Running, TablesInv, TypeOK
    <2>3. Unfinished = {} /\ Unfinished' = {}
        BY <2>1, <2>2 DEF Unfinished, Running, Requests
    <2>4. QED
        BY <2>1, <2>3, QuietShown
<1>4. QED
    BY <1>1, <1>2, <1>3, RegisterShown, CancelShown DEF Next

\* Clients that wait for one answer before they send the next request see a desk that
\* deals with each of them in one step, also when the service crashes in between.
THEOREM SerialRefinement ==
    ASSUME MaxInFlight = 1, Stamps = Nat
    PROVE  Spec => ImplementsDesk
<1>1. TablesInv /\ SerialInv /\ DeskInv /\ [Next]_vars => DeskInv'
    BY NextDesk
<1>2. /\ TablesInv /\ SerialInv /\ DeskInv /\ DeskInv' /\ Shown /\ Shown' /\ [Next]_vars
      => [Desk!Next]_(Desk!vars)
    BY NextShown
<1>3. QED
    BY <1>1, <1>2, InitDesk, InitShown, InvShown, TablesCorrect, SerialCorrect, PTL
    DEF Spec, ImplementsDesk, Desk!Spec

-----------------------------------------------------------------------------
(***************************************************************************)
(* The composition keeps what the registration service guarantees          *)
(***************************************************************************)
LEMMA NextRefines == [CNext]_allVars => [Next]_vars
<1> SUFFICES ASSUME [CNext]_allVars PROVE [Next]_vars
    OBVIOUS
<1>1. ASSUME NEW a \in Attempts,
             \/ CancelEventFind(a) \/ EventSteps(a) \/ EmitLost(a)
             \/ EventServiceDies(a) \/ GatewayTimeout(a) \/ TellSteps(a)
      PROVE  UNCHANGED vars
    BY <1>1
    DEF CancelEventFind, EventSteps, CancelEventUpdate, Emit, EmitReturns, EmitLost,
        EventServiceDies, GatewayTimeout, TellSteps, ListAudience, TellNext
<1>2. CASE ServiceDies
    BY <1>2 DEF ServiceDies, Next
<1>3. ASSUME NEW r \in Registers, FetchPublicEvent(r) \/ RegisterGoesOn(r)
      PROVE  Next
    BY <1>3 DEF FetchPublicEvent, RegisterGoesOn, Next
<1>4. ASSUME NEW c \in Cancels, CancelGoesOn(c) PROVE Next
    BY <1>4 DEF CancelGoesOn, Next
<1>5. CASE UNCHANGED allVars
    BY <1>5 DEF allVars
<1>6. QED
    BY <1>1, <1>2, <1>3, <1>4, <1>5 DEF CNext

\* To the registration service the cancellation of the event is nothing it could not
\* have met before: every behaviour of the composition is one of its own, with
\* calls to the event service that find the event or not.
THEOREM CompositionRefines == CSpec => Init /\ [][Next]_vars
<1>1. CInit => Init
    BY DEF CInit
<1>2. QED
    BY <1>1, NextRefines, PTL DEF CSpec

\* Whatever becomes of the event, rows and tickets agree and nobody holds two active
\* registrations of it.
THEOREM CompositionKeepsTables == CSpec => [](OneActivePerParticipant /\ TicketsMatchRows)
<1>1. TablesInv /\ [Next]_vars => TablesInv'
    BY NextTables
<1>2. TablesInv => OneActivePerParticipant /\ TicketsMatchRows
    BY TablesUnique DEF TablesInv
<1>3. QED
    BY <1>1, <1>2, InitTables, CompositionRefines, PTL

-----------------------------------------------------------------------------
(***************************************************************************)
(* Nobody is told twice but for a retry                                    *)
(*                                                                         *)
(* Two attempts tell the participants only if both found the event         *)
(* published.  The later one was sent because the gateway gave up on the   *)
(* earlier one (504), or because the event service died on it before it    *)
(* cancelled anything (502), and then the earlier one tells nobody.        *)
(***************************************************************************)
AtWork(a) == canceller[a] \in {"update", "emit", "listen"} \/ teller[a] # "idle"

GivenUp(a) == answer[a] = "502" /\ canceller[a] = "done" /\ teller[a] = "idle"

\* What is answered, and where the handlers are by then.
Answered ==
    \A a \in Attempts :
        /\ answer[a] = "none" <=> canceller[a] = "idle"
        /\ answer[a] = "502" => canceller[a] = "done"
        /\ canceller[a] \in {"idle", "update", "emit"} => teller[a] = "idle"
        /\ canceller[a] \in {"emit", "listen"} \/ teller[a] # "idle" => event = "CANCELLED"

\* A later attempt was sent because the earlier ones were not answered by a handler.
InTurn ==
    \A a, b \in Attempts :
        a < b /\ answer[b] # "none" => answer[a] \in {"502", "504"}

Exclusive ==
    \A a, b \in Attempts :
        a < b /\ AtWork(b) => answer[a] = "504" \/ GivenUp(a)

\* A loop creates one notification per registration it has listed.
Loops ==
    \A a \in Attempts, r \in Registers :
        /\ told[<<a, r>>] \in {0, 1}
        /\ teller[a] \in {"idle", "list"} => told[<<a, r>>] = 0 /\ audience[a] = {}
        /\ r \in audience[a] => told[<<a, r>>] = 0
        /\ r \in audience[a] \/ told[<<a, r>>] # 0 => rows[r].status # "ABSENT"

TellInv ==
    /\ TablesInv
    /\ CancellationTypeOK
    /\ Answered
    /\ InTurn
    /\ Exclusive
    /\ Loops

LEMMA InitTell == CInit => TellInv
<1> SUFFICES ASSUME CInit PROVE TellInv
    OBVIOUS
<1>1. TablesInv
    BY InitTables DEF CInit
<1>2. CancellationTypeOK
    BY AttemptsAssumption DEF CInit, CancellationTypeOK
<1>3. Answered /\ InTurn /\ Exclusive
    BY DEF CInit, Answered, InTurn, Exclusive, AtWork
<1>4. Loops
    BY DEF CInit, Loops
<1>5. QED
    BY <1>1, <1>2, <1>3, <1>4 DEF TellInv

\* A row that was inserted is there for ever.
LEMMA RowsStay ==
    ASSUME TablesInv, [Next]_vars, NEW r \in Registers, rows[r].status # "ABSENT"
    PROVE  rows'[r].status # "ABSENT"
<1>1. CASE UNCHANGED rows
    BY <1>1
<1>2. ASSUME NEW q \in Registers, RegisterInsert(q) PROVE rows'[r].status # "ABSENT"
    <2>1. rows[q] = AbsentRow
        BY <1>2 DEF TablesInv, DraftsFresh, BeforeInsert, RegisterInsert, Goto
    <2>2. r # q
        BY <2>1 DEF AbsentRow
    <2>3. QED
        BY <1>2, <2>2 DEF TablesInv, TypeOK, RegisterInsert
<1>3. ASSUME NEW c \in Cancels, CancelRow(c) PROVE rows'[r].status # "ABSENT"
    <2>1. rows[r] \in Row
        BY DEF TablesInv, TypeOK
    <2>2. rows'[r] = rows[r] \/ rows'[r] = CancelledRow(rows[r])
        BY <1>3 DEF TablesInv, TypeOK, CancelRow
    <2>3. \A row \in Row : CancelledRow(row).status = "CANCELLED"
        BY DEF CancelledRow, Row
    <2>4. QED
        BY <2>1, <2>2, <2>3
<1>4. ASSUME NEW c \in Cancels, PromoteCommit(c) PROVE rows'[r].status # "ABSENT"
    <2>1. rows[r] \in Row
        BY DEF TablesInv, TypeOK
    <2>2. rows'[r] = rows[r] \/ rows'[r] = PromotedRow(rows[r])
        BY <1>4 DEF TablesInv, TypeOK, PromoteCommit
    <2>3. \A row \in Row : PromotedRow(row).status = "CONFIRMED"
        BY DEF PromotedRow, Row
    <2>4. QED
        BY <2>1, <2>2, <2>3
<1>5. QED
    BY <1>1, <1>2, <1>3, <1>4
    DEF Next, RegisterStep, CancelStep, RegisterFetchEvent, RegisterFindActive,
        RegisterCountConfirmed, RegisterCountWaitlisted, RegisterInsertFails, RegisterNotify,
        CancelFind, CancelTicket, PromoteSelect, PromoteNotify, Crash, tables, vars

\* The steps of the cancel handler and of the gateway.
LEMMA CancellerTell ==
    ASSUME TellInv, NEW a \in Attempts,
           \/ CancelEventFind(a) \/ EventSteps(a) \/ EmitLost(a)
           \/ EventServiceDies(a) \/ GatewayTimeout(a)
    PROVE  CancellationTypeOK' /\ Answered' /\ InTurn' /\ Exclusive'
<1> USE DEF TellInv, CancellationTypeOK
<1>0. UNCHANGED <<told, late, audience>>
    BY DEF CancelEventFind, EventSteps, CancelEventUpdate, Emit, EmitReturns, EmitLost,
        EventServiceDies, GatewayTimeout
<1>1. CASE CancelEventFind(a)
    <2>1. CancellationTypeOK' /\ Answered'
        BY <1>1 DEF CancelEventFind, MaySend, Move, Answered
    <2>2. \A b \in Attempts : b < a => answer[b] \in {"502", "504"}
        <3> SUFFICES ASSUME NEW b \in Attempts, b < a PROVE answer[b] \in {"502", "504"}
            OBVIOUS
        <3>1. a > 1 /\ a - 1 \in Attempts /\ answer[a - 1] \in {"502", "504"}
            BY <1>1, AttemptsAssumption DEF Attempts, CancelEventFind, MaySend
        <3>2. b = a - 1 \/ b < a - 1
            BY AttemptsAssumption DEF Attempts
        <3>3. QED
            BY <3>1, <3>2 DEF InTurn
    <2>3. InTurn'
        BY <1>1, <2>2 DEF CancelEventFind, MaySend, InTurn
    <2>4. Exclusive'
        BY <1>1, <2>2 DEF CancelEventFind, MaySend, Move, Exclusive, AtWork, GivenUp, Answered
    <2>5. QED
        BY <2>1, <2>3, <2>4
<1>2. CASE EventSteps(a)
    <2>1. CancellationTypeOK' /\ Answered'
        BY <1>2 DEF EventSteps, CancelEventUpdate, Emit, EmitReturns, Heard, Move, Answered
    <2>2. InTurn'
        BY <1>2 DEF EventSteps, CancelEventUpdate, Emit, EmitReturns, Heard, Move, Answered, InTurn
    <2>3. Exclusive'
        BY <1>2 DEF EventSteps, CancelEventUpdate, Emit, EmitReturns, Heard, Move, Answered,
            Exclusive, AtWork, GivenUp
    <2>4. QED
        BY <2>1, <2>2, <2>3
<1>3. CASE EmitLost(a)
    BY <1>3, AttemptsAssumption
    DEF EmitLost, Heard, Move, Answered, InTurn, Exclusive, AtWork, GivenUp
<1>4. CASE EventServiceDies(a)
    BY <1>4, AttemptsAssumption
    DEF EventServiceDies, Heard, Answered, InTurn, Exclusive, AtWork, GivenUp
<1>5. CASE GatewayTimeout(a)
    BY <1>5 DEF GatewayTimeout, Answered, InTurn, Exclusive, AtWork, GivenUp
<1>6. QED
    BY <1>1, <1>2, <1>3, <1>4, <1>5

\* The steps of the registration service.
LEMMA TellerTell ==
    ASSUME TellInv,
           \/ ServiceDies
           \/ \E a \in Attempts : TellSteps(a)
           \/ \E r \in Registers : FetchPublicEvent(r) \/ RegisterGoesOn(r)
           \/ \E c \in Cancels : CancelGoesOn(c)
    PROVE  CancellationTypeOK' /\ Answered' /\ InTurn' /\ Exclusive'
<1> USE DEF TellInv, CancellationTypeOK
<1>1. ASSUME NEW a \in Attempts, TellSteps(a)
      PROVE  CancellationTypeOK' /\ Answered' /\ InTurn' /\ Exclusive'
    <2>1. /\ UNCHANGED <<event, answer, canceller, losses, late>>
          /\ teller[a] \in {"list", "tell"}
          /\ teller' \in [Attempts -> {"idle", "list", "tell", "done"}]
          /\ teller'[a] \in {"tell", "done"}
          /\ \A b \in Attempts \ {a} : teller'[b] = teller[b]
        BY <1>1 DEF TellSteps, ListAudience, TellNext, Tell
    <2>2. CancellationTypeOK'
        <3>1. PICK rest \in SUBSET Registers : audience' = [audience EXCEPT ![a] = rest]
            <4>1. CASE ListAudience(a)
                BY <4>1 DEF ListAudience, Tell, Eligible
            <4>2. CASE TellNext(a)
                <5>1. PICK r \in audience[a] : Tell(a, "tell", audience[a] \ {r})
                    BY <4>2 DEF TellNext
                <5>2. audience[a] \ {r} \in SUBSET Registers
                    OBVIOUS
                <5>3. QED
                    BY <5>1, <5>2 DEF Tell
            <4>3. QED
                BY <1>1, <4>1, <4>2 DEF TellSteps
        <3>2. told' \in [Attempts \X Registers -> Nat]
            <4>1. CASE ListAudience(a)
                BY <4>1 DEF ListAudience
            <4>2. CASE TellNext(a)
                <5>1. PICK r \in Registers : told' = [told EXCEPT ![<<a, r>>] = @ + 1]
                    BY <4>2 DEF TellNext
                <5>2. told[<<a, r>>] + 1 \in Nat
                    OBVIOUS
                <5>3. QED
                    BY <5>1, <5>2
            <4>3. QED
                BY <1>1, <4>1, <4>2 DEF TellSteps
        <3>3. audience' \in [Attempts -> SUBSET Registers]
            BY <3>1
        <3>4. QED
            BY <2>1, <3>2, <3>3
    <2>3. Answered' /\ InTurn' /\ Exclusive'
        BY <2>1 DEF Answered, InTurn, Exclusive, AtWork, GivenUp
    <2>4. QED
        BY <2>2, <2>3
<1>2. CASE ServiceDies
    BY <1>2, AttemptsAssumption
    DEF ServiceDies, Telling, Answered, InTurn, Exclusive, AtWork, GivenUp
<1>3. ASSUME NEW r \in Registers, FetchPublicEvent(r) \/ RegisterGoesOn(r)
      PROVE  CancellationTypeOK' /\ Answered' /\ InTurn' /\ Exclusive'
    BY <1>3
    DEF FetchPublicEvent, RegisterGoesOn, eventVars, Answered, InTurn, Exclusive, AtWork, GivenUp
<1>4. ASSUME NEW c \in Cancels, CancelGoesOn(c)
      PROVE  CancellationTypeOK' /\ Answered' /\ InTurn' /\ Exclusive'
    BY <1>4 DEF CancelGoesOn, eventVars, Answered, InTurn, Exclusive, AtWork, GivenUp
<1>5. QED
    BY <1>1, <1>2, <1>3, <1>4

\* What keeps the promise of the loops.
LEMMA LoopsKept ==
    ASSUME Loops,
           \A r \in Registers : rows[r].status # "ABSENT" => rows'[r].status # "ABSENT",
           UNCHANGED told,
           \A a \in Attempts :
              /\ audience'[a] \subseteq audience[a]
              /\ \/ teller'[a] = teller[a]
                 \/ teller[a] = "idle" /\ teller'[a] = "list"
                 \/ teller'[a] = "done"
    PROVE  Loops'
<1> SUFFICES ASSUME NEW a \in Attempts, NEW r \in Registers
             PROVE  /\ told'[<<a, r>>] \in {0, 1}
                    /\ teller'[a] \in {"idle", "list"} => told'[<<a, r>>] = 0 /\ audience'[a] = {}
                    /\ r \in audience'[a] => told'[<<a, r>>] = 0
                    /\ r \in audience'[a] \/ told'[<<a, r>>] # 0 => rows'[r].status # "ABSENT"
    BY DEF Loops
<1>1. told'[<<a, r>>] = told[<<a, r>>]
    OBVIOUS
<1>2. QED
    BY <1>1 DEF Loops

LEMMA NextLoops == TellInv /\ [CNext]_allVars => Loops'
<1> SUFFICES ASSUME TellInv, [CNext]_allVars PROVE Loops'
    OBVIOUS
<1>0. /\ \A r \in Registers : rows[r].status # "ABSENT" => rows'[r].status # "ABSENT"
      /\ Loops
    BY NextRefines, RowsStay DEF TellInv
<1> USE DEF TellInv, CancellationTypeOK
<1>1. ASSUME NEW a \in Attempts,
             \/ CancelEventFind(a) \/ EventSteps(a) \/ EmitLost(a)
             \/ EventServiceDies(a) \/ GatewayTimeout(a)
      PROVE  Loops'
    <2>1. UNCHANGED <<told, audience>>
        BY <1>1
        DEF CancelEventFind, EventSteps, CancelEventUpdate, Emit, EmitReturns, EmitLost,
            EventServiceDies, GatewayTimeout
    <2>2. \/ UNCHANGED teller
          \/ teller[a] = "idle" /\ teller' = [teller EXCEPT ![a] = "list"]
        BY <1>1
        DEF CancelEventFind, EventSteps, CancelEventUpdate, Emit, EmitReturns, EmitLost,
            EventServiceDies, GatewayTimeout, Move, Answered
    <2>3. QED
        BY <1>0, <2>1, <2>2, LoopsKept
<1>2. ASSUME NEW a \in Attempts, ListAudience(a) PROVE Loops'
    <2>1. /\ UNCHANGED <<told, rows>>
          /\ teller[a] = "list"
          /\ teller'[a] \in {"tell", "done"}
          /\ audience'[a] = Eligible
          /\ \A b \in Attempts \ {a} : audience'[b] = audience[b] /\ teller'[b] = teller[b]
        BY <1>2 DEF ListAudience, Tell, vars
    <2>2. \A r \in Eligible : r \in Registers /\ rows[r].status # "ABSENT"
        BY DEF Eligible, Active
    <2>3. QED
        BY <1>0, <2>1, <2>2 DEF Loops
<1>3. ASSUME NEW a \in Attempts, TellNext(a) PROVE Loops'
    <2>1. PICK r \in audience[a] :
             /\ told' = [told EXCEPT ![<<a, r>>] = @ + 1]
             /\ Tell(a, "tell", audience[a] \ {r})
        BY <1>3 DEF TellNext
    <2>2. r \in Registers /\ told[<<a, r>>] = 0 /\ teller[a] = "tell"
        BY <1>3, <2>1 DEF TellNext, Loops
    <2>3. told'[<<a, r>>] = 1
        <3>1. <<a, r>> \in Attempts \X Registers
            BY <2>2
        <3>2. QED
            BY <2>1, <2>2, <3>1
    <2>4. \A b \in Attempts, q \in Registers :
             <<b, q>> # <<a, r>> => told'[<<b, q>>] = told[<<b, q>>]
        BY <2>1
    <2>5. /\ audience'[a] = audience[a] \ {r}
          /\ teller'[a] \in {"tell", "done"}
          /\ \A b \in Attempts \ {a} : audience'[b] = audience[b] /\ teller'[b] = teller[b]
        BY <2>1 DEF Tell
    <2>6. rows'[r].status # "ABSENT"
        BY <1>0, <2>1, <2>2 DEF Loops
    <2>7. ASSUME NEW b \in Attempts, NEW q \in Registers
          PROVE  /\ told'[<<b, q>>] \in {0, 1}
                 /\ teller'[b] \in {"idle", "list"} => told'[<<b, q>>] = 0 /\ audience'[b] = {}
                 /\ q \in audience'[b] => told'[<<b, q>>] = 0
                 /\ q \in audience'[b] \/ told'[<<b, q>>] # 0 => rows'[q].status # "ABSENT"
        <3>1. CASE b = a /\ q = r
            BY <2>3, <2>5, <2>6, <3>1
        <3>2. CASE b = a /\ q # r
            <4>1. told'[<<b, q>>] = told[<<b, q>>]
                BY <2>4, <3>2
            <4>2. QED
                BY <1>0, <2>5, <3>2, <4>1 DEF Loops
        <3>3. CASE b # a
            <4>1. told'[<<b, q>>] = told[<<b, q>>]
                BY <2>4, <3>3
            <4>2. QED
                BY <1>0, <2>5, <3>3, <4>1 DEF Loops
        <3>4. QED
            BY <3>1, <3>2, <3>3
    <2>8. QED
        BY <2>7 DEF Loops
<1>4. CASE ServiceDies
    <2>1. /\ UNCHANGED told
          /\ \A a \in Attempts :
                audience'[a] = {} /\ (teller'[a] = teller[a] \/ teller'[a] = "done")
        BY <1>4 DEF ServiceDies
    <2>2. QED
        BY <1>0, <2>1, LoopsKept
<1>5. CASE UNCHANGED <<told, audience, teller>>
    BY <1>0, <1>5, LoopsKept
<1>6. QED
    BY <1>1, <1>2, <1>3, <1>4, <1>5
    DEF CNext, TellSteps, FetchPublicEvent, RegisterGoesOn, CancelGoesOn, eventVars, allVars

LEMMA NextTell == TellInv /\ [CNext]_allVars => TellInv'
<1> SUFFICES ASSUME TellInv, [CNext]_allVars PROVE TellInv'
    OBVIOUS
<1>1. TablesInv' /\ Loops'
    BY NextRefines, NextTables, NextLoops DEF TellInv
<1>2. ASSUME UNCHANGED allVars
      PROVE  CancellationTypeOK' /\ Answered' /\ InTurn' /\ Exclusive'
    BY <1>2
    DEF TellInv, allVars, eventVars, CancellationTypeOK, Answered, InTurn, Exclusive, AtWork, GivenUp
<1>3. ASSUME CNext
      PROVE  CancellationTypeOK' /\ Answered' /\ InTurn' /\ Exclusive'
    <2>1. \/ \E a \in Attempts :
                \/ CancelEventFind(a) \/ EventSteps(a) \/ EmitLost(a)
                \/ EventServiceDies(a) \/ GatewayTimeout(a)
          \/ ServiceDies
          \/ \E a \in Attempts : TellSteps(a)
          \/ \E r \in Registers : FetchPublicEvent(r) \/ RegisterGoesOn(r)
          \/ \E c \in Cancels : CancelGoesOn(c)
        BY <1>3 DEF CNext
    <2>2. QED
        BY <2>1, CancellerTell, TellerTell
<1>4. QED
    BY <1>1, <1>2, <1>3 DEF TellInv

\* However often the client tries, the services die and the calls are lost, nobody is
\* told of the cancellation once more than the gateway gave up on an attempt.
THEOREM ToldAtMostOnce == CSpec => []ToldOnce
<1>1. TellInv => ToldOnce
    <2> SUFFICES ASSUME TellInv, NEW r \in Registers
                 PROVE  /\ ToldBy(r) # {} => event = "CANCELLED" /\ rows[r].status # "ABSENT"
                        /\ \A a \in Attempts : told[<<a, r>>] <= 1
                        /\ Cardinality(ToldBy(r)) <= 1 + Cardinality(TimedOut)
        BY DEF ToldOnce
    <2>1. \A a \in Attempts : told[<<a, r>>] \in {0, 1}
        BY DEF TellInv, Loops
    <2>2. \A a \in ToldBy(r) : a \in Attempts /\ teller[a] # "idle" /\ rows[r].status # "ABSENT"
        BY DEF TellInv, Loops, ToldBy
    <2>3. ToldBy(r) # {} => event = "CANCELLED" /\ rows[r].status # "ABSENT"
        BY <2>2 DEF TellInv, Answered
    <2>4. \A a, b \in ToldBy(r) : a < b => a \in TimedOut
        BY <2>2 DEF TellInv, Exclusive, AtWork, GivenUp, TimedOut
    <2>5. IsFiniteSet(TimedOut) /\ IsFiniteSet(ToldBy(r))
        <3>1. IsFiniteSet(Attempts)
            BY AttemptsAssumption, FS_Interval DEF Attempts
        <3>2. QED
            BY <3>1, FS_Subset DEF TimedOut, ToldBy
    <2>6. Cardinality(TimedOut) \in Nat /\ Cardinality(ToldBy(r)) \in Nat
        BY <2>5, FS_CardinalityType
    <2>7. Cardinality(ToldBy(r)) <= 1 + Cardinality(TimedOut)
        <3>1. CASE ToldBy(r) \subseteq TimedOut
            BY <2>5, <2>6, <3>1, FS_Subset
        <3>2. ASSUME NEW x \in ToldBy(r), x \notin TimedOut
              PROVE  Cardinality(ToldBy(r)) <= 1 + Cardinality(TimedOut)
            <4>1. ToldBy(r) \subseteq Attempts /\ Attempts \subseteq Int
                BY DEF ToldBy, Attempts
            <4>2. ToldBy(r) \subseteq TimedOut \cup {x}
                <5> SUFFICES ASSUME NEW y \in ToldBy(r), y # x PROVE y \in TimedOut
                    OBVIOUS
                <5>1. x \in Int /\ y \in Int
                    BY <3>2, <4>1
                <5>2. ~(x < y)
                    BY <2>4, <3>2
                <5>3. y < x
                    BY <5>1, <5>2
                <5>4. QED
                    BY <2>4, <3>2, <5>3
            <4>3. IsFiniteSet(TimedOut \cup {x}) /\ Cardinality(TimedOut \cup {x}) = Cardinality(TimedOut) + 1
                BY <2>5, <3>2, FS_AddElement
            <4>4. Cardinality(ToldBy(r)) <= Cardinality(TimedOut \cup {x})
                BY <4>2, <4>3, FS_Subset
            <4>5. QED
                BY <2>6, <4>3, <4>4
        <3>3. QED
            BY <3>1, <3>2
    <2>8. QED
        BY <2>1, <2>3, <2>7
<1>2. QED
    BY <1>1, InitTell, NextTell, PTL DEF CSpec
=============================================================================
