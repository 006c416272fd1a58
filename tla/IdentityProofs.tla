--------------------------- MODULE IdentityProofs ---------------------------
(***************************************************************************)
(* What TLAPS proves of Identity, for any number of requests, any times to *)
(* live, any clock and any number of faults.                               *)
(***************************************************************************)
EXTENDS Identity, TLAPS

\* Who is who: the kinds of requests are apart.
LEMMA Sorts ==
    /\ \A g \in Registers : g \in Requests /\ g \notin Timed /\ g \notin Resets
                            /\ g \notin Logins /\ g \notin Refreshes /\ g \notin Forgots
    /\ \A l \in Logins : l \in Requests /\ l \in Timed /\ l \notin Registers
                         /\ l \notin Refreshes /\ l \notin Forgots /\ l \notin Resets
    /\ \A f \in Refreshes : f \in Requests /\ f \in Timed /\ f \notin Registers
                            /\ f \notin Logins /\ f \notin Forgots /\ f \notin Resets
    /\ \A q \in Forgots : q \in Requests /\ q \in Timed /\ q \notin Registers
                          /\ q \notin Logins /\ q \notin Refreshes /\ q \notin Resets
    /\ \A r \in Resets : r \in Requests /\ r \notin Timed /\ r \notin Registers
                         /\ r \notin Logins /\ r \notin Refreshes /\ r \notin Forgots
BY RequestsAssumption DEF Requests, Timed

USE DEF Untraced, InTransaction, Ended

-----------------------------------------------------------------------------
(***************************************************************************)
(* Types                                                                   *)
(***************************************************************************)
\* Where the handlers of each kind can be, and what they remember there.
Places ==
    /\ \A l \in Logins : pc[l] \in {"idle", "insert", "touch"} \cup {"answer", "ok", "lost"}
    /\ \A f \in Refreshes :
          /\ pc[f] \in {"idle", "find", "update", "answer"} \cup Ended
          /\ pc[f] \in {"find", "update", "answer", "ok"} => refresh[f] # Nothing
    /\ \A q \in Forgots : pc[q] \in {"idle", "insert", "answer", "ok", "lost"}
    /\ \A r \in Resets :
          /\ pc[r] \in {"idle", "answer"} \cup InTransaction \cup Ended
          /\ pc[r] # "idle" => reset[r] # Nothing

TypeInv == TypeOK /\ Places

LEMMA InitType == Init => TypeInv
<1> SUFFICES ASSUME Init PROVE TypeInv
    OBVIOUS
<1>1. account \in Account
    BY SeedAssumption DEF Init, Account, Passwords
<1>2. log \in Seq(Passwords)
    <2>1. Seed \in Passwords
        BY DEF Passwords
    <2>2. QED
        BY <2>1 DEF Init
<1>3. sessions \in [Logins -> Session] /\ resetTokens \in [Forgots -> ResetToken]
    BY BoundsAssumption DEF Init, Session, ResetToken, Times
<1>4. Places
    BY Sorts DEF Init, Places
<1>5. QED
    BY <1>1, <1>2, <1>3, <1>4, BoundsAssumption DEF Init, TypeInv, TypeOK, Times, PCs

LEMMA TimeTypes ==
    ASSUME TypeOK
    PROVE  /\ now \in Times
           /\ \A s \in Times : \A second \in s .. now :
                 second \in Times /\ second + RefreshTtl \in Nat /\ second + ResetTtl \in Nat
BY BoundsAssumption DEF TypeOK, Times

LEMMA LoginType ==
    ASSUME TypeInv, NEW l \in Logins,
           \/ \E password \in Passwords : LoginFind(l, password)
           \/ LoginInsert(l)
           \/ LoginTouch(l)
    PROVE  TypeInv'
<1>1. CASE \E password \in Passwords : LoginFind(l, password)
    <2> PICK password \in Passwords : LoginFind(l, password)
        BY <1>1
    <2>1. CASE Refuse(l)
        BY <2>1 DEF Refuse, vars, tables, locals, TypeInv, TypeOK, Places
    <2>2. CASE ~Refuse(l)
        <3>1. [tried |-> password, after |-> {r \in Resets : pc[r] = "ok"}] \in LoginMemory
            BY DEF LoginMemory
        <3>2. login' \in [Logins -> LoginMemory \cup {Nothing}]
            BY <2>2, <3>1 DEF LoginFind, TypeInv, TypeOK
        <3>3. since' \in [Timed -> Times]
            BY <2>2, TimeTypes DEF LoginFind, TypeInv, TypeOK
        <3>4. pc[l] = "idle" /\ pc' = [pc EXCEPT ![l] = "insert"]
            BY <2>2 DEF LoginFind, Arrive, Goto
        <3>5. pc' \in [Requests -> PCs]
            BY <3>4 DEF TypeInv, TypeOK, PCs
        <3>6. UNCHANGED <<tables, now, faults, refresh, reset>>
            BY <2>2 DEF LoginFind, Arrive
        <3>7. TypeOK'
            BY <3>2, <3>3, <3>5, <3>6 DEF tables, TypeInv, TypeOK
        <3>8. Places'
            BY <3>4, <3>6, Sorts DEF TypeInv, TypeOK, Places
        <3>9. QED
            BY <3>7, <3>8 DEF TypeInv
    <2>3. QED
        BY <2>1, <2>2
<1>2. CASE LoginInsert(l)
    <2>1. PICK second \in since[l] .. now :
              /\ since' = [since EXCEPT ![l] = second]
              /\ sessions' = [sessions EXCEPT ![l] = [state |-> "live", digest |-> second,
                                                      expires |-> second + RefreshTtl]]
        BY <1>2 DEF LoginInsert
    <2>2. second \in Times /\ second + RefreshTtl \in Nat
        BY TimeTypes, Sorts DEF TypeInv, TypeOK
    <2>3. sessions' \in [Logins -> Session] /\ since' \in [Timed -> Times]
        BY <2>1, <2>2, Sorts DEF TypeInv, TypeOK, Session
    <2>4. QED
        BY <1>2, <2>3, Sorts DEF LoginInsert, Goto, locals, TypeInv, TypeOK, Places, PCs
<1>3. CASE LoginTouch(l)
    BY <1>3, Sorts DEF LoginTouch, Goto, tables, locals, TypeInv, TypeOK, Places, PCs
<1>4. QED
    BY <1>1, <1>2, <1>3

LEMMA RefreshType ==
    ASSUME TypeInv, NEW f \in Refreshes,
           RefreshFind(f) \/ RefreshFindUser(f) \/ RefreshUpdate(f)
    PROVE  TypeInv'
<1>1. CASE RefreshFind(f)
    <2>1. PICK token \in Issued :
              \/ Refuse(f)
              \/ /\ Arrive(f, "find")
                 /\ refresh' = [refresh EXCEPT ![f] =
                       [session |-> token[1], second |-> token[2],
                        stored |-> FALSE, after |-> Stored]]
                 /\ UNCHANGED <<since, login, reset>>
        BY <1>1 DEF RefreshFind
    <2>2. token[1] \in Logins /\ token[2] \in Times
        BY Sorts DEF Issued, TypeInv, TypeOK, Places, RefreshMemory
    <2>3. [session |-> token[1], second |-> token[2], stored |-> FALSE, after |-> Stored]
              \in RefreshMemory
        BY <2>2 DEF RefreshMemory, Stored
    <2>4. CASE Refuse(f)
        BY <2>4 DEF Refuse, vars, tables, locals, TypeInv, TypeOK, Places
    <2>5. CASE ~Refuse(f)
        <3>1. refresh' \in [Refreshes -> RefreshMemory \cup {Nothing}] /\ refresh'[f] # Nothing
            BY <2>1, <2>3, <2>5, NothingAssumption DEF TypeInv, TypeOK
        <3>2. \A g \in Refreshes : g # f => refresh'[g] = refresh[g]
            BY <2>1, <2>5 DEF TypeInv, TypeOK
        <3>3. pc[f] = "idle" /\ pc' = [pc EXCEPT ![f] = "find"]
            BY <2>1, <2>5 DEF Arrive, Goto
        <3>4. UNCHANGED <<tables, now, faults, since, login, reset>>
            BY <2>1, <2>5 DEF Arrive
        <3>5. TypeOK'
            BY <3>1, <3>3, <3>4 DEF tables, TypeInv, TypeOK, PCs
        <3>6. Places'
            BY <3>1, <3>2, <3>3, <3>4, Sorts DEF TypeInv, TypeOK, Places
        <3>7. QED
            BY <3>5, <3>6 DEF TypeInv
    <2>6. QED
        BY <2>4, <2>5
<1>2. CASE RefreshFindUser(f)
    BY <1>2, TimeTypes, Sorts
    DEF RefreshFindUser, Goto, tables, locals, TypeInv, TypeOK, Places, PCs
<1>3. CASE RefreshUpdate(f)
    <2>1. refresh[f] \in RefreshMemory
        BY <1>3 DEF RefreshUpdate, Goto, TypeInv, TypeOK, Places
    <2>2. PICK second \in since[f] .. now :
              /\ since' = [since EXCEPT ![f] = second]
              /\ sessions' = [sessions EXCEPT
                                 ![refresh[f].session].digest = second,
                                 ![refresh[f].session].expires = second + RefreshTtl]
        BY <1>3 DEF RefreshUpdate
    <2>3. second \in Times /\ second + RefreshTtl \in Nat
        BY TimeTypes, Sorts DEF TypeInv, TypeOK
    <2>4. sessions' \in [Logins -> Session] /\ since' \in [Timed -> Times]
        <3> DEFINE l == refresh[f].session
                   row == [sessions[l] EXCEPT !.digest = second, !.expires = second + RefreshTtl]
        <3>1. l \in Logins /\ sessions \in [Logins -> Session]
            BY <2>1 DEF RefreshMemory, TypeInv, TypeOK
        <3>2. row \in Session
            BY <2>3, <3>1 DEF Session
        <3>3. \A k \in Logins : sessions'[k] = IF k = l THEN row ELSE sessions[k]
            BY <2>2, <3>1 DEF Session
        <3>4. sessions' = [k \in Logins |-> sessions'[k]]
            BY <2>2, <3>1
        <3>5. sessions' \in [Logins -> Session]
            <4> HIDE DEF l, row
            <4>1. QED
                BY <3>1, <3>2, <3>3, <3>4
        <3>6. QED
            BY <2>2, <2>3, <3>5 DEF TypeInv, TypeOK
    <2>5. /\ refresh' \in [Refreshes -> RefreshMemory \cup {Nothing}]
          /\ refresh'[f] # Nothing
          /\ \A g \in Refreshes : g # f => refresh'[g] = refresh[g]
        <3>1. [refresh[f] EXCEPT !.stored = TRUE] \in RefreshMemory
            BY <2>1 DEF RefreshMemory
        <3>2. QED
            BY <1>3, <3>1, NothingAssumption DEF RefreshUpdate, TypeInv, TypeOK
    <2>6. QED
        BY <1>3, <2>4, <2>5, Sorts DEF RefreshUpdate, Goto, TypeInv, TypeOK, Places, PCs
<1>4. QED
    BY <1>1, <1>2, <1>3

LEMMA RegisterType ==
    ASSUME TypeInv, NEW g \in Registers, RegisterFind(g) \/ RegisterInsert(g)
    PROVE  TypeInv'
<1>1. CASE RegisterFind(g)
    BY <1>1, Sorts
    DEF RegisterFind, Refuse, Arrive, Goto, vars, tables, locals, TypeInv, TypeOK, Places, PCs
<1>2. CASE RegisterInsert(g)
    <2>1. account' \in Account
        BY <1>2 DEF RegisterInsert, Account, Statuses, Passwords
    <2>2. g \in Passwords
        BY DEF Passwords
    <2>3. log' \in Seq(Passwords)
        BY <1>2, <2>2 DEF RegisterInsert, TypeInv, TypeOK
    <2>4. QED
        BY <1>2, <2>1, <2>3, Sorts DEF RegisterInsert, Goto, locals, TypeInv, TypeOK, Places, PCs
<1>3. QED
    BY <1>1, <1>2

LEMMA ForgotType ==
    ASSUME TypeInv, NEW q \in Forgots, ForgotFind(q) \/ ForgotInsert(q)
    PROVE  TypeInv'
<1>1. CASE ForgotFind(q)
    BY <1>1, TimeTypes, Sorts
    DEF ForgotFind, Arrive, Goto, tables, locals, TypeInv, TypeOK, Places, PCs
<1>2. CASE ForgotInsert(q)
    <2>1. PICK second \in since[q] .. now :
              /\ since' = [since EXCEPT ![q] = second]
              /\ resetTokens' = [resetTokens EXCEPT ![q] =
                                     [state |-> "open", expires |-> second + ResetTtl]]
        BY <1>2 DEF ForgotInsert
    <2>2. second \in Times /\ second + ResetTtl \in Nat
        BY TimeTypes, Sorts DEF TypeInv, TypeOK
    <2>3. resetTokens' \in [Forgots -> ResetToken] /\ since' \in [Timed -> Times]
        BY <2>1, <2>2, Sorts DEF TypeInv, TypeOK, ResetToken
    <2>4. QED
        BY <1>2, <2>3, Sorts DEF ForgotInsert, Goto, locals, TypeInv, TypeOK, Places, PCs
<1>3. QED
    BY <1>1, <1>2

\* What the steps of a reset handler have in common.
LEMMA ResetFrame ==
    ASSUME TypeInv, NEW r \in Resets,
           pc' \in [Requests -> PCs],
           pc'[r] \in {"idle", "answer"} \cup InTransaction \cup Ended,
           \A h \in Requests : h # r => pc'[h] = pc[h],
           reset' \in [Resets -> ResetMemory \cup {Nothing}],
           pc'[r] # "idle" => reset'[r] # Nothing,
           \A s \in Resets : s # r => reset'[s] = reset[s],
           UNCHANGED <<login, refresh>>
    PROVE  Places'
BY Sorts DEF TypeInv, Places

LEMMA ResetType ==
    ASSUME TypeInv, NEW r \in Resets,
           \/ \E q \in Forgots : ResetSelect(r, q)
           \/ ResetUpdateUser(r) \/ ResetRevoke(r) \/ ResetConsume(r)
           \/ ResetCommit(r) \/ ResetFails(r)
    PROVE  TypeInv'
<1>1. CASE \E q \in Forgots : ResetSelect(r, q)
    <2> PICK q \in Forgots : ResetSelect(r, q)
        BY <1>1
    <2>1. CASE Refuse(r)
        BY <2>1 DEF Refuse, vars, tables, locals, TypeInv, TypeOK, Places
    <2>2. CASE ~Refuse(r)
        <3> DEFINE memory == [token |-> q, hit |-> {}, spent |-> FALSE,
                              prior |-> {l \in Logins : sessions[l].state # "none"}]
        <3>1. reset' = [reset EXCEPT ![r] = memory]
            BY <2>2 DEF ResetSelect
        <3>2. memory \in ResetMemory
            BY DEF ResetMemory
        <3>3. /\ reset' \in [Resets -> ResetMemory \cup {Nothing}]
              /\ reset'[r] # Nothing
              /\ \A s \in Resets : s # r => reset'[s] = reset[s]
            BY <3>1, <3>2, NothingAssumption DEF TypeInv, TypeOK
        <3>4. pc' = [pc EXCEPT ![r] = "user"] /\ UNCHANGED <<tables, now, faults, since, login, refresh>>
            BY <2>2 DEF ResetSelect, Arrive, Goto
        <3>5. pc' \in [Requests -> PCs] /\ pc'[r] = "user"
              /\ \A h \in Requests : h # r => pc'[h] = pc[h]
            BY <3>4, Sorts DEF TypeInv, TypeOK, PCs
        <3>6. Places'
            BY <3>3, <3>4, <3>5, ResetFrame
        <3>7. QED
            BY <3>3, <3>4, <3>5, <3>6 DEF tables, TypeInv, TypeOK
    <2>3. QED
        BY <2>1, <2>2
<1>2. CASE ResetUpdateUser(r)
    BY <1>2, Sorts DEF ResetUpdateUser, Goto, tables, locals, TypeInv, TypeOK, Places, PCs
<1>3. CASE ResetRevoke(r) \/ ResetConsume(r)
    <2>1. reset[r] \in ResetMemory
        BY <1>3 DEF ResetRevoke, ResetConsume, Goto, TypeInv, TypeOK, Places
    <2>2. PICK memory \in ResetMemory : reset' = [reset EXCEPT ![r] = memory]
        <3>1. CASE ResetRevoke(r)
            <4>1. [reset[r] EXCEPT !.hit = {l \in Logins : sessions[l].state = "live"}]
                      \in ResetMemory
                BY <2>1 DEF ResetMemory
            <4>2. QED
                BY <3>1, <4>1 DEF ResetRevoke, TypeInv, TypeOK
        <3>2. CASE ResetConsume(r)
            <4>1. [reset[r] EXCEPT !.spent = resetTokens[reset[r].token].state = "open"]
                      \in ResetMemory
                BY <2>1 DEF ResetMemory
            <4>2. QED
                BY <3>2, <4>1 DEF ResetConsume, TypeInv, TypeOK
        <3>3. QED
            BY <1>3, <3>1, <3>2
    <2>3. /\ reset' \in [Resets -> ResetMemory \cup {Nothing}]
          /\ reset'[r] # Nothing
          /\ \A s \in Resets : s # r => reset'[s] = reset[s]
        BY <2>2, NothingAssumption DEF TypeInv, TypeOK
    <2>4. /\ pc' \in [Requests -> PCs] /\ pc'[r] \in InTransaction
          /\ \A h \in Requests : h # r => pc'[h] = pc[h]
        BY <1>3, Sorts DEF ResetRevoke, ResetConsume, Goto, TypeInv, TypeOK, PCs
    <2>5. UNCHANGED <<tables, now, faults, since, login, refresh>>
        BY <1>3 DEF ResetRevoke, ResetConsume
    <2>6. Places'
        BY <2>3, <2>4, <2>5, ResetFrame
    <2>7. QED
        BY <2>3, <2>4, <2>5, <2>6 DEF tables, TypeInv, TypeOK
<1>4. CASE ResetCommit(r)
    <2>1. reset[r] \in ResetMemory
        BY <1>4 DEF ResetCommit, Goto, TypeInv, TypeOK, Places
    <2>2. r \in Passwords
        BY DEF Passwords
    <2>3. account' \in Account /\ log' \in Seq(Passwords)
        BY <1>4, <2>2 DEF ResetCommit, Account, TypeInv, TypeOK
    <2>4. sessions' \in [Logins -> Session]
        BY <1>4 DEF ResetCommit, Session, TypeInv, TypeOK
    <2>5. resetTokens' \in [Forgots -> ResetToken]
        BY <1>4, <2>1 DEF ResetCommit, ResetToken, ResetMemory, TypeInv, TypeOK
    <2>6. /\ pc' \in [Requests -> PCs] /\ pc'[r] \in {"answer", "refused"} /\ pc[r] = "commit"
          /\ \A h \in Requests : h # r => pc'[h] = pc[h]
        BY <1>4, Sorts DEF ResetCommit, Goto, TypeInv, TypeOK, PCs
    <2>7. UNCHANGED <<now, faults, since, login, refresh, reset>>
        BY <1>4 DEF ResetCommit, locals
    <2>8. Places'
        BY <2>6, <2>7, ResetFrame DEF TypeInv, TypeOK, Places
    <2>9. QED
        BY <2>3, <2>4, <2>5, <2>6, <2>7, <2>8 DEF TypeInv, TypeOK
<1>5. CASE ResetFails(r)
    <2>1. /\ pc' \in [Requests -> PCs] /\ pc'[r] = "idle"
          /\ \A h \in Requests : h # r => pc'[h] = pc[h]
        BY <1>5, Sorts DEF ResetFails, TypeInv, TypeOK, PCs
    <2>2. /\ reset' \in [Resets -> ResetMemory \cup {Nothing}]
          /\ \A s \in Resets : s # r => reset'[s] = reset[s]
        BY <1>5 DEF ResetFails, TypeInv, TypeOK
    <2>3. Places'
        BY <1>5, <2>1, <2>2, ResetFrame DEF ResetFails
    <2>4. faults' \in 0 .. MaxFaults
        BY <1>5, BoundsAssumption DEF ResetFails, TypeInv, TypeOK
    <2>5. QED
        BY <1>5, <2>1, <2>2, <2>3, <2>4 DEF ResetFails, tables, TypeInv, TypeOK
<1>6. QED
    BY <1>1, <1>2, <1>3, <1>4, <1>5

\* The end of the process, whatever the cause.
LEMMA ProcessEndsType ==
    ASSUME TypeInv, ProcessEnds, faults' \in 0 .. MaxFaults
    PROVE  TypeInv'
<1>1. pc' \in [Requests -> PCs]
    BY DEF ProcessEnds, TypeInv, TypeOK, PCs, Running
<1>2. since' \in [Timed -> Times]
    BY BoundsAssumption DEF ProcessEnds, TypeInv, TypeOK, Times
<1>3. /\ login' \in [Logins -> LoginMemory \cup {Nothing}]
      /\ refresh' \in [Refreshes -> RefreshMemory \cup {Nothing}]
      /\ reset' \in [Resets -> ResetMemory \cup {Nothing}]
    BY DEF ProcessEnds, TypeInv, TypeOK
<1>4. Places'
    <2>1. \A h \in Requests :
              pc'[h] = IF pc[h] \in Untraced THEN "idle"
                       ELSE IF pc[h] \in Ended \cup {"idle"} THEN pc[h] ELSE "lost"
        BY DEF ProcessEnds, Running
    <2>2. /\ \A f \in Refreshes : pc[f] \notin Untraced => refresh'[f] = refresh[f]
          /\ \A r \in Resets : pc[r] \notin Untraced => reset'[r] = reset[r]
        BY DEF ProcessEnds, TypeInv, TypeOK
    <2>3. QED
        BY <2>1, <2>2, Sorts DEF TypeInv, TypeOK, Places
<1>5. QED
    BY <1>1, <1>2, <1>3, <1>4 DEF ProcessEnds, tables, TypeInv, TypeOK

LEMMA AnswerType ==
    ASSUME TypeInv, NEW h \in Requests, Answer(h)
    PROVE  TypeInv'
BY Sorts DEF Answer, Goto, tables, locals, TypeInv, TypeOK, Places, PCs

LEMMA NextType == TypeInv /\ [Next]_vars => TypeInv'
<1> SUFFICES ASSUME TypeInv, [Next]_vars PROVE TypeInv'
    OBVIOUS
<1>1. CASE Start
    BY <1>1, RegisterType, LoginType, RefreshType, ForgotType, ResetType DEF Start
<1>2. ASSUME NEW h \in Requests, Step(h) PROVE TypeInv'
    <2>1. CASE h \in Registers /\ RegisterThrows(h)
        BY <2>1, ProcessEndsType DEF RegisterThrows, TypeInv, TypeOK
    <2>2. QED
        BY <1>2, <2>1, AnswerType, RegisterType, LoginType, RefreshType, ForgotType, ResetType
        DEF Step
<1>3. CASE \E r \in Resets : ResetFails(r)
    BY <1>3, ResetType
<1>4. CASE Tick
    BY <1>4, BoundsAssumption
    DEF Tick, tables, locals, TypeInv, TypeOK, Places, Times
<1>5. CASE Crash
    BY <1>5, ProcessEndsType, BoundsAssumption DEF Crash, TypeInv, TypeOK
<1>6. CASE UNCHANGED vars
    BY <1>6 DEF vars, tables, locals, TypeInv, TypeOK, Places
<1>7. QED
    BY <1>1, <1>2, <1>3, <1>4, <1>5, <1>6 DEF Next

LEMMA TypeInvariant == Spec => []TypeInv
BY InitType, NextType, PTL DEF Spec

\* The rows and what the handlers remember keep their types.
THEOREM TypeCorrect == Spec => []TypeOK
<1>1. TypeInv => TypeOK
    BY DEF TypeInv
<1>2. QED
    BY <1>1, TypeInvariant, PTL

-----------------------------------------------------------------------------
(***************************************************************************)
(* A reset token is used once                                              *)
(***************************************************************************)
InReset(r) == pc[r] \in InTransaction

\* A transaction holds its token alone, and the token stays open until it commits.
ResetInv ==
    /\ \A q \in Forgots : pc[q] \in {"idle", "insert"} => resetTokens[q].state = "none"
    /\ \A r \in Resets :
          /\ InReset(r) => resetTokens[reset[r].token].state = "open"
          /\ pc[r] = "commit" => reset[r].spent
          /\ pc[r] # "refused"
          /\ Applied(r) <=> pc[r] \in {"answer", "ok", "lost"}
          /\ Applied(r) => resetTokens[reset[r].token].state = "consumed"
    /\ \A r1, r2 \in Resets :
          InReset(r1) /\ InReset(r2) /\ reset[r1].token = reset[r2].token => r1 = r2
    /\ ResetTokenOnce

LEMMA InitReset == Init => ResetInv
<1> SUFFICES ASSUME Init PROVE ResetInv
    OBVIOUS
<1>1. \A r \in Resets : ~Applied(r)
    BY RequestsAssumption DEF Init, Applied, Requests
<1>2. QED
    BY <1>1, Sorts DEF Init, ResetInv, InReset, ResetTokenOnce

\* What is added to the log is applied, and nothing else becomes so.
LEMMA AppendApplies ==
    ASSUME TypeInv, NEW p \in Passwords, log' = Append(log, p), NEW r \in Resets
    PROVE  Applied(r)' <=> Applied(r) \/ r = p
<1>1. log \in Seq(Passwords)
    BY DEF TypeInv, TypeOK
<1>2. Len(log') = Len(log) + 1 /\ log'[Len(log) + 1] = p
    BY <1>1
<1>3. \A i \in 1 .. Len(log) : log'[i] = log[i]
    BY <1>1
<1>4. \A i \in 1 .. Len(log) + 1 : i \in 1 .. Len(log) \/ i = Len(log) + 1
    BY <1>1
<1>5. QED
    BY <1>1, <1>2, <1>3, <1>4 DEF Applied

\* A step of a request that is not a reset.
Elsewhere ==
    \/ \E g \in Registers : RegisterFind(g) \/ RegisterInsert(g)
    \/ \E l \in Logins, password \in Passwords : LoginFind(l, password)
    \/ \E l \in Logins : LoginInsert(l) \/ LoginTouch(l)
    \/ \E f \in Refreshes : RefreshFind(f) \/ RefreshFindUser(f) \/ RefreshUpdate(f)
    \/ \E q \in Forgots : ForgotFind(q) \/ ForgotInsert(q)
    \/ \E h \in Requests \ Resets : Answer(h)

LEMMA ElsewhereQuiet ==
    ASSUME TypeInv, Elsewhere
    PROVE  /\ reset' = reset
           /\ \A r \in Resets : pc'[r] = pc[r] /\ (Applied(r)' <=> Applied(r))
<1>1. reset' = reset
    BY DEF Elsewhere, RegisterFind, RegisterInsert, LoginFind, LoginInsert, LoginTouch,
           RefreshFind, RefreshFindUser, RefreshUpdate, ForgotFind, ForgotInsert, Answer,
           Refuse, vars, locals
<1>2. \A r \in Resets : pc'[r] = pc[r]
    <2>1. pc' = pc \/ \E h \in Requests \ Resets : \E to : pc' = [pc EXCEPT ![h] = to]
        BY Sorts
        DEF Elsewhere, RegisterFind, RegisterInsert, LoginFind, LoginInsert, LoginTouch,
            RefreshFind, RefreshFindUser, RefreshUpdate, ForgotFind, ForgotInsert, Answer,
            Refuse, Arrive, Goto, vars
    <2>2. QED
        BY <2>1, Sorts DEF TypeInv, TypeOK
<1>3. ASSUME NEW r \in Resets PROVE Applied(r)' <=> Applied(r)
    <2>1. CASE log' = log
        BY <2>1 DEF Applied
    <2>2. CASE \E g \in Registers : log' = Append(log, g)
        BY <2>2, AppendApplies, Sorts DEF Passwords
    <2>3. log' = log \/ \E g \in Registers : log' = Append(log, g)
        BY DEF Elsewhere, RegisterFind, RegisterInsert, LoginFind, LoginInsert, LoginTouch,
               RefreshFind, RefreshFindUser, RefreshUpdate, ForgotFind, ForgotInsert, Answer,
               Refuse, Arrive, vars, tables
    <2>4. QED
        BY <2>1, <2>2, <2>3
<1>4. QED
    BY <1>1, <1>2, <1>3

\* Only the request that asked for a token writes it, once.
LEMMA ElsewhereTokens ==
    ASSUME TypeInv, Elsewhere, NEW q \in Forgots
    PROVE  /\ pc'[q] \in {"idle", "insert"} =>
                  pc[q] \in {"idle", "insert"} /\ resetTokens'[q] = resetTokens[q]
           /\ pc[q] \notin {"idle", "insert"} => resetTokens'[q] = resetTokens[q]
<1>1. CASE \E k \in Forgots : ForgotFind(k) \/ ForgotInsert(k)
    BY <1>1, Sorts DEF ForgotFind, ForgotInsert, Arrive, Goto, tables, TypeInv, TypeOK
<1>2. CASE \E h \in Requests \ Resets : Answer(h)
    BY <1>2 DEF Answer, Goto, tables, TypeInv, TypeOK
<1>3. CASE ~(\E k \in Forgots : ForgotFind(k) \/ ForgotInsert(k))
           /\ ~(\E h \in Requests \ Resets : Answer(h))
    <2>1. resetTokens' = resetTokens
        BY <1>3 DEF Elsewhere, RegisterFind, RegisterInsert, LoginFind, LoginInsert, LoginTouch,
               RefreshFind, RefreshFindUser, RefreshUpdate, Refuse, Arrive, vars, tables
    <2>2. pc' = pc \/ \E h \in Requests \ Forgots : \E to : pc' = [pc EXCEPT ![h] = to]
        BY <1>3, Sorts
        DEF Elsewhere, RegisterFind, RegisterInsert, LoginFind, LoginInsert, LoginTouch,
            RefreshFind, RefreshFindUser, RefreshUpdate, Refuse, Arrive, Goto, vars
    <2>3. QED
        BY <2>1, <2>2, Sorts DEF TypeInv, TypeOK
<1>4. QED
    BY <1>1, <1>2, <1>3

LEMMA ElsewhereReset == TypeInv /\ ResetInv /\ Elsewhere => ResetInv'
<1> SUFFICES ASSUME TypeInv, ResetInv, Elsewhere PROVE ResetInv'
    OBVIOUS
<1>1. \A r \in Resets : reset[r] # Nothing => reset[r].token \in Forgots
    BY DEF TypeInv, TypeOK, ResetMemory
<1>2. \A r \in Resets : InReset(r) \/ Applied(r) => reset[r].token \in Forgots
    BY <1>1 DEF TypeInv, Places, ResetInv, InReset
<1>3. \A q \in Forgots : resetTokens[q].state # "none" => resetTokens'[q] = resetTokens[q]
    BY ElsewhereTokens DEF ResetInv
<1>4. QED
    BY <1>2, <1>3, ElsewhereQuiet, ElsewhereTokens DEF ResetInv, InReset, ResetTokenOnce

\* What a transaction that begins or goes on needs: the locks keep the tokens apart.
LEMMA TransactionStep ==
    ASSUME TypeInv, ResetInv, NEW r \in Resets,
           UNCHANGED <<resetTokens, log>>,
           \A h \in Requests : h # r => pc'[h] = pc[h],
           \A s \in Resets : s # r => reset'[s] = reset[s],
           ~Applied(r),
           pc'[r] \in InTransaction \cup {"idle"},
           pc'[r] # "idle" =>
              /\ resetTokens[reset'[r].token].state = "open"
              /\ \A s \in Resets : s # r /\ InReset(s) => reset[s].token # reset'[r].token,
           pc'[r] = "commit" => reset'[r].spent
    PROVE  ResetInv'
<1>1. \A s \in Resets : Applied(s)' <=> Applied(s)
    BY DEF Applied
<1>2. \A q \in Forgots : pc'[q] = pc[q]
    BY Sorts
<1>3. \A s \in Resets : s # r => pc'[s] = pc[s]
    BY Sorts
<1>4. QED
    BY <1>1, <1>2, <1>3 DEF ResetInv, InReset, ResetTokenOnce

LEMMA ResetSteps ==
    ASSUME TypeInv, ResetInv, NEW r \in Resets,
           \/ \E q \in Forgots : ResetSelect(r, q)
           \/ ResetUpdateUser(r) \/ ResetRevoke(r) \/ ResetConsume(r)
           \/ ResetCommit(r) \/ ResetFails(r)
    PROVE  ResetInv'
<1>1. CASE \E q \in Forgots : ResetSelect(r, q)
    <2> PICK q \in Forgots : ResetSelect(r, q)
        BY <1>1
    <2>1. CASE Refuse(r)
        BY <2>1 DEF Refuse, vars, tables, locals, ResetInv, InReset, ResetTokenOnce, Applied
    <2>2. CASE ~Refuse(r)
        <3>1. Usable(q) /\ ~TokenLocked(q)
            BY <2>2 DEF ResetSelect
        <3>2. pc[r] = "idle" /\ pc' = [pc EXCEPT ![r] = "user"] /\ UNCHANGED <<resetTokens, log>>
            BY <2>2 DEF ResetSelect, Arrive, Goto, tables
        <3>3. /\ reset'[r].token = q
              /\ \A s \in Resets : s # r => reset'[s] = reset[s]
            BY <2>2 DEF ResetSelect, TypeInv, TypeOK
        <3>4. /\ pc'[r] = "user"
              /\ \A h \in Requests : h # r => pc'[h] = pc[h]
            BY <3>2, Sorts DEF TypeInv, TypeOK
        <3>5. ~Applied(r)
            BY <3>2 DEF ResetInv
        <3>6. QED
            BY <3>1, <3>2, <3>3, <3>4, <3>5, TransactionStep DEF Usable, TokenLocked, InReset
    <2>3. QED
        BY <2>1, <2>2
<1>2. CASE ResetUpdateUser(r) \/ ResetRevoke(r) \/ ResetConsume(r) \/ ResetFails(r)
    <2>1. /\ InReset(r)
          /\ pc'[r] \in InTransaction \cup {"idle"}
          /\ \A h \in Requests : h # r => pc'[h] = pc[h]
        BY <1>2, Sorts
        DEF ResetUpdateUser, ResetRevoke, ResetConsume, ResetFails, Goto, InReset, TypeInv, TypeOK
    <2>2. UNCHANGED <<resetTokens, log>> /\ \A s \in Resets : s # r => reset'[s] = reset[s]
        BY <1>2 DEF ResetUpdateUser, ResetRevoke, ResetConsume, ResetFails, tables, locals,
                    TypeInv, TypeOK
    <2>3. reset[r] \in ResetMemory
        BY <2>1 DEF InReset, TypeInv, TypeOK, Places
    <2>4. pc'[r] # "idle" => reset'[r].token = reset[r].token
        BY <1>2, <2>1, <2>3, Sorts
        DEF ResetUpdateUser, ResetRevoke, ResetConsume, ResetFails, locals, ResetMemory,
            TypeInv, TypeOK
    <2>5. pc'[r] = "commit" => reset'[r].spent
        <3>1. CASE ResetConsume(r)
            BY <2>1, <2>3, <3>1 DEF ResetConsume, ResetMemory, ResetInv, TypeInv, TypeOK
        <3>2. CASE ~ResetConsume(r)
            BY <1>2, <3>2, Sorts
            DEF ResetUpdateUser, ResetRevoke, ResetFails, Goto, TypeInv, TypeOK
        <3>3. QED
            BY <3>1, <3>2
    <2>6. /\ resetTokens[reset[r].token].state = "open"
          /\ \A s \in Resets : s # r /\ InReset(s) => reset[s].token # reset[r].token
          /\ ~Applied(r)
        BY <2>1 DEF ResetInv, InReset
    <2>7. QED
        BY <2>1, <2>2, <2>4, <2>5, <2>6, TransactionStep
<1>3. CASE ResetCommit(r)
    <2>1. /\ InReset(r) /\ pc[r] = "commit" /\ reset[r].spent
          /\ reset' = reset
          /\ log' = Append(log, r)
        BY <1>3 DEF ResetCommit, Goto, locals, ResetInv, InReset
    <2>2. reset[r].token \in Forgots
        BY <2>1 DEF InReset, TypeInv, TypeOK, Places, ResetMemory
    <2>3. \A q \in Forgots :
              /\ q # reset[r].token => resetTokens'[q] = resetTokens[q]
              /\ q = reset[r].token => resetTokens'[q].state = "consumed"
        BY <1>3, <2>1, <2>2 DEF ResetCommit, TypeInv, TypeOK, ResetToken
    <2>4. /\ pc'[r] = "answer"
          /\ \A h \in Requests : h # r => pc'[h] = pc[h]
        BY <1>3, <2>1, Sorts DEF ResetCommit, Goto, TypeInv, TypeOK
    <2>5. \A s \in Resets : Applied(s)' <=> Applied(s) \/ s = r
        BY <2>1, AppendApplies DEF Passwords
    <2>6. \A s \in Resets : InReset(s) \/ Applied(s) => reset[s].token \in Forgots
        BY DEF ResetInv, InReset, TypeInv, TypeOK, Places, ResetMemory
    <2>7. \A s \in Resets :
              /\ InReset(s) /\ s # r => reset[s].token # reset[r].token
              /\ Applied(s) => reset[s].token # reset[r].token
        BY <2>1 DEF ResetInv, InReset
    <2>8. resetTokens[reset[r].token].state = "open"
        BY <2>1 DEF ResetInv
    <2>9. \A q \in Forgots : pc'[q] \in {"idle", "insert"} => resetTokens'[q].state = "none"
        BY <2>2, <2>3, <2>4, <2>8, Sorts DEF ResetInv
    <2>10. ASSUME NEW s \in Resets
           PROVE  /\ InReset(s)' => resetTokens'[reset'[s].token].state = "open"
                  /\ pc'[s] = "commit" => reset'[s].spent
                  /\ pc'[s] # "refused"
                  /\ Applied(s)' <=> pc'[s] \in {"answer", "ok", "lost"}
                  /\ Applied(s)' => resetTokens'[reset'[s].token].state = "consumed"
        <3>1. CASE s = r
            BY <2>1, <2>2, <2>3, <2>4, <2>5, <3>1 DEF InReset
        <3>2. CASE s # r
            BY <2>1, <2>3, <2>4, <2>5, <2>6, <2>7, <3>2, Sorts DEF ResetInv, InReset
        <3>3. QED
            BY <3>1, <3>2
    <2>11. \A r1, r2 \in Resets :
              InReset(r1)' /\ InReset(r2)' /\ reset'[r1].token = reset'[r2].token => r1 = r2
        BY <2>1, <2>4, Sorts DEF ResetInv, InReset
    <2>12. ResetTokenOnce'
        BY <2>1, <2>5, <2>7 DEF ResetInv, ResetTokenOnce
    <2>13. QED
        BY <2>9, <2>10, <2>11, <2>12 DEF ResetInv
<1>4. QED
    BY <1>1, <1>2, <1>3

LEMMA ProcessEndsPlaces ==
    ASSUME TypeInv, ProcessEnds
    PROVE  /\ \A h \in Requests :
                 pc'[h] = IF pc[h] \in Untraced THEN "idle"
                          ELSE IF pc[h] \in Ended \cup {"idle"} THEN pc[h] ELSE "lost"
           /\ \A r \in Resets : pc[r] \notin Untraced => reset'[r] = reset[r]
           /\ UNCHANGED tables
BY DEF ProcessEnds, Running, TypeInv, TypeOK

LEMMA ProcessEndsReset == TypeInv /\ ResetInv /\ ProcessEnds => ResetInv'
<1> SUFFICES ASSUME TypeInv, ResetInv, ProcessEnds PROVE ResetInv'
    OBVIOUS
<1>1. UNCHANGED <<resetTokens, log>>
    BY ProcessEndsPlaces DEF tables
<1>2. \A s \in Resets : Applied(s)' <=> Applied(s)
    BY <1>1 DEF Applied
<1>3. \A s \in Resets :
          /\ pc'[s] \notin InTransaction
          /\ pc[s] \in InTransaction => pc'[s] = "idle"
          /\ pc[s] \notin InTransaction => reset'[s] = reset[s]
          /\ pc'[s] \in {"answer", "ok", "lost"} <=> pc[s] \in {"answer", "ok", "lost"}
          /\ pc'[s] = "refused" => pc[s] = "refused"
    BY ProcessEndsPlaces, Sorts DEF TypeInv, Places
<1>4. \A q \in Forgots : pc'[q] \in {"idle", "insert"} => pc[q] \in {"idle", "insert"}
    BY ProcessEndsPlaces, Sorts DEF TypeInv, Places
<1>5. QED
    BY <1>1, <1>2, <1>3, <1>4 DEF ResetInv, InReset, ResetTokenOnce

\* The steps, told apart by what they mean for the resets.
LEMMA Cases ==
    ASSUME [Next]_vars
    PROVE  \/ Elsewhere
           \/ \E r \in Resets :
                 \/ \E q \in Forgots : ResetSelect(r, q)
                 \/ ResetUpdateUser(r) \/ ResetRevoke(r) \/ ResetConsume(r)
                 \/ ResetCommit(r) \/ ResetFails(r)
           \/ \E r \in Resets : Answer(r)
           \/ ProcessEnds
           \/ UNCHANGED <<tables, pc, since, locals>>
<1>1. CASE Start
    BY <1>1 DEF Start, Elsewhere
<1>2. CASE \E h \in Requests : Step(h)
    <2> PICK h \in Requests : Step(h)
        BY <1>2
    <2>1. CASE Answer(h)
        BY <2>1 DEF Elsewhere
    <2>2. CASE ~Answer(h)
        BY <2>2 DEF Step, Elsewhere, RegisterThrows
    <2>3. QED
        BY <2>1, <2>2
<1>3. CASE (\E r \in Resets : ResetFails(r)) \/ Tick \/ Crash \/ UNCHANGED vars
    BY <1>3 DEF Tick, Crash, vars, tables, locals
<1>4. QED
    BY <1>1, <1>2, <1>3 DEF Next

LEMMA NextReset == TypeInv /\ ResetInv /\ [Next]_vars => ResetInv'
<1> SUFFICES ASSUME TypeInv, ResetInv, [Next]_vars PROVE ResetInv'
    OBVIOUS
<1>1. ASSUME NEW r \in Resets, Answer(r) PROVE ResetInv'
    <2>1. /\ UNCHANGED <<resetTokens, log, reset>>
          /\ pc[r] = "answer" /\ pc'[r] = "ok"
          /\ \A h \in Requests : h # r => pc'[h] = pc[h]
        BY <1>1, Sorts DEF Answer, Goto, tables, locals, TypeInv, TypeOK
    <2>2. \A s \in Resets : Applied(s)' <=> Applied(s)
        BY <2>1 DEF Applied
    <2>3. QED
        BY <2>1, <2>2, Sorts DEF ResetInv, InReset, ResetTokenOnce
<1>2. CASE UNCHANGED <<tables, pc, since, locals>>
    BY <1>2 DEF tables, locals, ResetInv, InReset, ResetTokenOnce, Applied
<1>3. QED
    BY <1>1, <1>2, Cases, ElsewhereReset, ResetSteps, ProcessEndsReset

LEMMA ResetInvariant == Spec => []ResetInv
BY InitType, NextType, InitReset, NextReset, PTL DEF Spec

\* No two resets change the password with one token.
THEOREM TokensAreUsedOnce == Spec => []ResetTokenOnce
<1>1. ResetInv => ResetTokenOnce
    BY DEF ResetInv
<1>2. QED
    BY <1>1, ResetInvariant, PTL

\* What a reset answers is what it has done.
THEOREM ResetsAreTruthful == Spec => []ResetTruthful
<1>1. ResetInv => ResetTruthful
    BY DEF ResetInv, ResetTruthful
<1>2. QED
    BY <1>1, ResetInvariant, PTL

-----------------------------------------------------------------------------
(***************************************************************************)
(* A reset ends the earlier sessions                                       *)
(***************************************************************************)
\* A session that was there when the transaction began stays; once the transaction has
\* come to it, it is revoked already or will be when the transaction commits.
SessionInv ==
    /\ \A l \in Logins : pc[l] \in {"idle", "insert"} => sessions[l].state = "none"
    /\ \A r \in Resets :
          /\ pc[r] # "idle" => \A l \in reset[r].prior : sessions[l].state # "none"
          /\ pc[r] \in {"consume", "commit"} =>
                /\ \A l \in reset[r].prior : l \in reset[r].hit \/ sessions[l].state = "revoked"
                /\ \A l \in reset[r].hit : sessions[l].state # "none"
    /\ EarlierSessionsEnd

LEMMA InitSession == Init => SessionInv
<1> SUFFICES ASSUME Init PROVE SessionInv
    OBVIOUS
<1>1. \A r \in Resets : ~Applied(r)
    BY RequestsAssumption DEF Init, Applied, Requests
<1>2. QED
    BY <1>1, Sorts DEF Init, SessionInv, EarlierSessionsEnd

\* A step of another request opens a session or leaves its state.
LEMMA ElsewhereSessions ==
    ASSUME TypeInv, SessionInv, Elsewhere, NEW l \in Logins
    PROVE  /\ pc'[l] \in {"idle", "insert"} =>
                  pc[l] \in {"idle", "insert"} /\ sessions'[l].state = sessions[l].state
           /\ sessions[l].state # "none" => sessions'[l].state = sessions[l].state
<1>1. CASE \E k \in Logins : \/ \E password \in Passwords : LoginFind(k, password)
                             \/ LoginInsert(k)
                             \/ LoginTouch(k)
    BY <1>1, Sorts
    DEF LoginFind, LoginInsert, LoginTouch, Refuse, Arrive, Goto, vars, tables, SessionInv,
        TypeInv, TypeOK
<1>2. CASE \E h \in Requests \ Resets : Answer(h)
    BY <1>2 DEF Answer, Goto, tables, TypeInv, TypeOK
<1>3. CASE \/ \E g \in Registers : RegisterFind(g) \/ RegisterInsert(g)
           \/ \E f \in Refreshes : RefreshFind(f) \/ RefreshFindUser(f) \/ RefreshUpdate(f)
           \/ \E q \in Forgots : ForgotFind(q) \/ ForgotInsert(q)
    <2>1. pc' = pc \/ \E h \in Requests \ Logins : \E to : pc' = [pc EXCEPT ![h] = to]
        BY <1>3, Sorts
        DEF RegisterFind, RegisterInsert, RefreshFind, RefreshFindUser, RefreshUpdate,
            ForgotFind, ForgotInsert, Refuse, Arrive, Goto, vars
    <2>2. pc'[l] = pc[l]
        BY <2>1, Sorts DEF TypeInv, TypeOK
    <2>3. sessions'[l].state = sessions[l].state
        <3>1. CASE \E f \in Refreshes : RefreshUpdate(f)
            BY <3>1 DEF RefreshUpdate, TypeInv, TypeOK, Session
        <3>2. CASE ~ \E f \in Refreshes : RefreshUpdate(f)
            BY <1>3, <3>2
            DEF RegisterFind, RegisterInsert, RefreshFind, RefreshFindUser,
                ForgotFind, ForgotInsert, Refuse, Arrive, vars, tables
        <3>3. QED
            BY <3>1, <3>2
    <2>4. QED
        BY <2>2, <2>3
<1>4. QED
    BY <1>1, <1>2, <1>3 DEF Elsewhere

\* Where the sessions of a transaction are.
LEMMA PriorSessions ==
    ASSUME TypeInv, ResetInv, NEW r \in Resets, pc[r] # "idle"
    PROVE  reset[r].prior \subseteq Logins /\ reset[r].hit \subseteq Logins
BY DEF TypeInv, TypeOK, Places, ResetMemory

LEMMA ElsewhereSession == TypeInv /\ ResetInv /\ SessionInv /\ Elsewhere => SessionInv'
<1> SUFFICES ASSUME TypeInv, ResetInv, SessionInv, Elsewhere PROVE SessionInv'
    OBVIOUS
<1>1. \A r \in Resets : Applied(r) => pc[r] # "idle"
    BY DEF ResetInv
<1>2. QED
    BY <1>1, ElsewhereSessions, ElsewhereQuiet, PriorSessions
    DEF SessionInv, EarlierSessionsEnd

LEMMA ResetSession ==
    ASSUME TypeInv, ResetInv, SessionInv, NEW r \in Resets,
           \/ \E q \in Forgots : ResetSelect(r, q)
           \/ ResetUpdateUser(r) \/ ResetRevoke(r) \/ ResetConsume(r)
           \/ ResetCommit(r) \/ ResetFails(r)
    PROVE  SessionInv'
<1>1. CASE \E q \in Forgots : ResetSelect(r, q)
    <2> PICK q \in Forgots : ResetSelect(r, q)
        BY <1>1
    <2>1. CASE Refuse(r)
        BY <2>1 DEF Refuse, vars, tables, locals, SessionInv, EarlierSessionsEnd, Applied
    <2>2. CASE ~Refuse(r)
        <3>1. /\ pc[r] = "idle" /\ pc'[r] = "user"
              /\ \A h \in Requests : h # r => pc'[h] = pc[h]
            BY <2>2, Sorts DEF ResetSelect, Arrive, Goto, TypeInv, TypeOK
        <3>2. /\ UNCHANGED <<sessions, log>>
              /\ reset'[r].prior = {l \in Logins : sessions[l].state # "none"}
              /\ \A s \in Resets : s # r => reset'[s] = reset[s]
            BY <2>2 DEF ResetSelect, Arrive, tables, TypeInv, TypeOK
        <3>3. \A s \in Resets : (Applied(s)' <=> Applied(s)) /\ (Applied(s) => s # r)
            BY <3>1, <3>2 DEF Applied, ResetInv
        <3>4. QED
            BY <3>1, <3>2, <3>3, Sorts DEF SessionInv, EarlierSessionsEnd
    <2>3. QED
        BY <2>1, <2>2
<1>2. CASE ResetUpdateUser(r) \/ ResetRevoke(r) \/ ResetConsume(r) \/ ResetFails(r)
    <2>1. /\ InReset(r)
          /\ pc'[r] \in InTransaction \cup {"idle"}
          /\ \A h \in Requests : h # r => pc'[h] = pc[h]
        BY <1>2, Sorts
        DEF ResetUpdateUser, ResetRevoke, ResetConsume, ResetFails, Goto, InReset, TypeInv, TypeOK
    <2>2. /\ UNCHANGED <<sessions, log>>
          /\ \A s \in Resets : s # r => reset'[s] = reset[s]
        BY <1>2 DEF ResetUpdateUser, ResetRevoke, ResetConsume, ResetFails, tables, locals,
                    TypeInv, TypeOK
    <2>3. reset[r] \in ResetMemory
        BY <2>1 DEF InReset, TypeInv, TypeOK, Places
    <2>4. pc'[r] # "idle" => reset'[r].prior = reset[r].prior
        BY <1>2, <2>1, <2>3, Sorts
        DEF ResetUpdateUser, ResetRevoke, ResetConsume, ResetFails, locals, ResetMemory,
            TypeInv, TypeOK
    <2>5. pc'[r] \in {"consume", "commit"} =>
              /\ \A l \in reset'[r].prior : l \in reset'[r].hit \/ sessions[l].state = "revoked"
              /\ \A l \in reset'[r].hit : sessions[l].state # "none"
        <3>1. CASE ResetRevoke(r)
            <4>1. reset'[r].hit = {l \in Logins : sessions[l].state = "live"}
                BY <2>3, <3>1 DEF ResetRevoke, ResetMemory, TypeInv, TypeOK
            <4>2. \A l \in reset[r].prior : l \in Logins /\ sessions[l].state # "none"
                BY <2>1, PriorSessions DEF InReset, SessionInv
            <4>3. \A l \in Logins : sessions[l].state \in {"none", "live", "revoked"}
                BY DEF TypeInv, TypeOK, Session
            <4>4. pc'[r] = "consume"
                BY <3>1, Sorts DEF ResetRevoke, Goto, TypeInv, TypeOK
            <4>5. QED
                BY <2>4, <4>1, <4>2, <4>3, <4>4
        <3>2. CASE ResetConsume(r)
            <4>1. reset'[r].hit = reset[r].hit /\ pc[r] = "consume" /\ pc'[r] = "commit"
                BY <2>3, <3>2, Sorts DEF ResetConsume, Goto, ResetMemory, TypeInv, TypeOK
            <4>2. QED
                BY <2>4, <4>1 DEF SessionInv
        <3>3. CASE ResetUpdateUser(r) \/ ResetFails(r)
            BY <3>3, Sorts DEF ResetUpdateUser, ResetFails, Goto, TypeInv, TypeOK
        <3>4. QED
            BY <1>2, <3>1, <3>2, <3>3
    <2>6. \A s \in Resets : (Applied(s)' <=> Applied(s)) /\ (Applied(s) => s # r)
        BY <2>1, <2>2 DEF Applied, ResetInv, InReset
    <2>7. pc[r] # "idle"
        BY <2>1 DEF InReset
    <2>8. QED
        BY <2>1, <2>2, <2>4, <2>5, <2>6, <2>7, Sorts DEF SessionInv, EarlierSessionsEnd
<1>3. CASE ResetCommit(r)
    <2>1. pc[r] = "commit" /\ pc'[r] \in {"answer", "refused"} /\ reset' = reset
        BY <1>3, Sorts DEF ResetCommit, Goto, locals, TypeInv, TypeOK
    <2>2. \A h \in Requests : h # r => pc'[h] = pc[h]
        BY <1>3, Sorts DEF ResetCommit, Goto, TypeInv, TypeOK
    <2>3. \A l \in Logins :
              sessions'[l].state = IF l \in reset[r].hit THEN "revoked" ELSE sessions[l].state
        BY <1>3 DEF ResetCommit, TypeInv, TypeOK, Session
    <2>4. \A s \in Resets : Applied(s)' <=> Applied(s) \/ s = r
        BY <1>3, AppendApplies DEF ResetCommit, Passwords
    <2>5. \A l \in reset[r].hit : l \in Logins /\ pc[l] \notin {"idle", "insert"}
        BY <2>1, PriorSessions DEF SessionInv
    <2>6. \A s \in Resets : pc[s] # "idle" => reset[s].prior \subseteq Logins
        BY PriorSessions
    <2>7. \A s \in Resets : Applied(s) => pc[s] # "idle"
        BY DEF ResetInv
    <2>8. \A l \in Logins : pc'[l] \in {"idle", "insert"} => sessions'[l].state = "none"
        BY <2>2, <2>3, <2>5, Sorts DEF SessionInv
    <2>9. \A l \in Logins : sessions[l].state # "none" => sessions'[l].state # "none"
        BY <2>3
    <2>10. \A l \in Logins : sessions[l].state = "revoked" => sessions'[l].state = "revoked"
        BY <2>3
    <2>11. ASSUME NEW s \in Resets
           PROVE  /\ pc'[s] # "idle" => \A l \in reset'[s].prior : sessions'[l].state # "none"
                  /\ pc'[s] \in {"consume", "commit"} =>
                        /\ \A l \in reset'[s].prior :
                              l \in reset'[s].hit \/ sessions'[l].state = "revoked"
                        /\ \A l \in reset'[s].hit : sessions'[l].state # "none"
                  /\ Applied(s)' => \A l \in reset'[s].prior : sessions'[l].state = "revoked"
        <3>1. CASE s = r
            BY <2>1, <2>3, <2>6, <2>9, <3>1 DEF SessionInv
        <3>2. CASE s # r
            <4>1. pc'[s] = pc[s] /\ (Applied(s)' <=> Applied(s))
                BY <2>2, <2>4, <3>2, Sorts
            <4>2. pc[s] # "idle" => reset[s].prior \subseteq Logins /\ reset[s].hit \subseteq Logins
                BY PriorSessions
            <4>3. QED
                BY <2>1, <2>7, <2>9, <2>10, <4>1, <4>2 DEF SessionInv, EarlierSessionsEnd
        <3>3. QED
            BY <3>1, <3>2
    <2>12. QED
        BY <2>8, <2>11 DEF SessionInv, EarlierSessionsEnd
<1>4. QED
    BY <1>1, <1>2, <1>3

LEMMA ProcessEndsSession == TypeInv /\ ResetInv /\ SessionInv /\ ProcessEnds => SessionInv'
<1> SUFFICES ASSUME TypeInv, ResetInv, SessionInv, ProcessEnds PROVE SessionInv'
    OBVIOUS
<1>1. UNCHANGED <<sessions, log>>
    BY ProcessEndsPlaces DEF tables
<1>2. \A s \in Resets : Applied(s)' <=> Applied(s)
    BY <1>1 DEF Applied
<1>3. \A s \in Resets :
          /\ pc'[s] \notin InTransaction
          /\ pc'[s] # "idle" => pc[s] # "idle" /\ reset'[s] = reset[s]
          /\ Applied(s) => reset'[s] = reset[s]
    BY ProcessEndsPlaces, Sorts DEF TypeInv, Places, ResetInv
<1>4. \A l \in Logins : pc'[l] \in {"idle", "insert"} => pc[l] \in {"idle", "insert"}
    BY ProcessEndsPlaces, Sorts DEF TypeInv, Places
<1>5. QED
    BY <1>1, <1>2, <1>3, <1>4 DEF SessionInv, EarlierSessionsEnd

LEMMA NextSession == TypeInv /\ ResetInv /\ SessionInv /\ [Next]_vars => SessionInv'
<1> SUFFICES ASSUME TypeInv, ResetInv, SessionInv, [Next]_vars PROVE SessionInv'
    OBVIOUS
<1>1. ASSUME NEW r \in Resets, Answer(r) PROVE SessionInv'
    <2>1. /\ UNCHANGED <<sessions, log, reset>>
          /\ pc[r] = "answer" /\ pc'[r] = "ok"
          /\ \A h \in Requests : h # r => pc'[h] = pc[h]
        BY <1>1, Sorts DEF Answer, Goto, tables, locals, TypeInv, TypeOK
    <2>2. \A s \in Resets : Applied(s)' <=> Applied(s)
        BY <2>1 DEF Applied
    <2>3. QED
        BY <2>1, <2>2, Sorts DEF SessionInv, EarlierSessionsEnd
<1>2. CASE UNCHANGED <<tables, pc, since, locals>>
    BY <1>2 DEF tables, locals, SessionInv, EarlierSessionsEnd, Applied
<1>3. QED
    BY <1>1, <1>2, Cases, ElsewhereSession, ResetSession, ProcessEndsSession

LEMMA SessionInvariant == Spec => []SessionInv
BY InitSession, NextSession, TypeInvariant, ResetInvariant, PTL DEF Spec

\* What a reset finds when it begins is over when it is done, and for good.
THEOREM ResetsEndSessions == Spec => []EarlierSessionsEnd
<1>1. SessionInv => EarlierSessionsEnd
    BY DEF SessionInv
<1>2. QED
    BY <1>1, SessionInvariant, PTL

-----------------------------------------------------------------------------
(***************************************************************************)
(* The passwords, in the order they were stored                            *)
(***************************************************************************)
\* The password of login l was not replaced by one of the resets it comes after.
TriedInTime(l) ==
    ~ \E i, j \in 1 .. Len(log) : i < j /\ log[i] = login[l].tried /\ log[j] \in login[l].after

\* No password is stored twice, and the account has the last one.
LogInv ==
    /\ \A i, j \in 1 .. Len(log) : log[i] = log[j] => i = j
    /\ account.status = "none" <=> Len(log) = 0
    /\ Len(log) > 0 => account.password = log[Len(log)]
    /\ \A g \in Registers : pc[g] \in {"answer", "ok"} => Len(log) > 0 /\ log[1] = g
    /\ \A l \in Logins : pc[l] # "idle" =>
          /\ login[l] # Nothing
          /\ \A r \in login[l].after : Applied(r)
          /\ TriedInTime(l)

LEMMA InitLog == Init => LogInv
BY Sorts DEF Init, LogInv

\* Steps that neither store a password nor read one.
Silent ==
    /\ UNCHANGED <<account, log>>
    /\ \A g \in Registers : pc'[g] \in {"answer", "ok"} => pc[g] \in {"answer", "ok"}
    /\ \A l \in Logins : pc'[l] # "idle" => pc[l] # "idle" /\ login'[l] = login[l]

LEMMA SilentLog == LogInv /\ Silent => LogInv'
BY DEF LogInv, Silent, TriedInTime, Applied

LEMMA LogCases ==
    ASSUME TypeInv, [Next]_vars
    PROVE  \/ \E g \in Registers : RegisterInsert(g)
           \/ \E l \in Logins, password \in Passwords : LoginFind(l, password)
           \/ \E r \in Resets : ResetCommit(r)
           \/ Silent
<1>1. CASE Elsewhere
    <2>1. CASE \E g \in Registers : RegisterFind(g)
        BY <2>1, Sorts
        DEF RegisterFind, Refuse, Arrive, Goto, vars, tables, locals, Silent, TypeInv, TypeOK
    <2>2. CASE \E l \in Logins : LoginInsert(l) \/ LoginTouch(l)
        BY <2>2, Sorts DEF LoginInsert, LoginTouch, Goto, tables, locals, Silent, TypeInv, TypeOK
    <2>3. CASE \E f \in Refreshes : RefreshFind(f) \/ RefreshFindUser(f) \/ RefreshUpdate(f)
        <3>1. UNCHANGED <<account, log, login>>
            BY <2>3
            DEF RefreshFind, RefreshFindUser, RefreshUpdate, Refuse, Arrive, vars, tables, locals
        <3>2. pc' = pc \/ \E f \in Refreshes : \E to : pc' = [pc EXCEPT ![f] = to]
            BY <2>3
            DEF RefreshFind, RefreshFindUser, RefreshUpdate, Refuse, Arrive, Goto, vars
        <3>3. QED
            BY <3>1, <3>2, Sorts DEF Silent, TypeInv, TypeOK
    <2>4. CASE \E q \in Forgots : ForgotFind(q) \/ ForgotInsert(q)
        BY <2>4, Sorts
        DEF ForgotFind, ForgotInsert, Arrive, Goto, tables, locals, Silent, TypeInv, TypeOK
    <2>5. CASE \E h \in Requests \ Resets : Answer(h)
        BY <2>5, Sorts DEF Answer, Goto, tables, locals, Silent, TypeInv, TypeOK
    <2>6. QED
        BY <1>1, <2>1, <2>2, <2>3, <2>4, <2>5 DEF Elsewhere
<1>2. ASSUME NEW r \in Resets,
             \/ \E q \in Forgots : ResetSelect(r, q)
             \/ ResetUpdateUser(r) \/ ResetRevoke(r) \/ ResetConsume(r)
             \/ ResetFails(r) \/ Answer(r)
      PROVE  Silent
    <2>1. UNCHANGED <<account, log, login>>
        BY <1>2
        DEF ResetSelect, ResetUpdateUser, ResetRevoke, ResetConsume, ResetFails, Answer,
            Refuse, Arrive, vars, tables, locals
    <2>2. pc' = pc \/ \E to : pc' = [pc EXCEPT ![r] = to]
        BY <1>2
        DEF ResetSelect, ResetUpdateUser, ResetRevoke, ResetConsume, ResetFails, Answer,
            Refuse, Arrive, Goto, vars
    <2>3. QED
        BY <2>1, <2>2, Sorts DEF Silent, TypeInv, TypeOK
<1>3. CASE ProcessEnds
    <2>1. \A l \in Logins : pc[l] \notin Untraced => login'[l] = login[l]
        BY <1>3 DEF ProcessEnds, TypeInv, TypeOK
    <2>2. QED
        BY <1>3, <2>1, ProcessEndsPlaces, Sorts DEF Silent, tables
<1>4. CASE UNCHANGED <<tables, pc, since, locals>>
    BY <1>4 DEF tables, locals, Silent
<1>5. QED
    BY <1>1, <1>2, <1>3, <1>4, Cases

LEMMA RegisterLog ==
    ASSUME TypeInv, LogInv, NEW g \in Registers, RegisterInsert(g)
    PROVE  LogInv'
<1>1. log' = Append(log, g) /\ log \in Seq(Passwords) /\ Len(log) = 0
    BY DEF RegisterInsert, Exists, LogInv, TypeInv, TypeOK
<1>2. Len(log') = 1 /\ log'[1] = g
    BY <1>1
<1>3. account'.status = "ACTIVE" /\ account'.password = g
    BY DEF RegisterInsert
<1>4. /\ pc'[g] = "answer" /\ login' = login
      /\ \A h \in Requests : h # g => pc'[h] = pc[h]
    BY Sorts DEF RegisterInsert, Goto, locals, TypeInv, TypeOK
<1>5. \A l \in Logins : login[l] # Nothing =>
          \A r \in login[l].after : r \in Resets /\ (Applied(r)' <=> Applied(r) \/ r = g)
    BY <1>1, AppendApplies DEF TypeInv, TypeOK, LoginMemory, Passwords
<1>6. ~ \E i, j \in 1 .. Len(log') : i < j
    BY <1>2
<1>7. QED
    BY <1>1, <1>2, <1>3, <1>4, <1>5, <1>6, Sorts DEF LogInv, TriedInTime

LEMMA LoginLog ==
    ASSUME TypeInv, ResetInv, LogInv, NEW l \in Logins, NEW password \in Passwords,
           LoginFind(l, password)
    PROVE  LogInv'
<1>1. CASE Refuse(l)
    BY <1>1 DEF Refuse, vars, tables, locals, LogInv, TriedInTime, Applied
<1>2. CASE ~Refuse(l)
    <2>1. /\ UNCHANGED <<account, log>>
          /\ pc' = [pc EXCEPT ![l] = "insert"]
          /\ login' = [login EXCEPT ![l] = [tried |-> password,
                                            after |-> {r \in Resets : pc[r] = "ok"}]]
          /\ account.status = "ACTIVE" /\ password = account.password
        BY <1>2 DEF LoginFind, Arrive, Goto, Accepts, tables
    <2>2. /\ \A h \in Requests : h # l => pc'[h] = pc[h]
          /\ \A k \in Logins : k # l => login'[k] = login[k]
          /\ login'[l] = [tried |-> password, after |-> {r \in Resets : pc[r] = "ok"}]
        BY <2>1 DEF TypeInv, TypeOK
    <2>3. login'[l] \in LoginMemory
        BY <2>2 DEF LoginMemory
    <2>4. log \in Seq(Passwords) /\ Len(log) > 0 /\ log[Len(log)] = password
        BY <2>1 DEF LogInv, TypeInv, TypeOK
    <2>5. \A r \in login'[l].after : Applied(r)
        BY <2>2 DEF ResetInv
    <2>6. TriedInTime(l)'
        <3>1. Len(log) \in 1 .. Len(log) /\ Len(log) \in Nat
            BY <2>4
        <3>2. ASSUME NEW i \in 1 .. Len(log), log[i] = password PROVE i = Len(log)
            BY <2>4, <3>1, <3>2 DEF LogInv
        <3>3. ~ \E i, j \in 1 .. Len(log) : i < j /\ log[i] = password
            BY <3>1, <3>2
        <3>4. login'[l].tried = password /\ log' = log
            BY <2>1, <2>2
        <3>5. QED
            BY <3>3, <3>4 DEF TriedInTime
    <2>7. \A r : Applied(r)' <=> Applied(r)
        BY <2>1 DEF Applied
    <2>8. ASSUME NEW k \in Logins, k # l, pc'[k] # "idle"
          PROVE  /\ login'[k] # Nothing
                 /\ \A r \in login'[k].after : Applied(r)'
                 /\ TriedInTime(k)'
        BY <2>1, <2>2, <2>7, <2>8, Sorts DEF LogInv, TriedInTime
    <2>9. \A g \in Registers : pc'[g] = pc[g]
        BY <2>2, Sorts
    <2>10. login'[l] # Nothing
        BY <2>3, NothingAssumption
    <2>11. QED
        BY <2>1, <2>5, <2>6, <2>7, <2>8, <2>9, <2>10 DEF LogInv
<1>3. QED
    BY <1>1, <1>2

\* Somebody who has a token has an account.
AccountInv ==
    \A q \in Forgots : pc[q] = "insert" \/ resetTokens[q].state = "open" => Exists

LEMMA NextAccount == TypeInv /\ ResetInv /\ AccountInv /\ [Next]_vars => AccountInv'
<1> SUFFICES ASSUME TypeInv, ResetInv, AccountInv, [Next]_vars, NEW q \in Forgots,
                    pc'[q] = "insert" \/ resetTokens'[q].state = "open"
             PROVE  Exists'
    BY DEF AccountInv
<1>1. Exists => Exists'
    <2>1. CASE \E g \in Registers : RegisterInsert(g)
        BY <2>1 DEF RegisterInsert, Exists
    <2>2. CASE \E l \in Logins, password \in Passwords : LoginFind(l, password)
        BY <2>2 DEF LoginFind, Refuse, Arrive, vars, tables, Exists
    <2>3. CASE \E r \in Resets : ResetCommit(r)
        BY <2>3 DEF ResetCommit, Exists, TypeInv, TypeOK, Account
    <2>4. CASE Silent
        BY <2>4 DEF Silent, Exists
    <2>5. QED
        BY <2>1, <2>2, <2>3, <2>4, LogCases
<1>2. CASE Elsewhere
    <2>1. CASE \E k \in Forgots : ForgotFind(k) \/ ForgotInsert(k)
        BY <1>1, <2>1, Sorts
        DEF ForgotFind, ForgotInsert, Arrive, Goto, tables, AccountInv, TypeInv, TypeOK
    <2>2. CASE ~ \E k \in Forgots : ForgotFind(k) \/ ForgotInsert(k)
        <3>1. resetTokens' = resetTokens
            BY <1>2, <2>2
            DEF Elsewhere, RegisterFind, RegisterInsert, LoginFind, LoginInsert, LoginTouch,
                RefreshFind, RefreshFindUser, RefreshUpdate, Answer, Refuse, Arrive, vars, tables
        <3>2. pc'[q] = "insert" => pc[q] = "insert"
            <4>1. CASE \E h \in Requests \ Resets : Answer(h)
                BY <4>1 DEF Answer, Goto, TypeInv, TypeOK
            <4>2. CASE ~ \E h \in Requests \ Resets : Answer(h)
                <5>1. pc' = pc \/ \E h \in Requests \ Forgots : \E to : pc' = [pc EXCEPT ![h] = to]
                    BY <1>2, <2>2, <4>2, Sorts
                    DEF Elsewhere, RegisterFind, RegisterInsert, LoginFind, LoginInsert,
                        LoginTouch, RefreshFind, RefreshFindUser, RefreshUpdate, Refuse, Arrive,
                        Goto, vars
                <5>2. QED
                    BY <5>1, Sorts DEF TypeInv, TypeOK
            <4>3. QED
                BY <4>1, <4>2
        <3>3. QED
            BY <1>1, <3>1, <3>2 DEF AccountInv
    <2>3. QED
        BY <2>1, <2>2
<1>3. ASSUME NEW r \in Resets,
             \/ \E k \in Forgots : ResetSelect(r, k)
             \/ ResetUpdateUser(r) \/ ResetRevoke(r) \/ ResetConsume(r)
             \/ ResetFails(r) \/ Answer(r) \/ ResetCommit(r)
      PROVE  Exists'
    <2>1. pc'[q] = pc[q]
        <3>1. pc' = pc \/ \E to : pc' = [pc EXCEPT ![r] = to]
            BY <1>3
            DEF ResetSelect, ResetUpdateUser, ResetRevoke, ResetConsume, ResetFails, ResetCommit,
                Answer, Refuse, Arrive, Goto, vars
        <3>2. QED
            BY <3>1, Sorts DEF TypeInv, TypeOK
    <2>2. resetTokens'[q].state = "open" => resetTokens[q].state = "open"
        <3>1. CASE ResetCommit(r)
            BY <3>1 DEF ResetCommit, TypeInv, TypeOK, ResetToken
        <3>2. CASE ~ResetCommit(r)
            BY <1>3, <3>2
            DEF ResetSelect, ResetUpdateUser, ResetRevoke, ResetConsume, ResetFails, Answer,
                Refuse, Arrive, vars, tables
        <3>3. QED
            BY <3>1, <3>2
    <2>3. QED
        BY <1>1, <2>1, <2>2 DEF AccountInv
<1>4. CASE ProcessEnds
    BY <1>1, <1>4, ProcessEndsPlaces, Sorts DEF AccountInv, tables
<1>5. CASE UNCHANGED <<tables, pc, since, locals>>
    BY <1>1, <1>5 DEF AccountInv, tables
<1>6. QED
    BY <1>2, <1>3, <1>4, <1>5, Cases

LEMMA ResetLog ==
    ASSUME TypeInv, ResetInv, LogInv, AccountInv, NEW r \in Resets, ResetCommit(r)
    PROVE  LogInv'
<1> DEFINE n == Len(log)
<1>1. log \in Seq(Passwords) /\ n \in Nat /\ log' = Append(log, r)
    BY DEF ResetCommit, TypeInv, TypeOK
<1>2. Len(log') = n + 1 /\ log'[n + 1] = r /\ \A i \in 1 .. n : log'[i] = log[i]
    BY <1>1
<1>3. ~Applied(r)
    BY DEF ResetCommit, Goto, ResetInv
<1>4. \A i \in 1 .. n : log[i] # r
    BY <1>3 DEF Applied
<1>5. account.status # "none" /\ n > 0
    <2>1. reset[r].token \in Forgots /\ resetTokens[reset[r].token].state = "open"
        BY DEF ResetCommit, Goto, ResetInv, InReset, TypeInv, TypeOK, Places, ResetMemory
    <2>2. QED
        BY <1>1, <2>1 DEF AccountInv, Exists, LogInv
<1>6. /\ \A h \in Requests : h # r => pc'[h] = pc[h]
      /\ login' = login
      /\ account'.status = account.status /\ account'.password = r
    BY Sorts DEF ResetCommit, Goto, locals, TypeInv, TypeOK, Account
<1>7. \A i \in 1 .. n + 1 : i \in 1 .. n \/ i = n + 1
    BY <1>1
<1>8. \A i, j \in 1 .. Len(log') : log'[i] = log'[j] => i = j
    BY <1>1, <1>2, <1>4, <1>7 DEF LogInv
<1>9. ASSUME NEW l \in Logins, pc'[l] # "idle"
      PROVE  /\ login'[l] # Nothing
             /\ \A s \in login'[l].after : Applied(s)'
             /\ TriedInTime(l)'
    <2>1. /\ login[l] # Nothing
          /\ \A s \in login[l].after : Applied(s)
          /\ TriedInTime(l)
        BY <1>6, <1>9, Sorts DEF LogInv
    <2>2. \A s \in login[l].after : Applied(s)'
        BY <1>1, <1>2, <2>1 DEF Applied
    <2>3. r \notin login[l].after
        BY <1>3, <2>1
    <2>4. ASSUME NEW i \in 1 .. n + 1, NEW j \in 1 .. n + 1, i < j,
                 log'[i] = login[l].tried, log'[j] \in login[l].after
          PROVE  FALSE
        <3>1. j \in 1 .. n
            BY <1>2, <1>7, <2>3, <2>4
        <3>2. i \in 1 .. n
            BY <1>1, <2>4, <3>1
        <3>3. QED
            BY <1>2, <2>1, <2>4, <3>1, <3>2 DEF TriedInTime
    <2>5. QED
        BY <1>2, <1>6, <2>1, <2>2, <2>4 DEF TriedInTime
<1>10. \A g \in Registers : pc'[g] = pc[g]
    BY <1>6, Sorts
<1>11. ASSUME NEW g \in Registers, pc'[g] \in {"answer", "ok"} PROVE Len(log') > 0 /\ log'[1] = g
    BY <1>1, <1>2, <1>5, <1>10, <1>11 DEF LogInv
<1>12. QED
    BY <1>1, <1>2, <1>5, <1>6, <1>8, <1>9, <1>11 DEF LogInv

LEMMA NextLog == TypeInv /\ ResetInv /\ AccountInv /\ LogInv /\ [Next]_vars => LogInv'
BY LogCases, RegisterLog, LoginLog, ResetLog, SilentLog

LEMMA InitAccount == Init => AccountInv
BY Sorts DEF Init, AccountInv

LEMMA LogInvariant == Spec => [](LogInv /\ TypeInv)
<1>1. Spec => []AccountInv
    BY InitAccount, NextAccount, TypeInvariant, ResetInvariant, PTL DEF Spec
<1>2. QED
    BY <1>1, InitLog, NextLog, TypeInvariant, ResetInvariant, PTL DEF Spec

\* A login that comes after the answer to a reset needs the new password.
THEOREM OldPasswordsAreRefused == Spec => []OldPasswordRefused
<1>1. LogInv /\ SessionInv => OldPasswordRefused
    BY DEF LogInv, SessionInv, OldPasswordRefused, TriedInTime
<1>2. QED
    BY <1>1, LogInvariant, SessionInvariant, PTL

\* The account of a registration that succeeds is the first and only one.
THEOREM RegistrationsAreKept == Spec => []RegistrationKept
<1>1. LogInv /\ TypeInv => RegistrationKept
    <2> SUFFICES ASSUME LogInv, TypeInv, NEW g \in Registers, pc[g] = "ok",
                        NEW i \in 1 .. Len(log)
                 PROVE  log[i] = g <=> i = 1
        BY DEF RegistrationKept
    <2>1. log[1] = g /\ 1 \in 1 .. Len(log)
        BY DEF LogInv, TypeInv, TypeOK
    <2>2. QED
        BY <2>1 DEF LogInv
<1>2. QED
    BY <1>1, LogInvariant, PTL

-----------------------------------------------------------------------------
(***************************************************************************)
(* A refresh token is exchanged once                                       *)
(***************************************************************************)
\* A refresh that was stored has signed the token of session l in that second.
Signed(l, second) == \E h \in Stored : refresh[h].session = l /\ since[h] = second

\* A session that was refreshed has the digest of one of its stored successors; what a
\* refresh found stored when it began had replaced the token by then.
ExchangeInv ==
    /\ \A f \in Refreshes : pc[f] \in {"idle", "find", "update", "refused"} => f \notin Stored
    /\ \A f \in Refreshes : refresh[f] # Nothing => pc[refresh[f].session] = "ok"
    /\ \A g \in Stored : Signed(refresh[g].session, sessions[refresh[g].session].digest)
    /\ \A f \in Refreshes : refresh[f] # Nothing =>
          \A g \in refresh[f].after :
              /\ g \in Stored
              /\ refresh[g].session = refresh[f].session
                    => Signed(refresh[f].session, refresh[f].second)

LEMMA InitExchange == Init => ExchangeInv
BY DEF Init, ExchangeInv, Stored

LEMMA RefreshTypes ==
    ASSUME TypeInv, NEW f \in Refreshes, refresh[f] # Nothing
    PROVE  /\ refresh[f] \in RefreshMemory
           /\ refresh[f].session \in Logins
           /\ refresh[f].after \subseteq Refreshes
BY DEF TypeInv, TypeOK, RefreshMemory

\* Steps that store no token, and at most forget a refresh that has stored none.
LEMMA ExchangeFrame ==
    ASSUME TypeInv, ExchangeInv,
           \A f \in Refreshes : refresh'[f] = refresh[f] \/ (f \notin Stored /\ refresh'[f] = Nothing),
           \A f \in Stored : since'[f] = since[f],
           \A f \in Refreshes : pc'[f] \in {"idle", "find", "update", "refused"}
                                   => pc[f] \in {"idle", "find", "update", "refused"},
           \A l \in Logins : pc[l] = "ok" =>
              pc'[l] = "ok" /\ sessions'[l].digest = sessions[l].digest
    PROVE  ExchangeInv'
<1>1. Stored' = Stored
    BY DEF Stored
<1>2. \A f \in Stored : f \in Refreshes /\ refresh[f] # Nothing /\ refresh'[f] = refresh[f]
    BY DEF Stored
<1>3. \A l, second : Signed(l, second)' <=> Signed(l, second)
    BY <1>1, <1>2 DEF Signed
<1>4. \A f \in Refreshes : f \notin Stored /\ pc'[f] \in {"idle", "find", "update", "refused"}
                              => f \notin Stored'
    BY <1>1
<1>5. \A f \in Refreshes : refresh'[f] # Nothing => refresh'[f] = refresh[f]
    OBVIOUS
<1>6. \A f \in Refreshes : refresh'[f] # Nothing => pc'[refresh'[f].session] = "ok"
    BY <1>5, RefreshTypes DEF ExchangeInv
<1>7. ASSUME NEW g \in Stored'
      PROVE  Signed(refresh[g].session, sessions[refresh[g].session].digest)'
    <2>1. g \in Stored /\ refresh'[g] = refresh[g] /\ refresh[g].session \in Logins
        BY <1>1, <1>2, <1>7, RefreshTypes
    <2>2. sessions'[refresh'[g].session].digest = sessions[refresh[g].session].digest
        BY <1>2, <2>1 DEF ExchangeInv
    <2>3. QED
        BY <1>3, <2>1, <2>2 DEF ExchangeInv
<1>8. ASSUME NEW f \in Refreshes, refresh'[f] # Nothing, NEW g \in refresh'[f].after
      PROVE  /\ g \in Stored'
             /\ refresh'[g].session = refresh'[f].session
                   => Signed(refresh[f].session, refresh[f].second)'
    BY <1>1, <1>2, <1>3, <1>5, <1>8 DEF ExchangeInv
<1>9. \A f \in Refreshes : pc'[f] \in {"idle", "find", "update", "refused"} => f \notin Stored'
    BY <1>1 DEF ExchangeInv
<1>10. QED
    BY <1>6, <1>7, <1>8, <1>9 DEF ExchangeInv

\* A refresh that begins has compared its token with the digest in the row.
LEMMA FindExchange ==
    ASSUME TypeInv, ExchangeInv, NEW f \in Refreshes, RefreshFind(f)
    PROVE  ExchangeInv'
<1> PICK token \in Issued :
        \/ Refuse(f)
        \/ /\ Exchangeable(token[1], token[2])
           /\ Arrive(f, "find")
           /\ refresh' = [refresh EXCEPT ![f] = [session |-> token[1], second |-> token[2],
                                                 stored |-> FALSE, after |-> Stored]]
           /\ UNCHANGED <<since, login, reset>>
    BY DEF RefreshFind
<1>1. CASE Refuse(f)
    BY <1>1, ExchangeFrame DEF Refuse, vars, tables, locals
<1>2. CASE ~Refuse(f)
    <2>1. /\ pc[f] = "idle" /\ pc' = [pc EXCEPT ![f] = "find"]
          /\ UNCHANGED <<sessions, since>>
          /\ refresh' = [refresh EXCEPT ![f] = [session |-> token[1], second |-> token[2],
                                                stored |-> FALSE, after |-> Stored]]
          /\ sessions[token[1]].digest = token[2]
        BY <1>2 DEF Arrive, Goto, tables, Exchangeable
    <2>2. /\ \A g \in Refreshes : g # f => refresh'[g] = refresh[g]
          /\ refresh'[f] = [session |-> token[1], second |-> token[2],
                            stored |-> FALSE, after |-> Stored]
          /\ \A h \in Requests : h # f => pc'[h] = pc[h]
          /\ pc'[f] = "find"
        BY <2>1, Sorts DEF TypeInv, TypeOK
    <2>3. f \notin Stored
        BY <2>1 DEF ExchangeInv
    <2>4. Stored' = Stored
        BY <2>2, <2>3 DEF Stored
    <2>5. \A g \in Stored : g # f /\ g \in Refreshes /\ refresh[g] # Nothing
                            /\ refresh'[g] = refresh[g]
        BY <2>2, <2>3 DEF Stored
    <2>6. \A l, second : Signed(l, second)' <=> Signed(l, second)
        BY <2>1, <2>4, <2>5 DEF Signed
    <2>7. token[1] \in Logins /\ pc[token[1]] = "ok"
        <3>1. CASE token \in {<<l, since[l]>> : l \in {l \in Logins : pc[l] = "ok"}}
            BY <3>1
        <3>2. CASE token \in {<<refresh[g].session, since[g]>> :
                                 g \in {g \in Refreshes : pc[g] = "ok"}}
            <4>1. PICK g \in Refreshes : pc[g] = "ok" /\ token = <<refresh[g].session, since[g]>>
                BY <3>2
            <4>2. refresh[g] # Nothing
                BY <4>1 DEF TypeInv, Places
            <4>3. QED
                BY <4>1, <4>2, RefreshTypes DEF ExchangeInv
        <3>3. QED
            BY <3>1, <3>2 DEF Issued
    <2>8. \A l \in Logins : pc'[l] = pc[l]
        BY <2>2, Sorts
    <2>9. \A g \in Refreshes : pc'[g] \in {"idle", "find", "update", "refused"} => g \notin Stored'
        BY <2>2, <2>3, <2>4, Sorts DEF ExchangeInv
    <2>10. \A g \in Refreshes : refresh'[g] # Nothing => pc'[refresh'[g].session] = "ok"
        BY <2>2, <2>7, <2>8, RefreshTypes DEF ExchangeInv
    <2>11. \A g \in Stored' : Signed(refresh[g].session, sessions[refresh[g].session].digest)'
        BY <2>1, <2>4, <2>5, <2>6 DEF ExchangeInv
    <2>12. ASSUME NEW e \in Refreshes, refresh'[e] # Nothing, NEW g \in refresh'[e].after
           PROVE  /\ g \in Stored'
                  /\ refresh'[g].session = refresh'[e].session
                        => Signed(refresh[e].session, refresh[e].second)'
        <3>1. CASE e = f
            <4>1. g \in Stored /\ refresh'[g] = refresh[g]
                BY <2>2, <2>5, <2>12, <3>1
            <4>2. Signed(refresh[g].session, sessions[refresh[g].session].digest)
                BY <4>1 DEF ExchangeInv
            <4>3. QED
                BY <2>1, <2>2, <2>4, <2>6, <3>1, <4>1, <4>2
        <3>2. CASE e # f
            BY <2>2, <2>4, <2>5, <2>6, <2>12, <3>2 DEF ExchangeInv
        <3>3. QED
            BY <3>1, <3>2
    <2>13. QED
        BY <2>9, <2>10, <2>11, <2>12 DEF ExchangeInv
<1>3. QED
    BY <1>1, <1>2

\* A refresh that stores its token is the last successor of its session.
LEMMA UpdateExchange ==
    ASSUME TypeInv, ExchangeInv, NEW f \in Refreshes, RefreshUpdate(f)
    PROVE  ExchangeInv'
<1> DEFINE l == refresh[f].session
<1>1. PICK second \in since[f] .. now :
          /\ since' = [since EXCEPT ![f] = second]
          /\ sessions' = [sessions EXCEPT ![l].digest = second,
                                          ![l].expires = second + RefreshTtl]
    BY DEF RefreshUpdate
<1>2. /\ pc[f] = "update" /\ pc' = [pc EXCEPT ![f] = "answer"]
      /\ refresh' = [refresh EXCEPT ![f].stored = TRUE]
    BY DEF RefreshUpdate, Goto
<1>3. refresh[f] # Nothing /\ refresh[f] \in RefreshMemory /\ l \in Logins
    BY <1>2, RefreshTypes DEF TypeInv, Places
<1>4. /\ refresh'[f].session = l /\ refresh'[f].second = refresh[f].second
      /\ refresh'[f].after = refresh[f].after /\ refresh'[f].stored = TRUE
      /\ refresh'[f] \in RefreshMemory
      /\ \A g \in Refreshes : g # f => refresh'[g] = refresh[g]
    BY <1>2, <1>3 DEF TypeInv, TypeOK, RefreshMemory
<1>5. /\ since'[f] = second
      /\ \A g \in Refreshes : g # f => since'[g] = since[g]
      /\ sessions'[l].digest = second
      /\ \A k \in Logins : k # l => sessions'[k] = sessions[k]
    BY <1>1, <1>3, Sorts DEF TypeInv, TypeOK, Session
<1>6. pc'[f] = "answer" /\ \A h \in Requests : h # f => pc'[h] = pc[h]
    BY <1>2, Sorts DEF TypeInv, TypeOK
<1>7. f \notin Stored
    BY <1>2 DEF ExchangeInv
<1>8. refresh'[f] # Nothing
    BY <1>4, NothingAssumption
<1>9. Stored' = Stored \cup {f}
    BY <1>4, <1>8 DEF Stored
<1>10. \A g \in Stored : g # f /\ g \in Refreshes /\ refresh[g] # Nothing /\ refresh'[g] = refresh[g]
    BY <1>4, <1>7 DEF Stored
<1>11. \A k, time : Signed(k, time) => Signed(k, time)'
    BY <1>5, <1>9, <1>10 DEF Signed
<1>12. \A g \in Refreshes : refresh'[g] # Nothing =>
           refresh[g] # Nothing /\ refresh'[g].session = refresh[g].session
           /\ refresh'[g].second = refresh[g].second /\ refresh'[g].after = refresh[g].after
    BY <1>3, <1>4
<1>13. \A g \in Refreshes : pc'[g] \in {"idle", "find", "update", "refused"} => g \notin Stored'
    BY <1>6, <1>9, Sorts DEF ExchangeInv
<1>14. \A g \in Refreshes : refresh'[g] # Nothing => pc'[refresh'[g].session] = "ok"
    BY <1>6, <1>12, RefreshTypes, Sorts DEF ExchangeInv
<1>15. ASSUME NEW g \in Stored'
       PROVE  Signed(refresh[g].session, sessions[refresh[g].session].digest)'
    <2>1. g \in Refreshes /\ refresh'[g] # Nothing
        BY <1>8, <1>9, <1>10, <1>15
    <2>2. CASE refresh'[g].session = l
        BY <1>4, <1>5, <1>9, <2>2 DEF Signed
    <2>3. CASE refresh'[g].session # l
        <3>1. g \in Stored /\ refresh'[g] = refresh[g]
            BY <1>4, <1>9, <1>10, <1>15, <2>3
        <3>2. refresh[g].session \in Logins
            BY <1>10, <3>1, RefreshTypes
        <3>3. sessions'[refresh'[g].session].digest = sessions[refresh[g].session].digest
            BY <1>5, <2>3, <3>1, <3>2
        <3>4. QED
            BY <1>11, <3>1, <3>3 DEF ExchangeInv
    <2>4. QED
        BY <2>2, <2>3
<1>16. ASSUME NEW e \in Refreshes, refresh'[e] # Nothing, NEW g \in refresh'[e].after
       PROVE  /\ g \in Stored'
              /\ refresh'[g].session = refresh'[e].session
                    => Signed(refresh[e].session, refresh[e].second)'
    BY <1>9, <1>10, <1>11, <1>12, <1>16 DEF ExchangeInv
<1>17. QED
    BY <1>13, <1>14, <1>15, <1>16 DEF ExchangeInv

LEMMA OtherExchange ==
    ASSUME TypeInv, ExchangeInv, [Next]_vars,
           ~ \E f \in Refreshes : RefreshFind(f) \/ RefreshUpdate(f)
    PROVE  ExchangeInv'
<1>1. CASE \E f \in Refreshes : RefreshFindUser(f)
    <2> PICK f \in Refreshes : RefreshFindUser(f)
        BY <1>1
    <2>1. /\ pc[f] = "find" /\ UNCHANGED <<sessions, refresh>>
          /\ \A h \in Requests : h # f => pc'[h] = pc[h]
          /\ \A g \in Refreshes : g # f => since'[g] = since[g]
        BY DEF RefreshFindUser, Goto, tables, locals, TypeInv, TypeOK
    <2>2. f \notin Stored /\ Stored \subseteq Refreshes
        BY <2>1 DEF ExchangeInv, Stored
    <2>3. QED
        BY <2>1, <2>2, ExchangeFrame, Sorts
<1>2. CASE \E h \in Requests : Answer(h)
    <2>1. /\ UNCHANGED <<sessions, since, refresh>>
          /\ \A h \in Requests : pc'[h] = pc[h] \/ (pc[h] = "answer" /\ pc'[h] = "ok")
        BY <1>2 DEF Answer, Goto, tables, locals, TypeInv, TypeOK
    <2>2. QED
        BY <2>1, ExchangeFrame, Sorts
<1>3. CASE \E l \in Logins : \/ \E password \in Passwords : LoginFind(l, password)
                             \/ LoginInsert(l)
                             \/ LoginTouch(l)
    <2> PICK l \in Logins : \/ \E password \in Passwords : LoginFind(l, password)
                            \/ LoginInsert(l)
                            \/ LoginTouch(l)
        BY <1>3
    <2>1. refresh' = refresh
        BY DEF LoginFind, LoginInsert, LoginTouch, Refuse, Arrive, vars, locals
    <2>2. /\ \A h \in Requests : h # l => pc'[h] = pc[h]
          /\ \A f \in Refreshes : since'[f] = since[f]
          /\ \A k \in Logins : k # l => sessions'[k] = sessions[k]
          /\ pc[l] = "ok" => pc'[l] = "ok" /\ sessions' = sessions
        <3>1. CASE \E password \in Passwords : LoginFind(l, password)
            BY <3>1, Sorts DEF LoginFind, Refuse, Arrive, Goto, vars, tables, TypeInv, TypeOK
        <3>2. CASE LoginInsert(l)
            BY <3>2, Sorts DEF LoginInsert, Goto, TypeInv, TypeOK
        <3>3. CASE LoginTouch(l)
            BY <3>3, Sorts DEF LoginTouch, Goto, tables, TypeInv, TypeOK
        <3>4. QED
            BY <3>1, <3>2, <3>3
    <2>3. \A f \in Stored : f \in Refreshes
        BY DEF Stored
    <2>4. QED
        BY <2>1, <2>2, <2>3, ExchangeFrame, Sorts
<1>4. CASE \/ \E g \in Registers : RegisterFind(g) \/ RegisterInsert(g)
           \/ \E q \in Forgots : ForgotFind(q) \/ ForgotInsert(q)
           \/ \E r \in Resets : \/ \E q \in Forgots : ResetSelect(r, q)
                                \/ ResetUpdateUser(r) \/ ResetRevoke(r) \/ ResetConsume(r)
                                \/ ResetCommit(r) \/ ResetFails(r)
    <2>1. refresh' = refresh
        BY <1>4
        DEF RegisterFind, RegisterInsert, ForgotFind, ForgotInsert, ResetSelect,
            ResetUpdateUser, ResetRevoke, ResetConsume, ResetCommit, ResetFails, Refuse, Arrive,
            vars, locals
    <2>2. pc' = pc \/ \E h \in Registers \cup Forgots \cup Resets : \E to :
                         pc' = [pc EXCEPT ![h] = to]
        BY <1>4
        DEF RegisterFind, RegisterInsert, ForgotFind, ForgotInsert, ResetSelect,
            ResetUpdateUser, ResetRevoke, ResetConsume, ResetCommit, ResetFails, Refuse, Arrive,
            Goto, vars
    <2>3. \A h \in Logins \cup Refreshes : pc'[h] = pc[h]
        BY <2>2, Sorts DEF TypeInv, TypeOK
    <2>4. since' = since \/ \E q \in Forgots : \E time : since' = [since EXCEPT ![q] = time]
        BY <1>4
        DEF RegisterFind, RegisterInsert, ForgotFind, ForgotInsert, ResetSelect,
            ResetUpdateUser, ResetRevoke, ResetConsume, ResetCommit, ResetFails, Refuse, Arrive,
            vars, locals
    <2>5. \A f \in Refreshes : since'[f] = since[f]
        BY <2>4, Sorts DEF TypeInv, TypeOK
    <2>6. \A l \in Logins : sessions'[l].digest = sessions[l].digest
        <3>1. CASE \E r \in Resets : ResetCommit(r)
            BY <3>1 DEF ResetCommit, TypeInv, TypeOK, Session
        <3>2. CASE ~ \E r \in Resets : ResetCommit(r)
            BY <1>4, <3>2
            DEF RegisterFind, RegisterInsert, ForgotFind, ForgotInsert, ResetSelect,
                ResetUpdateUser, ResetRevoke, ResetConsume, ResetFails, Refuse, Arrive, vars,
                tables
        <3>3. QED
            BY <3>1, <3>2
    <2>7. \A f \in Stored : f \in Refreshes
        BY DEF Stored
    <2>8. QED
        BY <2>1, <2>3, <2>5, <2>6, <2>7, ExchangeFrame
<1>5. CASE ProcessEnds
    <2>1. \A f \in Refreshes :
              /\ pc[f] \in Untraced => refresh'[f] = Nothing
              /\ pc[f] \notin Untraced => refresh'[f] = refresh[f] /\ since'[f] = since[f]
        BY <1>5, Sorts DEF ProcessEnds, TypeInv, TypeOK
    <2>2. \A f \in Refreshes : pc[f] \in Untraced => f \notin Stored
        BY DEF TypeInv, Places, ExchangeInv
    <2>3. \A f \in Stored : f \in Refreshes
        BY DEF Stored
    <2>4. sessions' = sessions
        BY <1>5, ProcessEndsPlaces DEF tables
    <2>5. \A f \in Refreshes : pc'[f] \in {"idle", "find", "update", "refused"}
                                  => pc[f] \in {"idle", "find", "update", "refused"}
        BY <1>5, ProcessEndsPlaces, Sorts DEF TypeInv, Places
    <2>6. \A l \in Logins : pc[l] = "ok" => pc'[l] = "ok"
        BY <1>5, ProcessEndsPlaces, Sorts
    <2>7. QED
        BY <2>1, <2>2, <2>3, <2>4, <2>5, <2>6, ExchangeFrame
<1>6. CASE UNCHANGED <<tables, pc, since, locals>>
    BY <1>6, ExchangeFrame DEF tables, locals
<1>7. QED
    BY <1>1, <1>2, <1>3, <1>4, <1>5, <1>6, Cases, Sorts DEF Elsewhere

LEMMA NextExchange == TypeInv /\ ExchangeInv /\ [Next]_vars => ExchangeInv'
BY FindExchange, UpdateExchange, OtherExchange

\* A refresh that begins after a stored exchange of its token needs a second signature of it.
THEOREM TokensAreExchangedOnce == Spec => []ExchangedOnce
<1>1. TypeInv /\ ExchangeInv => ExchangedOnce
    <2> SUFFICES ASSUME TypeInv, ExchangeInv, NEW f \in Stored, NEW g \in Stored,
                        g \in refresh[f].after,
                        refresh[g].session = refresh[f].session
                 PROVE  \E h \in Stored : /\ refresh[h].session = refresh[f].session
                                          /\ since[h] = refresh[f].second
        BY DEF ExchangedOnce
    <2>1. f \in Refreshes /\ refresh[f] # Nothing
        BY DEF Stored
    <2>2. QED
        BY <2>1 DEF ExchangeInv, Signed
<1>2. QED
    BY <1>1, InitExchange, NextExchange, TypeInvariant, PTL DEF Spec

-----------------------------------------------------------------------------
(***************************************************************************)
(* The locks never close a circle                                          *)
(***************************************************************************)
\* No handler has noted a time that is still to come.
ClockInv == \A h \in Timed : since[h] <= now

\* Where a registration can be.
RegisterPlaces == \A g \in Registers : pc[g] \in {"idle", "insert", "answer", "ok", "lost"}

LEMMA NextPlaces == TypeInv /\ RegisterPlaces /\ [Next]_vars => RegisterPlaces'
<1> SUFFICES ASSUME TypeInv, RegisterPlaces, [Next]_vars, NEW g \in Registers
             PROVE  pc'[g] \in {"idle", "insert", "answer", "ok", "lost"}
    BY DEF RegisterPlaces
<1>1. pc \in [Requests -> PCs] /\ g \in Requests
    BY Sorts DEF TypeInv, TypeOK
<1>2. CASE pc'[g] = pc[g]
    BY <1>2 DEF RegisterPlaces
<1>3. CASE ProcessEnds
    BY <1>1, <1>3 DEF ProcessEnds, RegisterPlaces, Running
<1>4. QED
    <2>1. CASE Start
        BY <1>1, <1>2, <2>1, Sorts
        DEF Start, RegisterFind, LoginFind, RefreshFind, ForgotFind, ResetSelect, Refuse,
            Arrive, Goto, vars, RegisterPlaces
    <2>2. ASSUME NEW k \in Requests, Step(k)
          PROVE  pc'[g] \in {"idle", "insert", "answer", "ok", "lost"}
        <3>1. CASE Answer(k)
            BY <1>1, <3>1 DEF Answer, Goto, RegisterPlaces
        <3>2. CASE k \in Registers /\ (RegisterInsert(k) \/ RegisterThrows(k))
            BY <1>1, <1>3, <3>2 DEF RegisterInsert, RegisterThrows, Goto, RegisterPlaces
        <3>3. CASE k \notin Registers
            BY <1>1, <1>2, <2>2, <3>1, <3>3
            DEF Step, LoginInsert, LoginTouch, RefreshFindUser, RefreshUpdate, ForgotInsert,
                ResetUpdateUser, ResetRevoke, ResetConsume, ResetCommit, Goto
        <3>4. QED
            BY <2>2, <3>1, <3>2, <3>3, Sorts DEF Step
    <2>3. ASSUME NEW r \in Resets, ResetFails(r) PROVE pc'[g] = pc[g]
        BY <1>1, <2>3, Sorts DEF ResetFails
    <2>4. CASE Tick
        BY <1>2, <2>4 DEF Tick
    <2>5. CASE Crash
        BY <1>3, <2>5 DEF Crash
    <2>6. CASE UNCHANGED vars
        BY <1>2, <2>6 DEF vars
    <2>7. QED
        BY <1>2, <2>1, <2>2, <2>3, <2>4, <2>5, <2>6 DEF Next

LEMMA NextClock == TypeInv /\ TypeInv' /\ ClockInv /\ [Next]_vars => ClockInv'
<1> SUFFICES ASSUME TypeInv, TypeInv', ClockInv, [Next]_vars, NEW h \in Timed
             PROVE  since'[h] <= now'
    BY DEF ClockInv
<1> USE DEF ClockInv
<1>1. /\ since \in [Timed -> Times] /\ since' \in [Timed -> Times]
      /\ now \in Times /\ now' \in Times /\ Times \subseteq Nat
    BY BoundsAssumption DEF TypeInv, TypeOK, Times
<1>2. since[h] <= now /\ since[h] \in Nat /\ now \in Nat /\ now' \in Nat
    BY <1>1
<1>3. CASE since' = since /\ now' >= now
    <2>1. since'[h] = since[h]
        BY <1>3
    <2>2. QED
        BY <1>2, <1>3, <2>1
<1>4. CASE /\ now' = now
           /\ \E k \in Timed : \E second \in since[k] .. now :
                 since' = [since EXCEPT ![k] = second]
    BY <1>1, <1>2, <1>4
<1>5. CASE now' = now /\ \E k \in Timed : since' = [since EXCEPT ![k] = now]
    BY <1>1, <1>2, <1>5
<1>6. CASE ProcessEnds
    <2>1. now' = now /\ since'[h] \in {since[h], 0}
        BY <1>1, <1>6 DEF ProcessEnds
    <2>2. QED
        BY <1>1, <1>2, <2>1
<1>7. QED
    <2>1. CASE Start
        <3>1. ASSUME NEW g \in Registers, RegisterFind(g) PROVE since'[h] <= now'
            BY <1>1, <1>3, <3>1 DEF RegisterFind, Refuse, Arrive, vars
        <3>2. ASSUME NEW l \in Logins, NEW password \in Passwords, LoginFind(l, password)
              PROVE  since'[h] <= now'
            BY <1>1, <1>3, <1>5, <3>2, Sorts DEF LoginFind, Refuse, Arrive, vars
        <3>3. ASSUME NEW f \in Refreshes, RefreshFind(f) PROVE since'[h] <= now'
            BY <1>1, <1>3, <3>3 DEF RefreshFind, Refuse, Arrive, vars
        <3>4. ASSUME NEW q \in Forgots, ForgotFind(q) PROVE since'[h] <= now'
            BY <1>1, <1>5, <3>4 DEF ForgotFind, Arrive, Timed
        <3>5. ASSUME NEW r \in Resets, NEW q \in Forgots, ResetSelect(r, q)
              PROVE  since'[h] <= now'
            BY <1>1, <1>3, <3>5 DEF ResetSelect, Refuse, Arrive, vars
        <3>6. QED
            BY <2>1, <3>1, <3>2, <3>3, <3>4, <3>5 DEF Start
    <2>2. ASSUME NEW k \in Requests, Step(k) PROVE since'[h] <= now'
        <3>1. CASE Answer(k)
            BY <1>1, <1>3, <3>1 DEF Answer
        <3>2. CASE k \in Registers /\ (RegisterInsert(k) \/ RegisterThrows(k))
            BY <1>1, <1>3, <1>6, <3>2 DEF RegisterInsert, RegisterThrows
        <3>3. CASE k \in Logins /\ (LoginInsert(k) \/ LoginTouch(k))
            BY <1>1, <1>3, <1>4, <3>3, Sorts DEF LoginInsert, LoginTouch
        <3>4. CASE k \in Refreshes /\ (RefreshFindUser(k) \/ RefreshUpdate(k))
            BY <1>1, <1>4, <1>5, <3>4, Sorts DEF RefreshFindUser, RefreshUpdate
        <3>5. CASE k \in Forgots /\ ForgotInsert(k)
            BY <1>1, <1>4, <3>5 DEF ForgotInsert, Timed
        <3>6. CASE k \in Resets /\ (ResetUpdateUser(k) \/ ResetRevoke(k)
                                        \/ ResetConsume(k) \/ ResetCommit(k))
            BY <1>1, <1>3, <3>6 DEF ResetUpdateUser, ResetRevoke, ResetConsume, ResetCommit
        <3>7. QED
            BY <2>2, <3>1, <3>2, <3>3, <3>4, <3>5, <3>6 DEF Step
    <2>3. ASSUME NEW r \in Resets, ResetFails(r) PROVE since'[h] <= now'
        BY <1>1, <1>3, <2>3 DEF ResetFails
    <2>4. CASE Tick
        BY <1>1, <1>3, <2>4 DEF Tick
    <2>5. CASE Crash
        BY <1>6, <2>5 DEF Crash
    <2>6. CASE UNCHANGED vars
        BY <1>1, <1>3, <2>6 DEF vars
    <2>7. QED
        BY <2>1, <2>2, <2>3, <2>4, <2>5, <2>6 DEF Next

LEMMA InitPlaces == Init => ClockInv /\ RegisterPlaces
BY Sorts DEF Init, ClockInv, RegisterPlaces

\* Whoever waits, waits for a reset that has locked the user's row, or the sessions after it,
\* and such a transaction waits for nobody: it has taken its token before, and the rows it
\* still writes are locked by nobody else.
LEMMA HoldersGoOn ==
    ASSUME TypeInv, UserLocked \/ \E l \in Logins : SessionLocked(l)
    PROVE  \E h \in Requests : Ready(h)
<1>1. PICK r \in Resets : pc[r] \in {"revoke", "consume", "commit"}
    BY DEF UserLocked, SessionLocked
<1>2. r \in Requests /\ Ready(r)
    BY <1>1, Sorts DEF Ready
<1>3. QED
    BY <1>2

\* While requests are running, one of them at least is not waiting for another one.
THEOREM SomebodyIsAlwaysReady == Spec => []SomebodyReady
<1>1. TypeInv /\ ClockInv /\ RegisterPlaces => SomebodyReady
    <2> SUFFICES ASSUME TypeInv, ClockInv, RegisterPlaces,
                        NEW h \in Requests, Running(h)
                 PROVE  \E k \in Requests : Ready(k)
        BY DEF SomebodyReady
    <2>1. h \in Timed => since[h] <= now
        BY DEF ClockInv
    <2>2. CASE Ready(h)
        BY <2>2
    <2>3. CASE ~Ready(h)
        <3>1. CASE h \in Registers
            BY <2>3, <3>1, Sorts DEF RegisterPlaces, Running, Ready
        <3>2. CASE h \in Logins
            BY <2>1, <2>3, <3>2, HoldersGoOn, Sorts DEF TypeInv, Places, Running, Ready
        <3>3. CASE h \in Refreshes
            <4>1. pc[h] = "update" /\ SessionLocked(refresh[h].session)
                BY <2>1, <2>3, <3>3, Sorts DEF TypeInv, Places, Running, Ready
            <4>2. refresh[h].session \in Logins
                BY <3>3, <4>1 DEF TypeInv, TypeOK, Places, RefreshMemory
            <4>3. QED
                BY <4>1, <4>2, HoldersGoOn
        <3>4. CASE h \in Forgots
            BY <2>1, <2>3, <3>4, Sorts DEF TypeInv, Places, Running, Ready
        <3>5. CASE h \in Resets
            BY <2>3, <3>5, HoldersGoOn, Sorts DEF TypeInv, Places, Running, Ready
        <3>6. QED
            BY <3>1, <3>2, <3>3, <3>4, <3>5 DEF Requests
    <2>4. QED
        BY <2>2, <2>3
<1>2. QED
    BY <1>1, InitPlaces, NextClock, NextPlaces, TypeInvariant, PTL DEF Spec
=============================================================================
