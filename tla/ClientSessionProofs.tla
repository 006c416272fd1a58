------------------------- MODULE ClientSessionProofs -------------------------
(***************************************************************************)
(* What TLAPS proves of ClientSession, for any number of tabs, calls,      *)
(* sessions and renewals.                                                  *)
(***************************************************************************)
EXTENDS ClientSession, TLAPS

-----------------------------------------------------------------------------
(***************************************************************************)
(* Types                                                                   *)
(***************************************************************************)
\* A refresh under way has the pair it was posted with, and a new one when it is granted.
Shape ==
    \A t \in Tabs :
        /\ refresh[t].pc # "idle" => refresh[t].pair \in Pair
        /\ refresh[t].pc = "granted" =>
              /\ refresh[t].next \in Pair
              /\ refresh[t].next.session = refresh[t].pair.session

TypeInv == TypeOK /\ Shape

CallRecord == [pc : {"idle", "sent", "refused", "waiting", "done"},
               pair : Pair \cup {None}, retried : BOOLEAN]

RefreshRecord == [pc : {"idle", "sent", "found", "granted", "refused", "lost"},
                  pair : Pair \cup {None}, next : Pair \cup {None}]

LEMMA NoneIsNoPair == None \notin Pair
BY ClientAssumption DEF Pair, Sessions

LEMMA Records ==
    /\ \A pc \in {"idle", "sent", "refused", "waiting", "done"} : At(pc) \in CallRecord
    /\ Quiet \in RefreshRecord
BY DEF At, Quiet, CallRecord, RefreshRecord

LEMMA InitType == Init => TypeInv
<1> SUFFICES ASSUME Init PROVE TypeInv
    OBVIOUS
<1>1. call \in [Calls -> CallRecord] /\ refresh \in [Tabs -> RefreshRecord]
    BY Records DEF Init
<1>2. Shape
    BY DEF Init, Shape, Quiet
<1>3. latest \in [Sessions -> Nat] /\ mishaps \in 0 .. MaxMishaps
    BY ClientAssumption DEF Init
<1>4. overlap \in BOOLEAN /\ switched \in BOOLEAN /\ ended = {} /\ lapsed = {}
    BY DEF Init
<1>5. stored \in Pair \cup {None}
    BY DEF Init, Pair
<1>6. QED
    BY <1>1, <1>2, <1>3, <1>4, <1>5 DEF TypeInv, TypeOK, CallRecord, RefreshRecord

LEMMA NextType == TypeInv /\ [Next]_vars => TypeInv'
<1> SUFFICES ASSUME TypeInv, [Next]_vars PROVE TypeInv'
    OBVIOUS
<1> USE DEF TypeInv, CallRecord, RefreshRecord
<1>1. ASSUME NEW t \in Tabs, RefreshStep(t) PROVE TypeInv'
    <2>1. CASE RefreshFind(t)
        BY <2>1 DEF RefreshFind, TypeOK, Shape, server, history
    <2>2. CASE RefreshUpdate(t)
        <3> DEFINE s == refresh[t].pair.session
        <3>1. s \in Sessions /\ latest[s] + 1 \in Nat
            BY <2>2 DEF RefreshUpdate, TypeOK, Shape, Pair
        <3>2. [session |-> s, number |-> latest[s] + 1] \in Pair
            BY <3>1 DEF Pair
        <3>3. latest' \in [Sessions -> Nat]
            BY <2>2, <3>1 DEF RefreshUpdate, TypeOK
        <3>4. refresh' \in [Tabs -> RefreshRecord]
            BY <2>2, <3>2 DEF RefreshUpdate, TypeOK
        <3>5. Shape'
            BY <2>2, <3>2 DEF RefreshUpdate, TypeOK, Shape
        <3>6. QED
            BY <2>2, <3>3, <3>4, <3>5 DEF RefreshUpdate, TypeOK, history
    <2>3. CASE RefreshSucceeds(t)
        <3>1. NewPair(t) \in Pair
            BY <2>3 DEF RefreshSucceeds, NewPair, TypeOK, Shape
        <3>2. refresh' \in [Tabs -> RefreshRecord]
            BY <2>3, Records DEF RefreshSucceeds, TypeOK
        <3>3. Shape'
            BY <2>3 DEF RefreshSucceeds, Quiet, TypeOK, Shape
        <3>4. ASSUME NEW c \in Calls
              PROVE  [call[c] EXCEPT !.pc = "sent", !.pair = NewPair(t), !.retried = TRUE]
                        \in CallRecord
            <4>1. call[c] \in CallRecord
                BY DEF TypeOK
            <4>2. QED
                BY <3>1, <4>1
        <3>5. \A c \in Calls : call[c] \in CallRecord
            BY DEF TypeOK
        <3>6. call' \in [Calls -> CallRecord]
            <4> HIDE DEF CallRecord
            <4>1. QED
                BY <2>3, <3>4, <3>5 DEF RefreshSucceeds
        <3>7. QED
            BY <2>3, <3>1, <3>2, <3>3, <3>6 DEF RefreshSucceeds, TypeOK, server, history
    <2>4. CASE RefreshFails(t)
        BY <2>4, Records, NoneIsNoPair
        DEF RefreshFails, ExpireSession, TypeOK, Shape, Quiet, server, history
    <2>5. QED
        BY <1>1, <2>1, <2>2, <2>3, <2>4 DEF RefreshStep
<1>2. ASSUME NEW t \in Tabs, RefreshLost(t) \/ Reload(t) PROVE TypeInv'
    <2>1. mishaps' \in 0 .. MaxMishaps
        BY <1>2, ClientAssumption DEF RefreshLost, Reload, TypeOK
    <2>2. CASE RefreshLost(t)
        BY <2>1, <2>2 DEF RefreshLost, TypeOK, Shape, server, history
    <2>3. CASE Reload(t)
        BY <2>1, <2>3, Records DEF Reload, TypeOK, Shape, Quiet, server, history
    <2>4. QED
        BY <1>2, <2>2, <2>3
<1>3. ASSUME NEW c \in Calls, Send(c) \/ Serve(c) PROVE TypeInv'
    <2>1. call' \in [Calls -> CallRecord]
        <3>1. CASE Send(c)
            <4>1. call[c] \in CallRecord /\ stored \in Pair \cup {None}
                BY DEF TypeOK
            <4>2. [call[c] EXCEPT !.pc = "sent", !.pair = stored] \in CallRecord
                BY <4>1
            <4>3. call \in [Calls -> CallRecord]
                BY DEF TypeOK
            <4>4. call' = [call EXCEPT ![c] = [call[c] EXCEPT !.pc = "sent", !.pair = stored]]
                BY <3>1, <4>3 DEF Send
            <4> HIDE DEF CallRecord
            <4>5. QED
                BY <4>2, <4>3, <4>4
        <3>2. CASE Serve(c)
            <4>1. call[c] \in CallRecord /\ call \in [Calls -> CallRecord]
                BY DEF TypeOK
            <4>2. [call[c] EXCEPT !.pc = "refused"] \in CallRecord
                BY <4>1
            <4>3. \/ call' = [call EXCEPT ![c] = At("done")]
                  \/ call' = [call EXCEPT ![c] = [call[c] EXCEPT !.pc = "refused"]]
                BY <3>2, <4>1 DEF Serve
            <4> HIDE DEF CallRecord
            <4>4. QED
                BY <4>1, <4>2, <4>3, Records
        <3>3. QED
            BY <1>3, <3>1, <3>2
    <2>2. UNCHANGED <<stored, refresh, latest, ended, lapsed, mishaps, overlap, switched>>
        BY <1>3 DEF Send, Serve, server, history
    <2>3. QED
        BY <2>1, <2>2 DEF TypeOK, Shape
<1>4. ASSUME NEW c \in Calls,
             CallFails(c) \/ DeliverSignedOut(c) \/ DeliverRefusedAgain(c) \/ DeliverRefused(c)
      PROVE  TypeInv'
    <2>1. TabOf[c] \in Tabs
        BY ClientAssumption
    <2>2. call' \in [Calls -> CallRecord]
        BY <1>4, Records
        DEF CallFails, DeliverSignedOut, DeliverRefusedAgain, DeliverRefused, Step, TypeOK
    <2>3. CASE CallFails(c) \/ DeliverSignedOut(c) \/ DeliverRefusedAgain(c)
        BY <2>2, <2>3
        DEF CallFails, DeliverSignedOut, DeliverRefusedAgain, ExpireSession, TypeOK, Shape,
            server, history
    <2>4. CASE DeliverRefused(c)
        <3>1. stored \in Pair
            BY <2>4 DEF DeliverRefused, TypeOK
        <3>2. [pc |-> "sent", pair |-> stored, next |-> None] \in RefreshRecord
            BY <3>1
        <3>3. refresh' \in [Tabs -> RefreshRecord] /\ Shape'
            <4>1. CASE refresh' = refresh
                BY <4>1 DEF TypeOK, Shape
            <4>2. CASE refresh' = [refresh EXCEPT ![TabOf[c]] =
                                      [pc |-> "sent", pair |-> stored, next |-> None]]
                BY <2>1, <3>1, <3>2, <4>2 DEF TypeOK, Shape
            <4>3. QED
                BY <2>4, <4>1, <4>2 DEF DeliverRefused
        <3>4. overlap' \in BOOLEAN
            BY <2>4 DEF DeliverRefused, TypeOK
        <3>5. UNCHANGED <<stored, latest, ended, lapsed, mishaps, switched>>
            BY <2>4 DEF DeliverRefused, server
        <3>6. QED
            BY <2>2, <3>3, <3>4, <3>5 DEF TypeOK
    <2>5. QED
        BY <1>4, <2>3, <2>4
<1>5. CASE (\E f \in Forms : SignIn(f)) \/ SignOut
    <2>1. ASSUME NEW f \in Forms, SignIn(f) PROVE TypeInv'
        <3>1. PICK s \in Sessions : /\ latest' = [latest EXCEPT ![s] = 1]
                                    /\ stored' = [session |-> s, number |-> 1]
            BY <2>1 DEF SignIn
        <3>2. stored' \in Pair
            BY <3>1 DEF Pair
        <3>3. call' \in [Calls -> CallRecord]
            BY <2>1, Records, ClientAssumption DEF SignIn, Step, TypeOK
        <3>4. QED
            BY <2>1, <3>1, <3>2, <3>3 DEF SignIn, TypeOK, Shape
    <2>2. CASE SignOut
        BY <2>2 DEF SignOut, TypeOK, Shape, server
    <2>3. QED
        BY <1>5, <2>1, <2>2
<1>6. CASE Lapse
    <2>1. PICK s \in Sessions : \E n \in 1 .. latest[s] :
              /\ lapsed' = lapsed \cup {[session |-> s, number |-> n]}
              /\ mishaps' = mishaps \/ (mishaps < MaxMishaps /\ mishaps' = mishaps + 1)
        BY <1>6 DEF Lapse
    <2>0. PICK n \in 1 .. latest[s] :
              /\ lapsed' = lapsed \cup {[session |-> s, number |-> n]}
              /\ mishaps' = mishaps \/ (mishaps < MaxMishaps /\ mishaps' = mishaps + 1)
        BY <2>1
    <2>2. [session |-> s, number |-> n] \in Pair
        BY <2>0 DEF Pair, TypeOK
    <2>3. mishaps' \in 0 .. MaxMishaps
        BY <2>0, ClientAssumption DEF TypeOK
    <2>4. QED
        BY <1>6, <2>0, <2>2, <2>3 DEF Lapse, TypeOK, Shape, browser, server, history
<1>7. ASSUME NEW s \in Sessions, EndSession(s) PROVE TypeInv'
    BY <1>7 DEF EndSession, TypeOK, Shape, browser, history
<1>8. CASE UNCHANGED vars
    BY <1>8 DEF vars, browser, server, history, TypeOK, Shape
<1>9. QED
    BY <1>1, <1>2, <1>3, <1>4, <1>5, <1>6, <1>7, <1>8 DEF Next, CallStep

LEMMA TypeInvariant == Spec => []TypeInv
BY InitType, NextType, PTL DEF Spec

\* The state of the browser and of the sessions keeps its type.
THEOREM TypeCorrect == Spec => []TypeOK
<1>1. TypeInv => TypeOK
    BY DEF TypeInv
<1>2. QED
    BY <1>1, TypeInvariant, PTL

-----------------------------------------------------------------------------
(***************************************************************************)
(* A good session is kept                                                  *)
(***************************************************************************)
\* Nothing has happened that may cost somebody the session.
Calm == mishaps = 0 /\ ~overlap /\ ~switched

\* A call sent again has a pair of the session that is stored, and is refused again only
\* when that session has ended.
SameSession(c) ==
    /\ call[c].pc \in {"sent", "refused"}
    /\ call[c].pc = "sent" => call[c].pair \notin lapsed
    /\ call[c].pc = "refused" => call[c].pair.session \in ended
    /\ stored # None => stored.session = call[c].pair.session
    /\ \A t \in Tabs : refresh[t].pc # "idle" =>
                           refresh[t].pair.session = call[c].pair.session

\* One refresh at a time, for the pair that is stored, which is the last one of its
\* session; its new pair has not lapsed when the calls are sent again with it.
Orderly ==
    /\ \A t, u \in Tabs : refresh[t].pc # "idle" /\ refresh[u].pc # "idle" => t = u
    /\ \A t \in Tabs :
          /\ refresh[t].pc # "idle" => stored \in {None, refresh[t].pair}
          /\ refresh[t].pc \in {"sent", "found"} =>
                latest[refresh[t].pair.session] = refresh[t].pair.number
          /\ refresh[t].pc = "granted" =>
                /\ refresh[t].next.number = latest[refresh[t].next.session]
                /\ refresh[t].next \notin lapsed
          /\ refresh[t].pc = "refused" => refresh[t].pair.session \in ended
          /\ refresh[t].pc # "lost"
    /\ stored # None => \/ latest[stored.session] = stored.number
                        \/ \E t \in Tabs : refresh[t].pc = "granted"
    /\ \A c \in Calls \ Forms : call[c].retried => SameSession(c)

\* What has lapsed was issued.
LapsedIssued == \A pair \in lapsed : pair.number <= latest[pair.session]

SessionInv == LapsedIssued /\ (Calm => Orderly)

LEMMA InitSession == Init => SessionInv
<1> SUFFICES ASSUME Init PROVE SessionInv
    OBVIOUS
<1>1. stored # None => latest[stored.session] = stored.number
    BY DEF Init
<1>2. QED
    BY <1>1 DEF Init, SessionInv, LapsedIssued, Orderly, Quiet, At

\* Steps of the calls, and the end of a session.
LEMMA CallSession ==
    ASSUME TypeInv, SessionInv,
           \/ \E c \in Calls : Send(c) \/ Serve(c) \/ CallFails(c) \/ DeliverSignedOut(c)
                                  \/ DeliverRefusedAgain(c)
           \/ \E s \in Sessions : EndSession(s)
    PROVE  SessionInv'
<1>1. /\ UNCHANGED <<refresh, latest, lapsed, mishaps, history>>
      /\ stored' \in {stored, None}
      /\ ended \subseteq ended'
    BY DEF Send, Serve, CallFails, DeliverSignedOut, DeliverRefusedAgain, ExpireSession,
           EndSession, browser, server, history
<1>2. LapsedIssued' /\ (Calm' <=> Calm)
    BY <1>1 DEF SessionInv, LapsedIssued, Calm, history
<1>3. ASSUME Orderly, NEW c \in Calls \ Forms, call'[c].retried
      PROVE  SameSession(c)'
    <2>1. CASE call'[c] = call[c]
        BY <1>1, <1>3, <2>1 DEF Orderly, SameSession
    <2>2. CASE \E d \in Calls : Send(d)
        <3>1. ~call'[c].retried \/ call'[c] = call[c]
            BY <1>3, <2>2 DEF Send, TypeInv, TypeOK, Orderly, SameSession
        <3>2. QED
            BY <1>3, <2>1, <3>1
    <2>3. CASE Serve(c)
        <3>1. /\ call[c].pc = "sent" /\ Refused(c) /\ call[c].retried
              /\ call'[c].pc = "refused" /\ call'[c].pair = call[c].pair
            BY <1>3, <2>3 DEF Serve, At, TypeInv, TypeOK
        <3>2. SameSession(c)
            BY <1>3, <3>1 DEF Orderly
        <3>3. QED
            BY <1>1, <1>3, <3>1, <3>2 DEF SameSession, Refused
    <2>4. CASE \E d \in Calls : d # c /\ Serve(d)
        BY <2>1, <2>4 DEF Serve, TypeInv, TypeOK
    <2>5. CASE \E d \in Calls : CallFails(d) \/ DeliverSignedOut(d) \/ DeliverRefusedAgain(d)
        <3>1. ~call'[c].retried \/ call'[c] = call[c]
            BY <2>5 DEF CallFails, DeliverSignedOut, DeliverRefusedAgain, Step, At, TypeInv, TypeOK
        <3>2. QED
            BY <1>3, <2>1, <3>1
    <2>6. CASE \E s \in Sessions : EndSession(s)
        BY <2>1, <2>6 DEF EndSession, browser
    <2>7. QED
        BY <2>2, <2>3, <2>4, <2>5, <2>6
<1>4. Orderly => Orderly'
    BY <1>1, <1>3 DEF Orderly
<1>5. QED
    BY <1>2, <1>4 DEF SessionInv

\* The first call of a tab that is refused begins a refresh, with the stored pair.
LEMMA BeginSession ==
    ASSUME TypeInv, SessionInv, NEW c \in Calls, DeliverRefused(c)
    PROVE  SessionInv'
<1> DEFINE t == TabOf[c]
<1>1. /\ t \in Tabs /\ stored # None
      /\ UNCHANGED <<stored, latest, ended, lapsed, mishaps, switched>>
    BY ClientAssumption DEF DeliverRefused, server
<1>2. LapsedIssued'
    BY <1>1 DEF SessionInv, LapsedIssued
<1>3. \A d \in Calls : call'[d] = call[d] \/ ~call'[d].retried
    BY DEF DeliverRefused, Step, At, TypeInv, TypeOK
<1>4. CASE UNCHANGED <<refresh, overlap>>
    <2>1. Orderly => \A d \in Calls \ Forms : call'[d].retried => SameSession(d)'
        BY <1>1, <1>3, <1>4 DEF Orderly, SameSession
    <2>2. QED
        BY <1>1, <1>2, <1>4, <2>1 DEF SessionInv, Calm, Orderly
<1>5. CASE ~UNCHANGED <<refresh, overlap>>
    <2>1. /\ refresh[t].pc = "idle"
          /\ refresh' = [refresh EXCEPT ![t] = [pc |-> "sent", pair |-> stored, next |-> None]]
          /\ overlap' = (overlap \/ Refreshing # {})
        BY <1>5 DEF DeliverRefused
    <2>2. /\ refresh'[t].pc = "sent" /\ refresh'[t].pair = stored
          /\ \A u \in Tabs : u # t => refresh'[u] = refresh[u]
        BY <1>1, <2>1 DEF TypeInv, TypeOK
    <2>3. ASSUME Calm' PROVE Orderly'
        <3>1. Calm /\ \A u \in Tabs : refresh[u].pc = "idle"
            BY <1>1, <2>1, <2>3 DEF Calm, Refreshing, TypeInv, TypeOK
        <3>2. Orderly /\ latest[stored.session] = stored.number
            BY <1>1, <3>1 DEF SessionInv, Orderly
        <3>3. \A d \in Calls \ Forms : call'[d].retried => SameSession(d)'
            BY <1>1, <1>3, <2>2, <3>1, <3>2 DEF Orderly, SameSession
        <3>4. QED
            BY <1>1, <2>2, <3>1, <3>2, <3>3 DEF Orderly
    <2>4. QED
        BY <1>2, <2>3 DEF SessionInv
<1>6. QED
    BY <1>4, <1>5

LEMMA RefreshSession ==
    ASSUME TypeInv, SessionInv, NEW t \in Tabs, RefreshStep(t)
    PROVE  SessionInv'
<1>1. UNCHANGED <<ended, lapsed, mishaps, overlap, switched>>
    BY DEF RefreshStep, RefreshFind, RefreshUpdate, RefreshSucceeds, RefreshFails, server, history
<1>2. Calm' <=> Calm
    BY <1>1 DEF Calm
<1>3. CASE RefreshFind(t)
    <2>1. /\ refresh[t].pc = "sent" /\ UNCHANGED <<stored, call, latest>>
          /\ refresh'[t].pc = IF Exchangeable(refresh[t].pair) THEN "found" ELSE "refused"
          /\ refresh'[t].pair = refresh[t].pair
          /\ \A u \in Tabs : u # t => refresh'[u] = refresh[u]
        BY <1>3 DEF RefreshFind, server, TypeInv, TypeOK
    <2>2. LapsedIssued'
        BY <1>1, <2>1 DEF SessionInv, LapsedIssued
    <2>3. Orderly => \A c \in Calls \ Forms : call'[c].retried => SameSession(c)'
        BY <1>1, <2>1 DEF Orderly, SameSession
    <2>4. Orderly => Orderly'
        BY <1>1, <2>1, <2>3 DEF Orderly, Exchangeable
    <2>5. QED
        BY <1>2, <2>2, <2>4 DEF SessionInv
<1>4. CASE RefreshUpdate(t)
    <2> DEFINE s == refresh[t].pair.session
               n == latest[s] + 1
    <2>1. /\ refresh[t].pc = "found" /\ UNCHANGED <<stored, call>>
          /\ latest' = [latest EXCEPT ![s] = n]
          /\ refresh' = [refresh EXCEPT ![t].pc = "granted",
                                        ![t].next = [session |-> s, number |-> n]]
        BY <1>4 DEF RefreshUpdate
    <2>2. s \in Sessions /\ latest[s] \in Nat
        BY <2>1 DEF TypeInv, TypeOK, Shape, Pair
    <2>3. /\ refresh'[t].pc = "granted" /\ refresh'[t].pair = refresh[t].pair
          /\ refresh'[t].next = [session |-> s, number |-> n]
          /\ \A u \in Tabs : u # t => refresh'[u] = refresh[u]
        BY <2>1 DEF TypeInv, TypeOK
    <2>4. latest'[s] = n /\ \A k \in Sessions : k # s => latest'[k] = latest[k]
        BY <2>1, <2>2 DEF TypeInv, TypeOK
    <2>5. \A pair \in lapsed : pair.session \in Sessions /\ pair.number \in Nat
        BY DEF TypeInv, TypeOK, Pair
    <2>6. LapsedIssued'
        BY <1>1, <2>2, <2>4, <2>5 DEF SessionInv, LapsedIssued
    <2>7. [session |-> s, number |-> n] \notin lapsed
        BY <2>2 DEF SessionInv, LapsedIssued
    <2>8. Orderly => Orderly'
        <3> SUFFICES ASSUME Orderly PROVE Orderly'
            OBVIOUS
        <3>1. \A u \in Tabs : u # t => refresh'[u].pc = "idle"
            BY <2>1, <2>3 DEF Orderly
        <3>2. refresh'[t].next.number = latest'[refresh'[t].next.session]
            BY <2>3, <2>4
        <3>3. stored' \in {None, refresh'[t].pair}
            BY <2>1, <2>3 DEF Orderly
        <3>4. refresh'[t].next \notin lapsed'
            BY <1>1, <2>3, <2>7
        <3>5. /\ UNCHANGED <<stored, call, lapsed, ended>>
              /\ \A u \in Tabs : refresh'[u].pc # "idle" =>
                                  refresh[u].pc # "idle" /\ refresh'[u].pair = refresh[u].pair
            BY <1>1, <2>1, <2>3
        <3>6. \A c \in Calls \ Forms : call'[c].retried => SameSession(c)'
            BY <3>5 DEF Orderly, SameSession
        <3>7. QED
            BY <2>3, <3>1, <3>2, <3>3, <3>4, <3>6 DEF Orderly
    <2>9. QED
        BY <1>2, <2>6, <2>8 DEF SessionInv
<1>5. CASE RefreshSucceeds(t)
    <2>1. /\ refresh[t].pc = "granted" /\ latest' = latest
          /\ stored' = refresh[t].next
          /\ refresh'[t].pc = "idle"
          /\ \A u \in Tabs : u # t => refresh'[u] = refresh[u]
        BY <1>5 DEF RefreshSucceeds, NewPair, Quiet, server, TypeInv, TypeOK
    <2>2. \A c \in Calls :
              \/ call'[c] = call[c]
              \/ call'[c].pc = "sent" /\ call'[c].pair = refresh[t].next
        BY <1>5 DEF RefreshSucceeds, NewPair, TypeInv, TypeOK
    <2>0. refresh[t].next.session = refresh[t].pair.session
        BY <2>1 DEF TypeInv, Shape
    <2>3. LapsedIssued'
        BY <1>1, <2>1 DEF SessionInv, LapsedIssued
    <2>4. Orderly => Orderly'
        <3> SUFFICES ASSUME Orderly PROVE Orderly'
            OBVIOUS
        <3>1. \A u \in Tabs : refresh'[u].pc = "idle"
            BY <2>1 DEF Orderly
        <3>2. latest'[stored'.session] = stored'.number
            BY <2>1 DEF Orderly
        <3>3. \A c \in Calls \ Forms : call'[c].retried => SameSession(c)'
            BY <1>1, <2>0, <2>1, <2>2, <3>1 DEF Orderly, SameSession
        <3>4. QED
            BY <1>1, <3>1, <3>2, <3>3 DEF Orderly
    <2>5. QED
        BY <1>2, <2>3, <2>4 DEF SessionInv
<1>6. CASE RefreshFails(t)
    <2>1. /\ stored' = None /\ latest' = latest
          /\ refresh'[t].pc = "idle"
          /\ \A u \in Tabs : u # t => refresh'[u] = refresh[u]
          /\ \A c \in Calls : call'[c] = call[c] \/ ~call'[c].retried
        BY <1>6 DEF RefreshFails, ExpireSession, Quiet, At, server, TypeInv, TypeOK
    <2>2. LapsedIssued'
        BY <1>1, <2>1 DEF SessionInv, LapsedIssued
    <2>3. Orderly => \A c \in Calls \ Forms : call'[c].retried => SameSession(c)'
        BY <1>1, <2>1 DEF Orderly, SameSession
    <2>4. Orderly => Orderly'
        BY <1>1, <2>1, <2>3 DEF Orderly
    <2>5. QED
        BY <1>2, <2>2, <2>4 DEF SessionInv
<1>7. QED
    BY <1>3, <1>4, <1>5, <1>6 DEF RefreshStep

\* Who signs in or out during a refresh, and what comes to nothing, is remembered.
LEMMA OtherSession ==
    ASSUME TypeInv, SessionInv,
           \/ \E f \in Forms : SignIn(f)
           \/ SignOut \/ Lapse \/ \E t \in Tabs : RefreshLost(t) \/ Reload(t)
    PROVE  SessionInv'
<1>1. ASSUME NEW f \in Forms, SignIn(f) PROVE SessionInv'
    <2>1. PICK s \in Sessions : /\ latest[s] = 0
                                /\ latest' = [latest EXCEPT ![s] = 1]
                                /\ stored' = [session |-> s, number |-> 1]
        BY <1>1 DEF SignIn
    <2>2. /\ UNCHANGED <<refresh, ended, lapsed, mishaps, overlap>>
          /\ switched' = (switched \/ Refreshing # {} \/ SentAgain)
          /\ \A c \in Calls \ Forms : call'[c] = call[c]
        BY <1>1 DEF SignIn, Step, TypeInv, TypeOK
    <2>3. latest'[s] = 1 /\ \A k \in Sessions : k # s => latest'[k] = latest[k]
        BY <2>1 DEF TypeInv, TypeOK
    <2>4. \A pair \in lapsed : pair.session \in Sessions /\ pair.number \in Nat
        BY DEF TypeInv, TypeOK, Pair
    <2>5. LapsedIssued'
        BY <2>1, <2>2, <2>3, <2>4 DEF SessionInv, LapsedIssued
    <2>6. ASSUME Calm' PROVE Orderly'
        <3>1. /\ Calm /\ \A t \in Tabs : refresh[t].pc = "idle"
              /\ \A c \in Calls \ Forms : ~call[c].retried
            BY <2>2, <2>6 DEF Calm, Refreshing, SentAgain, TypeInv, TypeOK
        <3>2. QED
            BY <2>1, <2>2, <2>3, <3>1 DEF SessionInv, Orderly
    <2>7. QED
        BY <2>5, <2>6 DEF SessionInv
<1>2. CASE SignOut
    <2>1. /\ UNCHANGED <<call, refresh, latest, ended, lapsed, mishaps, overlap>>
          /\ stored' = None
          /\ switched' = (switched \/ Refreshing # {})
        BY <1>2 DEF SignOut, server
    <2>2. LapsedIssued'
        BY <2>1 DEF SessionInv, LapsedIssued
    <2>3. ASSUME Calm' PROVE Orderly'
        <3>1. Calm
            BY <2>1, <2>3 DEF Calm, TypeInv, TypeOK
        <3>2. QED
            BY <2>1, <3>1 DEF SessionInv, Orderly, SameSession
    <2>4. QED
        BY <2>2, <2>3 DEF SessionInv
<1>3. CASE Lapse
    <2>1. PICK s \in Sessions : \E n \in 1 .. latest[s] :
              /\ lapsed' = lapsed \cup {[session |-> s, number |-> n]}
              /\ IF JustIssued([session |-> s, number |-> n])
                 THEN mishaps < MaxMishaps /\ mishaps' = mishaps + 1
                 ELSE mishaps' = mishaps
        BY <1>3 DEF Lapse
    <2>0. PICK n \in 1 .. latest[s] :
              /\ lapsed' = lapsed \cup {[session |-> s, number |-> n]}
              /\ IF JustIssued([session |-> s, number |-> n])
                 THEN mishaps < MaxMishaps /\ mishaps' = mishaps + 1
                 ELSE mishaps' = mishaps
        BY <2>1
    <2> DEFINE pair == [session |-> s, number |-> n]
    <2>2. UNCHANGED <<stored, call, refresh, latest, ended, overlap, switched>>
        BY <1>3 DEF Lapse, browser, server, history
    <2>3. n <= latest[s]
        BY <2>0 DEF TypeInv, TypeOK
    <2>4. LapsedIssued'
        BY <2>0, <2>2, <2>3 DEF SessionInv, LapsedIssued
    <2>5. ASSUME Calm' PROVE Orderly'
        <3>1. Calm /\ ~JustIssued(pair)
            BY <2>0, <2>2, <2>5 DEF Calm, TypeInv, TypeOK
        <3>2. Orderly
            BY <3>1 DEF SessionInv
        <3>3. \A t \in Tabs : refresh[t].pc = "granted" => refresh[t].next \notin lapsed'
            BY <2>0, <3>1, <3>2 DEF JustIssued, Orderly
        <3>4. \A c \in Calls \ Forms : call'[c].retried => SameSession(c)'
            BY <2>0, <2>2, <3>1, <3>2 DEF JustIssued, Orderly, SameSession
        <3>5. QED
            BY <2>2, <3>2, <3>3, <3>4 DEF Orderly
    <2>6. QED
        BY <2>4, <2>5 DEF SessionInv
<1>4. ASSUME NEW t \in Tabs, RefreshLost(t) \/ Reload(t) PROVE SessionInv'
    <2>1. UNCHANGED <<stored, latest, ended, lapsed, overlap, switched>>
        BY <1>4 DEF RefreshLost, Reload, server, history
    <2>2. LapsedIssued'
        BY <2>1 DEF SessionInv, LapsedIssued
    <2>3. CASE mishaps' # mishaps
        <3>1. mishaps' = mishaps + 1
            BY <1>4, <2>3 DEF RefreshLost, Reload
        <3>2. ~Calm'
            BY <3>1 DEF Calm, TypeInv, TypeOK
        <3>3. QED
            BY <2>2, <3>2 DEF SessionInv
    <2>4. CASE mishaps' = mishaps
        <3>1. Reload(t) /\ refresh[t].pc \in {"idle", "refused", "lost"}
            BY <1>4, <2>4 DEF RefreshLost, Reload, TypeInv, TypeOK
        <3>2. /\ refresh'[t].pc = "idle"
              /\ \A u \in Tabs : u # t => refresh'[u] = refresh[u]
              /\ \A c \in Calls : call'[c] = call[c] \/ ~call'[c].retried
            BY <3>1 DEF Reload, Quiet, At, TypeInv, TypeOK
        <3>3. Orderly => \A c \in Calls \ Forms : call'[c].retried => SameSession(c)'
            BY <2>1, <3>1, <3>2 DEF Orderly, SameSession
        <3>4. Orderly => Orderly'
            BY <2>1, <3>1, <3>2, <3>3 DEF Orderly
        <3>5. Calm' <=> Calm
            BY <2>1, <2>4 DEF Calm
        <3>6. QED
            BY <2>2, <3>4, <3>5 DEF SessionInv
    <2>5. QED
        BY <2>3, <2>4
<1>5. QED
    BY <1>1, <1>2, <1>3, <1>4

LEMMA NextSession == TypeInv /\ SessionInv /\ [Next]_vars => SessionInv'
<1> SUFFICES ASSUME TypeInv, SessionInv, [Next]_vars PROVE SessionInv'
    OBVIOUS
<1>1. CASE UNCHANGED vars
    BY <1>1 DEF vars, browser, server, history, SessionInv, LapsedIssued, Calm, Orderly, SameSession
<1>2. QED
    BY <1>1, CallSession, BeginSession, RefreshSession, OtherSession DEF Next, CallStep

\* While no answer is lost, no two tabs refresh at a time and nobody signs in or out
\* meanwhile, the interceptors remove the tokens of a session that has not ended only when a
\* form is refused twice.
THEOREM GoodSessionsAreKept == Spec => KeptSignedIn
<1> DEFINE Excused == \/ stored.session \in ended
                      \/ mishaps > 0 \/ overlap \/ switched
                      \/ FormRefused
<1>1. ASSUME TypeInv, SessionInv, Expires, stored # None PROVE Excused
    <2> SUFFICES ASSUME Calm, ~FormRefused PROVE stored.session \in ended
        BY <1>1 DEF Calm, TypeInv, TypeOK
    <2>1. Orderly
        BY <1>1 DEF SessionInv
    <2>2. ASSUME NEW t \in Tabs, RefreshFails(t) PROVE stored.session \in ended
        <3>1. refresh[t].pc = "refused"
            BY <2>1, <2>2 DEF RefreshFails, Orderly
        <3>2. QED
            BY <1>1, <2>1, <3>1 DEF Orderly
    <2>3. ASSUME NEW c \in Calls, DeliverRefusedAgain(c) PROVE stored.session \in ended
        <3>1. c \notin Forms
            BY <2>3 DEF FormRefused
        <3>2. call[c].retried /\ call[c].pc = "refused"
            BY <2>3 DEF DeliverRefusedAgain, Step
        <3>3. SameSession(c)
            BY <2>1, <3>1, <3>2 DEF Orderly
        <3>4. QED
            BY <1>1, <3>2, <3>3 DEF SameSession
    <2>4. QED
        BY <1>1, <2>2, <2>3 DEF Expires
<1>2. TypeInv /\ SessionInv => [Expires /\ stored # None => Excused]_vars
    BY <1>1
<1>3. QED
    BY <1>2, InitSession, NextSession, TypeInvariant, PTL DEF Spec, KeptSignedIn
=============================================================================
