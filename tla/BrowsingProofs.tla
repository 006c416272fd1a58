---------------------------- MODULE BrowsingProofs ----------------------------
(***************************************************************************)
(* What TLAPS proves of Browsing, for any registrations, filters, pages    *)
(* and page size, and any number of readings, requests and changes: a      *)
(* change of one's own is shown, and the pages fit together.               *)
(***************************************************************************)
EXTENDS Browsing, FiniteSetTheorems, FunctionTheorems, NaturalsInduction,
        WellFoundedInduction, TLAPS

\* The records of the browser, whatever is on the pages.
View(c) == [has : BOOLEAN, items : {c.items}, total : {c.total}, at : Nat, read : Nat,
            error : BOOLEAN, stale : BOOLEAN]
Reading(f) == [pc : {"idle", "asked", "renewing", "resent", "counted", "answered"},
               tries : 0 .. 1, total : {f.total}, items : {f.items}, at : Nat, read : Nat]

Records ==
    /\ cache = [p \in Pages |-> cache[p]] /\ \A p \in Pages : cache[p] \in View(cache[p])
    /\ fetch = [p \in Pages |-> fetch[p]] /\ \A p \in Pages : fetch[p] \in Reading(fetch[p])
    /\ request \in [Rows -> [pc : {"none", "sent", "done", "abandoned"}, at : Nat]]
    /\ promised \in [Pages -> Nat]
    /\ version \in Nat

\* The versions that are promised have been, and a reading that has counted the rows is not
\* older than what is promised of its page.
Versions ==
    /\ \A r \in Rows : request[r].at <= version
    /\ \A p \in Pages : promised[p] <= version
    /\ \A p \in Pages : fetch[p].pc \in {"counted", "answered"} => fetch[p].at >= promised[p]

BrowsingInv == Records /\ Versions /\ OwnChangeShown

LEMMA InitBrowsing == Init => BrowsingInv
<1> SUFFICES ASSUME Init PROVE BrowsingInv
    OBVIOUS
<1>1. Records
    BY DEF Init, Records, View, Reading, NoData, NoFetch, NoRequest
<1>2. Versions
    BY DEF Init, Versions, NoFetch, NoRequest
<1>3. OwnChangeShown
    BY DEF Init, OwnChangeShown, NoData
<1>4. QED
    BY <1>1, <1>2, <1>3 DEF BrowsingInv

\* A step of the service or of elsewhere, which the browser does not see.
LEMMA Unseen ==
    ASSUME BrowsingInv, UNCHANGED <<shown, cache, fetch, promised>>,
           version' \in Nat, version' >= version,
           request' \in [Rows -> [pc : {"none", "sent", "done", "abandoned"}, at : Nat]],
           \A r \in Rows : request'[r].at <= version'
    PROVE  BrowsingInv'
<1>1. Records'
    BY DEF BrowsingInv, Records, View, Reading
<1>2. Versions'
    BY DEF BrowsingInv, Records, Versions
<1>3. OwnChangeShown'
    BY DEF BrowsingInv, OwnChangeShown
<1>4. QED
    BY <1>1, <1>2, <1>3 DEF BrowsingInv

\* The reading of one page goes on.
LEMMA ReadOn ==
    ASSUME BrowsingInv, NEW p \in Pages, NEW f, f \in Reading(f),
           fetch' = [fetch EXCEPT ![p] = f],
           f.pc \in {"counted", "answered"} => f.at >= promised[p],
           f.pc = "idle" => fetch[p].pc = "idle",
           UNCHANGED <<version, shown, cache, request, promised>>
    PROVE  BrowsingInv'
<1>1. fetch'[p] = f /\ \A q \in Pages \ {p} : fetch'[q] = fetch[q]
    BY DEF BrowsingInv, Records
<1>2. Records'
    <2>1. fetch' = [q \in Pages |-> fetch'[q]]
        BY DEF BrowsingInv, Records
    <2>2. \A q \in Pages : fetch'[q] \in Reading(fetch'[q])
        BY <1>1 DEF BrowsingInv, Records
    <2>3. QED
        BY <2>1, <2>2 DEF BrowsingInv, Records, View, Reading
<1>3. Versions'
    BY <1>1 DEF BrowsingInv, Versions
<1>4. OwnChangeShown'
    BY <1>1 DEF BrowsingInv, OwnChangeShown
<1>5. QED
    BY <1>2, <1>3, <1>4 DEF BrowsingInv

-----------------------------------------------------------------------------
(***************************************************************************)
(* The service, and what happens elsewhere                                 *)
(***************************************************************************)

LEMMA ElsewhereKeeps == ASSUME BrowsingInv, NEW r \in Rows, Elsewhere(r) PROVE BrowsingInv'
<1>1. version \in Nat /\ version' = version + 1
    BY DEF BrowsingInv, Records, Elsewhere, Change
<1>2. UNCHANGED <<shown, cache, fetch, promised, request>>
    BY DEF Elsewhere
<1>3. QED
    BY <1>1, <1>2, Unseen DEF BrowsingInv, Records, Versions

\* Several fields of one record are replaced at once.
LEMMA FetchIsRead ==
    ASSUME NEW p, NEW x, NEW y, NEW z
    PROVE  /\ [fetch EXCEPT ![p].pc = x, ![p].total = y, ![p].at = z]
                = [fetch EXCEPT ![p] = [fetch[p] EXCEPT !.pc = x, !.total = y, !.at = z]]
           /\ [fetch EXCEPT ![p].pc = x, ![p].items = y, ![p].read = z]
                = [fetch EXCEPT ![p] = [fetch[p] EXCEPT !.pc = x, !.items = y, !.read = z]]
OBVIOUS

LEMMA CountRowsKeeps == ASSUME BrowsingInv, NEW p \in Pages, CountRows(p) PROVE BrowsingInv'
<1>1. fetch[p] \in Reading(fetch[p]) /\ version \in Nat /\ promised[p] <= version
    BY DEF BrowsingInv, Records, Versions
<1> DEFINE n == Cardinality(Matching)
           f == [fetch[p] EXCEPT !.pc = "counted", !.total = n, !.at = version]
<1>2. fetch' = [fetch EXCEPT ![p].pc = "counted", ![p].total = n, ![p].at = version]
    BY DEF CountRows
<1> HIDE DEF n
<1>3. f \in Reading(f) /\ f.pc = "counted" /\ f.at = version
    BY <1>1 DEF Reading
<1>4. fetch' = [fetch EXCEPT ![p] = f]
    BY <1>2, FetchIsRead
<1>5. QED
    BY <1>1, <1>3, <1>4, ReadOn DEF CountRows, serviceVars

LEMMA ReadRowsKeeps == ASSUME BrowsingInv, NEW p \in Pages, ReadRows(p) PROVE BrowsingInv'
<1> DEFINE f == [fetch[p] EXCEPT !.pc = "answered", !.items = ItemsOf(p),
                              !.read = version]
<1>1. /\ fetch[p] \in Reading(fetch[p]) /\ fetch[p].pc = "counted"
      /\ fetch[p].at >= promised[p]
    BY DEF BrowsingInv, Records, Versions, ReadRows
<1>2. f \in Reading(f) /\ f.pc = "answered" /\ f.at = fetch[p].at
    BY <1>1 DEF Reading, BrowsingInv, Records
<1>3. fetch' = [fetch EXCEPT ![p] = f]
    BY FetchIsRead DEF ReadRows
<1>4. QED
    BY <1>1, <1>2, <1>3, ReadOn DEF ReadRows, serviceVars

LEMMA ServeKeeps == ASSUME BrowsingInv, NEW r \in Rows, Serve(r) PROVE BrowsingInv'
<1>1. version \in Nat /\ version' = version + 1
    BY DEF BrowsingInv, Records, Serve, Change
<1>2. UNCHANGED <<shown, cache, fetch, promised>>
    BY DEF Serve
<1>3. \E new \in {[pc |-> "done", at |-> version'], NoRequest} :
         request' = [request EXCEPT ![r] = new]
    BY Zenon DEF Serve
<1>4. PICK new \in {[pc |-> "done", at |-> version'], NoRequest} :
         request' = [request EXCEPT ![r] = new]
    BY <1>3
<1>5. new \in [pc : {"none", "sent", "done", "abandoned"}, at : Nat] /\ new.at <= version'
    BY <1>1 DEF NoRequest
<1>6. request \in [Rows -> [pc : {"none", "sent", "done", "abandoned"}, at : Nat]]
      /\ \A q \in Rows : request[q].at <= version
    BY DEF BrowsingInv, Records, Versions
<1>7. request' \in [Rows -> [pc : {"none", "sent", "done", "abandoned"}, at : Nat]]
    BY <1>4, <1>5, <1>6
<1>8. \A q \in Rows : request'[q].at <= version'
    BY <1>1, <1>4, <1>5, <1>6
<1>9. QED
    BY <1>1, <1>2, <1>7, <1>8, Unseen

\* A request gets another state, that holds no version.
LEMMA RequestGoesOn ==
    ASSUME BrowsingInv, NEW r \in Rows, NEW pc \in {"none", "sent", "done", "abandoned"},
           request' = [request EXCEPT ![r] = [pc |-> pc, at |-> 0]],
           UNCHANGED <<version, shown, cache, fetch, promised>>
    PROVE  BrowsingInv'
<1>1. version \in Nat
      /\ request \in [Rows -> [pc : {"none", "sent", "done", "abandoned"}, at : Nat]]
      /\ \A q \in Rows : request[q].at <= version
    BY DEF BrowsingInv, Records, Versions
<1>2. request' \in [Rows -> [pc : {"none", "sent", "done", "abandoned"}, at : Nat]]
    BY <1>1
<1>3. \A q \in Rows : request'[q].at <= version'
    BY <1>1
<1>4. QED
    BY <1>1, <1>2, <1>3, Unseen

LEMMA RequestsKeep ==
    ASSUME BrowsingInv, NEW r \in Rows,
           PressCancel(r) \/ PressRegister(r) \/ Refuse(r) \/ GiveUp(r)
    PROVE  BrowsingInv'
<1>1. CASE Send(r)
    BY <1>1, RequestGoesOn DEF Send, serviceVars
<1>2. CASE Refuse(r)
    BY <1>2, RequestGoesOn DEF Refuse, serviceVars, NoRequest
<1>3. CASE GiveUp(r)
    <2>1. CASE request[r].pc = "sent"
        BY <1>3, <2>1, RequestGoesOn DEF GiveUp, serviceVars
    <2>2. CASE request[r].pc # "sent"
        BY <1>3, <2>2, RequestGoesOn DEF GiveUp, serviceVars, NoRequest
    <2>3. QED
        BY <2>1, <2>2
<1>4. QED
    BY <1>1, <1>2, <1>3 DEF PressCancel, PressRegister

-----------------------------------------------------------------------------
(***************************************************************************)
(* The pages                                                               *)
(***************************************************************************)

LEMMA AskedReads == Asked \in Reading(Asked) /\ Asked.pc = "asked"
BY DEF Asked, NoFetch, Reading

\* What is stale is read again when its page is opened.
LEMMA OpenKeeps == ASSUME BrowsingInv, NEW p \in Pages, Open(p) PROVE BrowsingInv'
<1>1. UNCHANGED <<version, cache, request, promised>> /\ shown' = p
    BY DEF Open, serviceVars
<1>2. \A q \in Pages : fetch[q] \in Reading(fetch[q])
    BY DEF BrowsingInv, Records
<1>3. /\ fetch' = [q \in Pages |-> fetch'[q]]
      /\ \A q \in Pages : \/ fetch'[q] = fetch[q]
                          \/ q = p /\ fetch[q].pc = "idle" /\ fetch'[q] = Asked
      /\ fetch'[p].pc = "idle" => ~cache[p].stale
    BY AskedReads DEF BrowsingInv, Records, Open
<1>4. Records'
    <2>1. \A q \in Pages : fetch'[q] \in Reading(fetch'[q])
        BY <1>2, <1>3, AskedReads
    <2>2. QED
        BY <1>1, <1>3, <2>1 DEF BrowsingInv, Records, View, Reading
<1>5. Versions'
    BY <1>1, <1>3, AskedReads DEF BrowsingInv, Versions
<1>6. OwnChangeShown'
    BY <1>1, <1>3 DEF BrowsingInv, OwnChangeShown
<1>7. QED
    BY <1>4, <1>5, <1>6 DEF BrowsingInv

LEMMA LeaveKeeps ==
    ASSUME BrowsingInv, Leave
    PROVE  BrowsingInv'
<1>1. UNCHANGED <<version, cache, fetch, request, promised>> /\ shown' = 0
    BY DEF Leave, serviceVars
<1>2. Records'
    BY <1>1 DEF BrowsingInv, Records, View, Reading
<1>3. Versions'
    BY <1>1 DEF BrowsingInv, Versions
<1>4. OwnChangeShown'
    BY <1>1, BrowsingAssumption DEF BrowsingInv, OwnChangeShown
<1>5. QED
    BY <1>2, <1>3, <1>4 DEF BrowsingInv

\* What arrives is not older than what is promised.
LEMMA DeliverKeeps == ASSUME BrowsingInv, NEW p \in Pages, Deliver(p) PROVE BrowsingInv'
<1> DEFINE c == [has |-> TRUE, items |-> fetch[p].items, total |-> fetch[p].total,
                 at |-> fetch[p].at, read |-> fetch[p].read,
                 error |-> FALSE, stale |-> FALSE]
<1>1. /\ UNCHANGED <<version, shown, request, promised>>
      /\ cache' = [cache EXCEPT ![p] = c] /\ fetch' = [fetch EXCEPT ![p] = NoFetch]
      /\ fetch[p].pc = "answered"
    BY DEF Deliver, serviceVars
<1>2. fetch[p] \in Reading(fetch[p]) /\ fetch[p].at >= promised[p]
    BY <1>1 DEF BrowsingInv, Records, Versions
<1>3. c \in View(c) /\ c.at = fetch[p].at
    BY <1>2 DEF View, Reading
<1> HIDE DEF c
<1>4. /\ cache'[p] = c /\ \A q \in Pages \ {p} : cache'[q] = cache[q]
      /\ fetch'[p] = NoFetch /\ \A q \in Pages \ {p} : fetch'[q] = fetch[q]
      /\ cache' = [q \in Pages |-> cache'[q]]
      /\ fetch' = [q \in Pages |-> fetch'[q]]
    BY <1>1 DEF BrowsingInv, Records
<1>5. NoFetch \in Reading(NoFetch) /\ NoFetch.pc = "idle"
    BY DEF NoFetch, Reading
<1>6. Records'
    <2>1. \A q \in Pages : cache'[q] \in View(cache'[q])
        BY <1>3, <1>4 DEF BrowsingInv, Records
    <2>2. \A q \in Pages : fetch'[q] \in Reading(fetch'[q])
        BY <1>4, <1>5 DEF BrowsingInv, Records
    <2>3. QED
        BY <1>1, <1>4, <2>1, <2>2 DEF BrowsingInv, Records, View, Reading
<1>7. Versions'
    BY <1>1, <1>4, <1>5 DEF BrowsingInv, Versions
<1>8. OwnChangeShown'
    <2>1. promised[p] \in Nat /\ fetch[p].at \in Nat
        BY <1>2 DEF BrowsingInv, Records, Reading
    <2>2. ~(cache'[p].at < promised'[p])
        BY <1>1, <1>2, <1>3, <1>4, <2>1
    <2>3. QED
        BY <1>1, <1>4, <2>2 DEF BrowsingInv, OwnChangeShown
<1>9. QED
    BY <1>6, <1>7, <1>8 DEF BrowsingInv

\* A reading that is given up leaves an error on a page that has data.
LEMMA FailsKeeps == ASSUME BrowsingInv, NEW p \in Pages, Fails(p) PROVE BrowsingInv'
<1>1. CASE fetch' = [fetch EXCEPT ![p] = [Asked EXCEPT !.tries = 1]] /\ cache' = cache
    <2> DEFINE f == [Asked EXCEPT !.tries = 1]
    <2>1. Asked \in Reading(Asked)
        BY AskedReads
    <2>2. f \in Reading(f) /\ f.pc = "asked"
        BY <2>1, AskedReads DEF Reading
    <2> HIDE DEF f
    <2>3. QED
        BY <1>1, <2>2, ReadOn DEF Fails, serviceVars, f
<1>2. CASE /\ fetch' = [fetch EXCEPT ![p] = NoFetch]
           /\ cache' = [cache EXCEPT ![p].error = @ \/ cache[p].has]
    <2> DEFINE c == [cache[p] EXCEPT !.error = cache[p].error \/ cache[p].has]
    <2>1. UNCHANGED <<version, shown, request, promised>>
        BY DEF Fails, serviceVars
    <2>2. cache[p] \in View(cache[p])
        BY DEF BrowsingInv, Records
    <2>3. /\ c \in View(c) /\ c.at = cache[p].at /\ c.has = cache[p].has
          /\ c.stale = cache[p].stale /\ (c.has => c.error)
        BY <2>2 DEF View
    <2>4. cache' = [cache EXCEPT ![p] = c]
        BY <1>2
    <2> HIDE DEF c
    <2>5. /\ cache'[p] = c /\ \A q \in Pages \ {p} : cache'[q] = cache[q]
          /\ fetch'[p] = NoFetch /\ \A q \in Pages \ {p} : fetch'[q] = fetch[q]
          /\ cache' = [q \in Pages |-> cache'[q]]
          /\ fetch' = [q \in Pages |-> fetch'[q]]
        BY <1>2, <2>4 DEF BrowsingInv, Records
    <2>6. NoFetch \in Reading(NoFetch) /\ NoFetch.pc = "idle"
        BY DEF NoFetch, Reading
    <2>7. Records'
        <3>1. \A q \in Pages : cache'[q] \in View(cache'[q])
            BY <2>3, <2>5 DEF BrowsingInv, Records
        <3>2. \A q \in Pages : fetch'[q] \in Reading(fetch'[q])
            BY <2>5, <2>6 DEF BrowsingInv, Records
        <3>3. QED
            BY <2>1, <2>5, <3>1, <3>2 DEF BrowsingInv, Records, View, Reading
    <2>8. Versions'
        BY <2>1, <2>5, <2>6 DEF BrowsingInv, Versions
    <2>9. OwnChangeShown'
        BY <2>1, <2>3, <2>5 DEF BrowsingInv, OwnChangeShown
    <2>10. QED
        BY <2>7, <2>8, <2>9 DEF BrowsingInv
<1>3. QED
    BY <1>1, <1>2 DEF Fails

\* A reading that is refused waits, and is sent again.
LEMMA RenewalKeeps ==
    ASSUME BrowsingInv, NEW p \in Pages, Lapsed(p) \/ SentAgain(p)
    PROVE  BrowsingInv'
<1>1. fetch[p] \in Reading(fetch[p]) /\ fetch[p].pc # "idle"
    BY DEF BrowsingInv, Records, Lapsed, SentAgain
<1>2. PICK x \in {"renewing", "resent"} : fetch' = [fetch EXCEPT ![p].pc = x]
    BY DEF Lapsed, SentAgain
<1> DEFINE f == [fetch[p] EXCEPT !.pc = x]
<1>3. f \in Reading(f) /\ f.pc = x
    BY <1>1 DEF Reading
<1>4. fetch' = [fetch EXCEPT ![p] = f]
    BY <1>2
<1>5. UNCHANGED <<version, shown, cache, request, promised>>
    BY DEF Lapsed, SentAgain, serviceVars
<1> HIDE DEF f
<1>6. QED
    BY <1>3, <1>4, <1>5, ReadOn

\* The page is loaded anew.
LEMMA SessionEndKeeps == ASSUME BrowsingInv, SessionEnds PROVE BrowsingInv'
<1>1. /\ version' = version /\ version \in Nat
      /\ \A p \in Pages : cache'[p] = NoData /\ fetch'[p] = NoFetch /\ promised'[p] = 0
      /\ \A r \in Rows : request'[r] \in {[pc |-> "abandoned", at |-> 0], NoRequest}
    BY DEF SessionEnds, serviceVars, BrowsingInv, Records
<1>2. /\ cache' = [p \in Pages |-> cache'[p]] /\ fetch' = [p \in Pages |-> fetch'[p]]
      /\ request' = [r \in Rows |-> request'[r]] /\ promised' = [p \in Pages |-> promised'[p]]
    BY DEF SessionEnds
<1>3. NoData \in View(NoData) /\ NoFetch \in Reading(NoFetch)
    BY DEF NoData, NoFetch, View, Reading
<1>4. Records'
    BY <1>1, <1>2, <1>3 DEF Records, View, Reading, NoRequest
<1>5. Versions'
    BY <1>1 DEF Versions, NoFetch, NoRequest
<1>6. OwnChangeShown'
    BY <1>1 DEF OwnChangeShown, NoData
<1>7. QED
    BY <1>4, <1>5, <1>6 DEF BrowsingInv

LEMMA AgeKeeps == ASSUME BrowsingInv, NEW p \in Pages, Age(p) PROVE BrowsingInv'
<1> DEFINE c == [cache[p] EXCEPT !.stale = TRUE]
<1>1. UNCHANGED <<version, shown, request, promised, fetch>>
    BY DEF Age, serviceVars
<1>2. cache[p] \in View(cache[p]) /\ ~cache[p].stale
    BY DEF BrowsingInv, Records, Age
<1>3. c \in View(c) /\ c.at = cache[p].at /\ c.has = cache[p].has
    BY <1>2 DEF View
<1>4. cache' = [cache EXCEPT ![p] = c]
    BY DEF Age
<1> HIDE DEF c
<1>5. /\ cache'[p] = c /\ \A q \in Pages \ {p} : cache'[q] = cache[q]
      /\ cache' = [q \in Pages |-> cache'[q]]
    BY <1>4 DEF BrowsingInv, Records
<1>6. Records'
    <2>1. \A q \in Pages : cache'[q] \in View(cache'[q])
        BY <1>3, <1>5 DEF BrowsingInv, Records
    <2>2. QED
        BY <1>1, <1>5, <2>1 DEF BrowsingInv, Records, View, Reading
<1>7. Versions'
    BY <1>1 DEF BrowsingInv, Versions
<1>8. OwnChangeShown'
    BY <1>1, <1>2, <1>3, <1>5 DEF BrowsingInv, OwnChangeShown
<1>9. QED
    BY <1>6, <1>7, <1>8 DEF BrowsingInv

\* A change of one's own makes everything stale, and has what is shown read again.
LEMMA SucceedKeeps == ASSUME BrowsingInv, NEW r \in Rows, Succeed(r) PROVE BrowsingInv'
<1>1. UNCHANGED <<version, shown>>
    BY DEF Succeed, serviceVars
<1>2. /\ \A p \in Pages : cache[p] \in View(cache[p])
      /\ \A p \in Pages : fetch[p] \in Reading(fetch[p])
      /\ request \in [Rows -> [pc : {"none", "sent", "done", "abandoned"}, at : Nat]]
      /\ promised \in [Pages -> Nat] /\ version \in Nat
    BY DEF BrowsingInv, Records
<1>3. /\ cache' = [p \in Pages |-> cache'[p]]
      /\ \A p \in Pages : /\ cache'[p] \in View(cache'[p])
                          /\ cache'[p].stale /\ cache'[p].has = cache[p].has
                          /\ cache'[p].at = cache[p].at /\ cache'[p].error = cache[p].error
    BY <1>2 DEF Succeed, Invalidate, View
<1>4. /\ fetch' = [p \in Pages |-> fetch'[p]]
      /\ \A p \in Pages : \/ fetch'[p] = fetch[p] /\ ~(p = shown /\ ~Overtaken(p))
                          \/ fetch'[p] = Asked /\ p = shown /\ ~Overtaken(p)
    BY DEF Succeed, Invalidate
<1>5. promised' \in [Pages -> Nat]
      /\ \A p \in Pages : promised'[p] \in {promised[p], request[r].at}
                          /\ (Overtaken(p) => promised'[p] = promised[p])
    BY <1>2 DEF Succeed
<1>6. request' \in [Rows -> [pc : {"none", "sent", "done", "abandoned"}, at : Nat]]
      /\ \A q \in Rows : request'[q] = request[q] \/ request'[q].at = 0
    BY <1>2 DEF Succeed, NoRequest
<1>7. Records'
    <2>1. \A p \in Pages : fetch'[p] \in Reading(fetch'[p])
        BY <1>2, <1>4, AskedReads
    <2>2. QED
        BY <1>1, <1>2, <1>3, <1>4, <1>5, <1>6, <2>1 DEF Records, View, Reading
<1>8. Versions'
    <2>1. \A p \in Pages : promised[p] <= version /\ request[r].at <= version
        BY DEF BrowsingInv, Versions
    <2>2. \A q \in Rows : request[q].at <= version
        BY DEF BrowsingInv, Versions
    <2>3. ASSUME NEW p \in Pages, fetch'[p].pc \in {"counted", "answered"}
          PROVE  fetch'[p].at >= promised'[p]
        <3>1. fetch'[p] = fetch[p] /\ ~(p = shown /\ ~Overtaken(p))
            BY <1>4, <2>3, AskedReads
        <3>2. Overtaken(p)
            BY <2>3, <3>1 DEF Overtaken
        <3>3. QED
            BY <1>5, <2>3, <3>1, <3>2 DEF BrowsingInv, Versions
    <2>4. QED
        BY <1>1, <1>2, <1>5, <1>6, <2>1, <2>2, <2>3 DEF Versions
<1>9. OwnChangeShown'
    <2>1. ASSUME NEW p \in Pages, shown' = p PROVE fetch'[p].pc # "idle"
        BY <1>1, <1>4, <2>1, AskedReads DEF Overtaken
    <2>2. QED
        BY <1>3, <2>1 DEF OwnChangeShown
<1>10. QED
    BY <1>7, <1>8, <1>9 DEF BrowsingInv

-----------------------------------------------------------------------------
(***************************************************************************)
(* Every step                                                              *)
(***************************************************************************)

LEMMA NextBrowsing == ASSUME BrowsingInv, [Next]_vars PROVE BrowsingInv'
<1>1. CASE Enter
    BY <1>1, OpenKeeps, BrowsingAssumption DEF Enter
<1>2. CASE Leave
    BY <1>2, LeaveKeeps
<1>3. ASSUME NEW p \in Pages, Turn(p) \/ CountRows(p) \/ ReadRows(p) \/ Deliver(p)
      PROVE  BrowsingInv'
    BY <1>3, OpenKeeps, CountRowsKeeps, ReadRowsKeeps, DeliverKeeps DEF Turn
<1>4. ASSUME NEW p \in Pages, GatewayFails(p) \/ ClientTimesOut(p) \/ Age(p)
      PROVE  BrowsingInv'
    BY <1>4, FailsKeeps, AgeKeeps DEF GatewayFails, ClientTimesOut
<1>5. ASSUME NEW p \in Pages, Lapsed(p) \/ SentAgain(p) PROVE BrowsingInv'
    BY <1>5, RenewalKeeps
<1>6. CASE SessionEnds
    BY <1>6, SessionEndKeeps
<1>7. ASSUME NEW r \in Rows, Elsewhere(r) \/ Serve(r) \/ Succeed(r) PROVE BrowsingInv'
    BY <1>7, ElsewhereKeeps, ServeKeeps, SucceedKeeps
<1>8. ASSUME NEW r \in Rows, PressCancel(r) \/ PressRegister(r) \/ Refuse(r) \/ GiveUp(r)
      PROVE  BrowsingInv'
    BY <1>8, RequestsKeep
<1>9. CASE UNCHANGED vars
    BY <1>9, Unseen DEF vars, BrowsingInv, Records, Versions
<1>10. QED
    BY <1>1, <1>2, <1>3, <1>4, <1>5, <1>6, <1>7, <1>8, <1>9 DEF Next

\* A page that is older than a change of one's own is stale, and while it is shown it is
\* being read again or shows an error, unless its reading was overtaken by the change
\* (useCancelRegistration and the query of the page, with whatever the gateway, the
\* service and the other devices of the participant do meanwhile).
THEOREM OwnChangesAreShown == Spec => []OwnChangeShown
<1>1. Init => BrowsingInv
    BY InitBrowsing
<1>2. BrowsingInv /\ [Next]_vars => BrowsingInv'
    BY NextBrowsing
<1>3. BrowsingInv => OwnChangeShown
    BY DEF BrowsingInv
<1>4. QED
    BY <1>1, <1>2, <1>3, PTL DEF Spec

-----------------------------------------------------------------------------
(***************************************************************************)
(* The order of the rows, and what one change does to it                   *)
(***************************************************************************)

\* The rows that are not behind r, and the first k rows.
UpTo(r) == {q \in Matching : updated[q] >= updated[r]}
Top(k) == {r \in Matching : Place(r) <= k}

\* No two registrations have changed at the same time, none after the last change, and there
\* are finitely many.
Present == {r \in Rows : status[r] # "ABSENT"}

Ordered ==
    /\ version \in Nat
    /\ updated \in [Rows -> Int]
    /\ status = [r \in Rows |-> status[r]]
    /\ \A r \in Rows : updated[r] <= version
    /\ \A q, r \in Present : updated[q] = updated[r] => q = r
    /\ IsFiniteSet(Present)

\* Of two sets of rows, the second has at most one that the first has not.
GainsOne(S, T) == \E x : T \subseteq S \cup {x}

LEMMA AtMostOneMore ==
    ASSUME NEW S, IsFiniteSet(S), NEW x, NEW T, T \subseteq S \cup {x}
    PROVE  IsFiniteSet(T) /\ Cardinality(T) <= Cardinality(S) + 1
<1> DEFINE U == S \cup {x}
<1>1. Cardinality(S) \in Nat
    BY FS_CardinalityType
<1>2. IsFiniteSet(U) /\ (Cardinality(U) = Cardinality(S) \/ Cardinality(U) = Cardinality(S) + 1)
    BY FS_AddElement, Zenon
<1> HIDE DEF U
<1>3. T \in SUBSET U
    BY DEF U
<1>4. IsFiniteSet(T) /\ Cardinality(T) <= Cardinality(U)
    BY <1>2, <1>3, FS_Subset
<1>5. Cardinality(T) \in Nat
    BY <1>4, FS_CardinalityType
<1>6. QED
    BY <1>1, <1>2, <1>4, <1>5

LEMMA AtMostBoth ==
    ASSUME NEW S, NEW T, IsFiniteSet(S), IsFiniteSet(T), NEW U, U = S \cup T
    PROVE  IsFiniteSet(U) /\ Cardinality(U) <= Cardinality(S) + Cardinality(T)
<1>1. S \cap T \in SUBSET S
    OBVIOUS
<1>2. IsFiniteSet(S \cap T)
    BY <1>1, FS_Subset
<1>3. /\ Cardinality(S \cap T) \in Nat /\ Cardinality(S) \in Nat
      /\ Cardinality(T) \in Nat
    BY <1>2, FS_CardinalityType
<1>4. /\ IsFiniteSet(S \cup T)
      /\ Cardinality(S \cup T) = Cardinality(S) + Cardinality(T) - Cardinality(S \cap T)
    BY FS_Union
<1>5. QED
    BY <1>3, <1>4

LEMMA MatchingIsPresent == Ordered => Matching \subseteq Present /\ IsFiniteSet(Matching)
<1>1. Matching \subseteq Present
    BY DEF Matching, Matches, Present
<1>2. QED
    BY <1>1, FS_Subset DEF Ordered

LEMMA PlaceCounts ==
    ASSUME Ordered, NEW r \in Matching
    PROVE  /\ Place(r) = Cardinality(UpTo(r)) /\ r \in UpTo(r)
           /\ IsFiniteSet(UpTo(r)) /\ Place(r) \in Nat \ {0}
           /\ Place(r) <= Cardinality(Matching)
<1>1. UpTo(r) \subseteq Matching /\ r \in UpTo(r)
    <2>1. updated[r] \in Int
        BY DEF Ordered, Matching
    <2>2. QED
        BY <2>1 DEF UpTo
<1>2. IsFiniteSet(Matching)
    BY MatchingIsPresent
<1>3. /\ IsFiniteSet(UpTo(r)) /\ Cardinality(UpTo(r)) \in Nat
      /\ Cardinality(UpTo(r)) <= Cardinality(Matching)
    BY <1>1, <1>2, FS_Subset, FS_CardinalityType
<1>4. Cardinality(UpTo(r)) # 0
    BY <1>1, <1>3, FS_EmptySet
<1>5. QED
    BY <1>1, <1>3, <1>4 DEF Place, UpTo

\* The same of all rows, so that it can be said of the state after a step.
PlacesCount ==
    \A r \in Matching : /\ Place(r) = Cardinality(UpTo(r)) /\ r \in UpTo(r)
                        /\ IsFiniteSet(UpTo(r)) /\ Place(r) \in Nat \ {0}
                        /\ Place(r) <= Cardinality(Matching)

LEMMA AllPlacesCount == Ordered => PlacesCount
BY PlaceCounts DEF PlacesCount

LEMMA AllPlacesCountNext == Ordered' => PlacesCount'
BY AllPlacesCount, PTL

\* No two rows have the same place.
LEMMA OnePlaceEach ==
    ASSUME Ordered, NEW q \in Matching, NEW r \in Matching, Place(q) = Place(r)
    PROVE  q = r
<1>1. /\ q \in Rows /\ r \in Rows /\ q \in Present /\ r \in Present
    BY MatchingIsPresent DEF Matching
<1>2. updated[q] \in Int /\ updated[r] \in Int /\ \A z \in Matching : updated[z] \in Int
    BY <1>1 DEF Ordered, Matching
<1>3. ASSUME NEW a \in Matching, NEW b \in Matching, updated[a] < updated[b]
      PROVE  Place(a) # Place(b)
    <2>1. UpTo(b) \subseteq UpTo(a) /\ a \notin UpTo(b) /\ a \in UpTo(a)
        BY <1>2, <1>3 DEF UpTo
    <2>2. /\ IsFiniteSet(UpTo(a)) /\ Place(a) = Cardinality(UpTo(a))
          /\ Place(b) = Cardinality(UpTo(b))
        BY PlaceCounts
    <2>3. QED
        BY <2>1, <2>2, FS_Subset
<1>4. QED
    BY <1>1, <1>2, <1>3 DEF Ordered

\* The others keep their order, and what has changed comes first.
LEMMA ChangeMovesOne ==
    ASSUME Ordered, NEW r \in Rows, NEW s, Change(r, s), UNCHANGED filter
    PROVE  /\ \A x \in Rows \ {r} : x \in Matching' <=> x \in Matching
           /\ \A x \in Matching \ {r} :
                 UpTo(x)' = (UpTo(x) \ {r}) \cup (IF r \in Matching' THEN {r} ELSE {})
           /\ r \in Matching' => UpTo(r)' = {r}
<1>1. /\ version' = version + 1 /\ version \in Nat
      /\ \A x \in Rows \ {r} : status'[x] = status[x] /\ updated'[x] = updated[x]
      /\ updated'[r] = version + 1
      /\ \A x \in Rows : updated[x] \in Int /\ updated[x] <= version
    BY DEF Ordered, Change
<1>2. \A x \in Rows \ {r} : x \in Matching' <=> x \in Matching
    BY <1>1 DEF Matching, Matches
<1>3. Matching \subseteq Rows /\ Matching' \subseteq Rows
    BY DEF Matching
<1>4. ASSUME NEW x \in Matching \ {r}
      PROVE  UpTo(x)' = (UpTo(x) \ {r}) \cup (IF r \in Matching' THEN {r} ELSE {})
    <2>1. \A q \in Rows \ {r} : q \in UpTo(x)' <=> q \in UpTo(x)
        BY <1>1, <1>2, <1>3 DEF UpTo
    <2>2. r \in UpTo(x)' <=> r \in Matching'
        BY <1>1, <1>3 DEF UpTo
    <2>3. UpTo(x) \subseteq Rows /\ UpTo(x)' \subseteq Rows
        BY <1>3 DEF UpTo
    <2>4. QED
        BY <2>1, <2>2, <2>3
<1>5. ASSUME r \in Matching' PROVE UpTo(r)' = {r}
    BY <1>1, <1>3, <1>5 DEF UpTo
<1>6. QED
    BY <1>2, <1>4, <1>5

LEMMA ChangeKeepsOrder ==
    ASSUME Ordered, NEW r \in Rows, NEW s \in Statuses, Change(r, s)
    PROVE  Ordered'
<1>1. /\ version' = version + 1 /\ version \in Nat
      /\ status' = [status EXCEPT ![r] = s] /\ updated' = [updated EXCEPT ![r] = version + 1]
    BY DEF Ordered, Change
<1>2. version' \in Nat /\ updated' \in [Rows -> Int] /\ status' = [x \in Rows |-> status'[x]]
    BY <1>1 DEF Ordered
<1>3. \A x \in Rows : updated'[x] <= version'
    BY <1>1 DEF Ordered
<1>4. Present' \subseteq Present \cup {r} /\ Present \subseteq Rows
    BY <1>1 DEF Ordered, Present
<1>5. IsFiniteSet(Present')
    BY <1>4, FS_AddElement, FS_Subset DEF Ordered
<1>6. \A q, x \in Present' : updated'[q] = updated'[x] => q = x
    <2>1. \A q \in Present' \ {r} : q \in Present /\ updated'[q] = updated[q]
                                    /\ updated[q] \in Int /\ updated[q] <= version
        BY <1>1, <1>4 DEF Ordered
    <2>2. updated'[r] = version + 1
        BY <1>1 DEF Ordered
    <2>3. QED
        BY <1>1, <2>1, <2>2 DEF Ordered
<1>7. QED
    BY <1>2, <1>3, <1>5, <1>6 DEF Ordered

\* However long the top of the list, a change brings in one row at most, and takes out one.
LEMMA ChangeShiftsOne ==
    ASSUME Ordered, NEW r \in Rows, NEW s \in Statuses, Change(r, s), UNCHANGED filter,
           NEW k \in Nat \ {0}
    PROVE  GainsOne(Top(k), Top(k)') /\ GainsOne(Top(k)', Top(k))
<1>1. Ordered'
    BY ChangeKeepsOrder
<1>2. /\ \A x \in Rows \ {r} : x \in Matching' <=> x \in Matching
      /\ \A x \in Matching \ {r} :
            UpTo(x)' = (UpTo(x) \ {r}) \cup (IF r \in Matching' THEN {r} ELSE {})
      /\ r \in Matching' => UpTo(r)' = {r}
    BY ChangeMovesOne
<1>3. /\ Matching \subseteq Rows /\ Matching' \subseteq Rows
      /\ \A x : x \in Top(k) <=> x \in Matching /\ Place(x) <= k
      /\ \A x : x \in Top(k)' <=> x \in Matching' /\ Place(x)' <= k
    BY DEF Matching, Top
<1>4. \A x \in Matching : /\ Place(x) = Cardinality(UpTo(x)) /\ IsFiniteSet(UpTo(x))
                          /\ Place(x) \in Nat
    BY PlaceCounts
<1>5. \A x \in Matching' : /\ Place(x)' = Cardinality(UpTo(x)') /\ IsFiniteSet(UpTo(x)')
                           /\ Place(x)' \in Nat
    BY <1>1, AllPlacesCountNext DEF PlacesCount
<1>6. \E z : \A x \in Matching : Place(x) = k + 1 => x = z
    <2>1. CASE \E z \in Matching : Place(z) = k + 1
        BY <2>1, OnePlaceEach
    <2>2. QED
        BY <2>1
<1>7. \E z : \A x \in Matching : Place(x) = k => x = z
    <2>1. CASE \E z \in Matching : Place(z) = k
        BY <2>1, OnePlaceEach
    <2>2. QED
        BY <2>1
<1>8. CASE r \in Matching'
    <2>1. ASSUME NEW x \in Top(k)', x # r PROVE x \in Top(k)
        <3>1. x \in Matching' /\ x \in Matching /\ UpTo(x) \subseteq UpTo(x)'
            BY <1>2, <1>3, <1>8, <2>1
        <3>2. Place(x) <= Place(x)'
            BY <1>4, <1>5, <3>1, FS_Subset
        <3>3. QED
            BY <1>3, <1>4, <1>5, <3>1, <3>2
    <2>2. ASSUME NEW x \in Top(k), x \notin Top(k)' PROVE Place(x) = k
        <3>1. x \in Matching /\ Place(x) <= k
            BY <1>3, <2>2
        <3>2. x # r
            <4>1. ASSUME x = r PROVE FALSE
                <5>1. Place(r)' = 1
                    BY <1>2, <1>5, <1>8, FS_Singleton
                <5>2. QED
                    BY <1>3, <1>8, <2>2, <4>1, <5>1
            <4>2. QED
                BY <4>1
        <3>3. x \in Matching' /\ UpTo(x)' \subseteq UpTo(x) \cup {r}
            BY <1>2, <1>3, <1>8, <3>1, <3>2
        <3>4. Place(x)' <= Place(x) + 1
            <4>1. Cardinality(UpTo(x)') <= Cardinality(UpTo(x)) + 1
                BY <1>4, <3>1, <3>3, AtMostOneMore
            <4>2. QED
                BY <1>4, <1>5, <3>1, <3>3, <4>1
        <3>5. QED
            BY <1>3, <1>4, <1>5, <2>2, <3>1, <3>3, <3>4
    <2>3. GainsOne(Top(k), Top(k)')
        BY <2>1 DEF GainsOne
    <2>4. GainsOne(Top(k)', Top(k))
        <3>1. PICK z : \A x \in Matching : Place(x) = k => x = z
            BY <1>7
        <3>2. Top(k) \subseteq Top(k)' \cup {z}
            BY <1>3, <2>2, <3>1
        <3>3. QED
            BY <3>2 DEF GainsOne
    <2>5. QED
        BY <2>3, <2>4
<1>9. CASE r \notin Matching'
    <2>1. ASSUME NEW x \in Top(k), x # r PROVE x \in Top(k)'
        <3>1. x \in Matching /\ x \in Matching' /\ UpTo(x)' \subseteq UpTo(x)
            BY <1>2, <1>3, <1>9, <2>1
        <3>2. Place(x)' <= Place(x)
            BY <1>4, <1>5, <3>1, FS_Subset
        <3>3. QED
            BY <1>3, <1>4, <1>5, <2>1, <3>1, <3>2
    <2>2. ASSUME NEW x \in Top(k)', x \notin Top(k) PROVE x \in Matching /\ Place(x) = k + 1
        <3>1. /\ x \in Matching' /\ x # r /\ x \in Matching /\ Place(x)' <= k
              /\ UpTo(x)' = UpTo(x) \ {r}
            BY <1>2, <1>3, <1>9, <2>2
        <3>2. Place(x)' >= Place(x) - 1
            BY <1>4, <1>5, <3>1, FS_RemoveElement
        <3>3. QED
            BY <1>3, <1>4, <1>5, <2>2, <3>1, <3>2
    <2>3. GainsOne(Top(k)', Top(k))
        BY <2>1 DEF GainsOne
    <2>4. GainsOne(Top(k), Top(k)')
        <3>1. PICK z : \A x \in Matching : Place(x) = k + 1 => x = z
            BY <1>6
        <3>2. Top(k)' \subseteq Top(k) \cup {z}
            BY <2>2, <3>1
        <3>3. QED
            BY <3>2 DEF GainsOne
    <2>5. QED
        BY <2>3, <2>4
<1>10. QED
    BY <1>8, <1>9

-----------------------------------------------------------------------------
(***************************************************************************)
(* Pages that were read one after the other, while the list changed        *)
(***************************************************************************)

LEMMA HasLeast ==
    ASSUME NEW S, S \subseteq Nat, S # {}
    PROVE  \E i \in S : \A j \in S : i <= j
<1> DEFINE R == OpToRel(<, Nat)
<1>1. \A k, j \in Nat : <<j, k>> \in R <=> j < k
    BY DEF OpToRel
<1>2. IsWellFoundedOn(R, Nat)
    BY NatLessThanWellFounded
<1> HIDE DEF R
<1>3. PICK i \in S : \A j \in S : ~(<<j, i>> \in R)
    BY <1>2, WFMin
<1>4. \A j \in S : ~(j < i)
    BY <1>1, <1>3
<1>5. \A j \in S : i <= j
    BY <1>4
<1>6. QED
    BY <1>5

\* What has been first in the list, version by version: h[v][k] are the first k rows at
\* version v.
Past(h, last) ==
    /\ \A v \in 0 .. last :
          h[v][0] = {} /\ \A j, k \in Nat : j <= k => h[v][j] \subseteq h[v][k]
    /\ \A v \in 0 .. last - 1 : \A k \in Nat \ {0} :
          GainsOne(h[v][k], h[v + 1][k]) /\ GainsOne(h[v + 1][k], h[v][k])

\* So many changes bring so many rows in, at most, and take so many out.
LEMMA Drift ==
    ASSUME NEW last \in Nat, NEW h, Past(h, last), NEW k \in Nat \ {0},
           NEW v \in 0 .. last, NEW w \in v .. last
    PROVE  /\ IsFiniteSet(h[w][k] \ h[v][k]) /\ Cardinality(h[w][k] \ h[v][k]) <= w - v
           /\ IsFiniteSet(h[v][k] \ h[w][k]) /\ Cardinality(h[v][k] \ h[w][k]) <= w - v
<1> DEFINE In(u) == h[u][k] \ h[v][k]
           Out(u) == h[v][k] \ h[u][k]
           Good(u) == /\ IsFiniteSet(In(u)) /\ Cardinality(In(u)) <= u - v
                      /\ IsFiniteSet(Out(u)) /\ Cardinality(Out(u)) <= u - v
           Bad == {u \in v .. last : ~Good(u)}
<1>1. ASSUME Bad # {} PROVE FALSE
    <2>1. Bad \subseteq Nat
        OBVIOUS
    <2>2. PICK u \in Bad : \A j \in Bad : u <= j
        <3> HIDE DEF Bad
        <3>1. QED
            BY <1>1, <2>1, HasLeast
    <2>3. u \in v .. last /\ ~Good(u)
        BY <2>2
    <2>4. CASE u = v
        <3>1. In(u) = {} /\ Out(u) = {}
            BY <2>4
        <3>2. Good(u)
            BY <2>4, <3>1, FS_EmptySet
        <3>3. QED
            BY <2>3, <3>2
    <2>5. CASE u # v
        <3>1. u - 1 \in v .. last /\ u - 1 \in 0 .. last - 1 /\ u - 1 \notin Bad
            BY <2>2, <2>3, <2>5
        <3>2. Good(u - 1)
            BY <3>1
        <3>3. GainsOne(h[u - 1][k], h[u][k]) /\ GainsOne(h[u][k], h[u - 1][k])
            <4>1. (u - 1) + 1 = u
                BY <2>3
            <4>2. QED
                BY <3>1, <4>1 DEF Past
        <3>4. PICK x, y : In(u) \subseteq In(u - 1) \cup {x} /\ Out(u) \subseteq Out(u - 1) \cup {y}
            <4>1. PICK x : h[u][k] \subseteq h[u - 1][k] \cup {x}
                BY <3>3 DEF GainsOne
            <4>2. PICK y : h[u - 1][k] \subseteq h[u][k] \cup {y}
                BY <3>3 DEF GainsOne
            <4>3. QED
                BY <4>1, <4>2
        <3> HIDE DEF In, Out
        <3>5. /\ IsFiniteSet(In(u)) /\ Cardinality(In(u)) <= Cardinality(In(u - 1)) + 1
              /\ IsFiniteSet(Out(u)) /\ Cardinality(Out(u)) <= Cardinality(Out(u - 1)) + 1
            BY <3>2, <3>4, AtMostOneMore
        <3>6. /\ Cardinality(In(u)) \in Nat /\ Cardinality(In(u - 1)) \in Nat
              /\ Cardinality(Out(u)) \in Nat /\ Cardinality(Out(u - 1)) \in Nat
            BY <3>2, <3>5, FS_CardinalityType
        <3>7. QED
            BY <2>3, <3>2, <3>5, <3>6
    <2>6. QED
        BY <2>4, <2>5
<1>2. Good(w)
    BY <1>1
<1>3. QED
    BY <1>2

LEMMA UnionOfOneMore ==
    ASSUME NEW G, NEW A, NEW x
    PROVE  UNION {G[p] : p \in A \cup {x}} = (UNION {G[p] : p \in A}) \cup G[x]
OBVIOUS

\* What is brought in, or taken out, between any two readings is not more than all changes.
LEMMA TogetherNotMore ==
    ASSUME NEW n \in Nat \ {0}, NEW t \in [1 .. n -> Nat], NEW G,
           \A p \in 1 .. n - 1 : /\ t[p] <= t[p + 1]
                                 /\ IsFiniteSet(G[p]) /\ Cardinality(G[p]) <= t[p + 1] - t[p]
    PROVE  LET U == UNION {G[p] : p \in 1 .. n - 1}
           IN  IsFiniteSet(U) /\ Cardinality(U) <= t[n] - t[1]
<1> DEFINE U(m) == UNION {G[p] : p \in 1 .. m - 1}
           Good(m) == IsFiniteSet(U(m)) /\ Cardinality(U(m)) <= t[m] - t[1]
           Bad == {m \in 1 .. n : ~Good(m)}
<1>1. ASSUME Bad # {} PROVE FALSE
    <2>1. Bad \subseteq Nat
        OBVIOUS
    <2>2. PICK m \in Bad : \A j \in Bad : m <= j
        <3> HIDE DEF Bad
        <3>1. QED
            BY <1>1, <2>1, HasLeast
    <2>3. m \in 1 .. n /\ ~Good(m)
        BY <2>2
    <2>4. CASE m = 1
        <3>1. U(m) = {}
            BY <2>4
        <3> HIDE DEF U
        <3>2. t[1] \in Nat /\ IsFiniteSet(U(m)) /\ Cardinality(U(m)) = 0
            BY <2>3, <2>4, <3>1, FS_EmptySet
        <3>3. Good(m)
            BY <2>4, <3>2
        <3>4. QED
            BY <2>3, <3>3
    <2>5. CASE m # 1
        <3>1. m - 1 \in 1 .. n /\ m - 1 \in 1 .. n - 1 /\ m - 1 \notin Bad
            <4>1. m - 1 \in 1 .. n /\ m - 1 \in 1 .. n - 1 /\ ~(m <= m - 1)
                BY <2>3, <2>5
            <4> HIDE DEF Bad
            <4>2. QED
                BY <2>2, <4>1
        <3>2. Good(m - 1)
            BY <3>1
        <3>3. U(m) = U(m - 1) \cup G[m - 1]
            <4>1. 1 .. m - 1 = (1 .. (m - 1) - 1) \cup {m - 1}
                <5>1. m \in Nat /\ m >= 2
                    BY <2>3, <2>5
                <5>2. QED
                    BY <5>1
            <4>2. QED
                BY <4>1, UnionOfOneMore
        <3>4. /\ IsFiniteSet(G[m - 1])
              /\ Cardinality(G[m - 1]) <= t[m] - t[m - 1]
            <4>1. (m - 1) + 1 = m
                BY <2>3
            <4>2. QED
                BY <3>1, <4>1
        <3> HIDE DEF U
        <3>5. /\ IsFiniteSet(U(m))
              /\ Cardinality(U(m)) <= Cardinality(U(m - 1)) + Cardinality(G[m - 1])
            BY <3>2, <3>3, <3>4, AtMostBoth
        <3>6. /\ Cardinality(U(m)) \in Nat /\ Cardinality(U(m - 1)) \in Nat
              /\ Cardinality(G[m - 1]) \in Nat
            BY <3>2, <3>4, <3>5, FS_CardinalityType
        <3>7. t[1] \in Nat /\ t[m - 1] \in Nat /\ t[m] \in Nat
            BY <2>3, <3>1
        <3>8. Cardinality(U(m - 1)) <= t[m - 1] - t[1]
            BY <3>2
        <3>9. Cardinality(U(m)) <= t[m] - t[1]
            BY <3>4, <3>5, <3>6, <3>7, <3>8, SMTT(30)
        <3>10. QED
            BY <2>3, <3>5, <3>9
    <2>6. QED
        BY <2>4, <2>5
<1>2. Good(n)
    <2>1. n \in 1 .. n
        OBVIOUS
    <2> HIDE DEF Good
    <2>2. QED
        BY <1>1, <2>1
<1>3. QED
    BY <1>2

\* K[p] rows are on the pages up to p; page p has been read at version t[p], and shows R[p].
ReadInOrder(h, last, n, K, t, R) ==
    /\ Past(h, last)
    /\ K \in [Nat -> Nat] /\ K[0] = 0
    /\ \A p \in 1 .. n : K[p] # 0 /\ K[p - 1] <= K[p]
    /\ t \in [1 .. n -> 0 .. last]
    /\ \A p \in 1 .. n - 1 : t[p] <= t[p + 1]
    /\ \A p \in 1 .. n : R[p] = h[t[p]][K[p]] \ h[t[p]][K[p - 1]]

LEMMA FewAreHidden ==
    ASSUME NEW last \in Nat, NEW n \in Nat \ {0}, NEW h, NEW K, NEW t, NEW R,
           ReadInOrder(h, last, n, K, t, R),
           NEW D, \A r \in D : r \in h[t[n]][K[n]] /\ \A p \in 1 .. n : r \notin R[p]
    PROVE  IsFiniteSet(D) /\ Cardinality(D) <= t[n] - t[1]
<1> DEFINE G == [p \in 1 .. n - 1 |-> h[t[p + 1]][K[p]] \ h[t[p]][K[p]]]
           U == UNION {G[p] : p \in 1 .. n - 1}
<1>1. n \in Nat /\ n >= 1 /\ n \in 1 .. n /\ 1 \in 1 .. n
    OBVIOUS
<1>2. /\ Past(h, last) /\ t \in [1 .. n -> 0 .. last]
      /\ \A p \in 1 .. n - 1 : t[p] <= t[p + 1]
    BY Zenon DEF ReadInOrder
<1>3. /\ n \in Nat /\ n >= 1 /\ n \in 1 .. n /\ 1 \in 1 .. n
      /\ Past(h, last) /\ \A p \in 1 .. n : t[p] \in 0 .. last
      /\ \A p \in 1 .. n - 1 : t[p] <= t[p + 1]
    BY <1>1, <1>2
<1>4. /\ K \in [Nat -> Nat] /\ K[0] = 0
      /\ \A p \in 1 .. n : K[p] # 0 /\ K[p - 1] <= K[p]
    BY DEF ReadInOrder
<1>5. \A p \in 1 .. n : R[p] = h[t[p]][K[p]] \ h[t[p]][K[p - 1]]
    BY DEF ReadInOrder
<1>6. /\ t \in [1 .. n -> Nat]
      /\ \A p \in 1 .. n - 1 : /\ t[p] <= t[p + 1]
                               /\ IsFiniteSet(G[p]) /\ Cardinality(G[p]) <= t[p + 1] - t[p]
    <2>1. ASSUME NEW p \in 1 .. n - 1
          PROVE  IsFiniteSet(G[p]) /\ Cardinality(G[p]) <= t[p + 1] - t[p]
        <3>1. p \in 1 .. n /\ p + 1 \in 1 .. n /\ p \in Nat
            BY <1>3
        <3>2. K[p] \in Nat \ {0}
            BY <1>4, <3>1
        <3>3. t[p] \in 0 .. last /\ t[p + 1] \in t[p] .. last
            BY <1>3, <3>1
        <3>4. QED
            BY <1>3, <3>2, <3>3, Drift
    <2> HIDE DEF G
    <2>2. QED
        BY <1>3, <1>2, <2>1
<1>7. IsFiniteSet(U) /\ Cardinality(U) <= t[n] - t[1]
    <2> HIDE DEF G
    <2>1. QED
        BY <1>6, TogetherNotMore
<1>8. ASSUME NEW r \in D PROVE r \in U
    <2> DEFINE P == {p \in 1 .. n : r \in h[t[p]][K[p]]}
    <2>1. P \subseteq Nat /\ n \in P
        BY <1>3, <1>8
    <2>2. PICK m \in P : \A j \in P : m <= j
        <3> HIDE DEF P
        <3>1. QED
            BY <2>1, HasLeast
    <2>3. m \in 1 .. n /\ r \in h[t[m]][K[m]] /\ r \notin R[m]
        BY <1>8, <2>2
    <2>4. r \in h[t[m]][K[m - 1]]
        BY <1>5, <2>3
    <2>5. m # 1
        <3>1. t[m] \in 0 .. last
            BY <1>3, <2>3
        <3>2. h[t[m]][0] = {}
            BY <1>3, <3>1 DEF Past
        <3>3. QED
            BY <1>4, <2>4, <3>2
    <2>6. /\ m - 1 \in 1 .. n - 1 /\ m - 1 \in 1 .. n /\ (m - 1) + 1 = m
          /\ ~(m <= m - 1)
        BY <1>3, <2>3, <2>5
    <2>7. r \in G[m - 1]
        <3>1. m - 1 \notin P
            <4> HIDE DEF P
            <4>1. QED
                BY <2>2, <2>6
        <3>2. QED
            BY <2>4, <2>6, <3>1
    <2>8. QED
        BY <2>6, <2>7
<1>9. D \subseteq U
    BY <1>8
<1> HIDE DEF U
<1>10. IsFiniteSet(D) /\ Cardinality(D) <= Cardinality(U)
    BY <1>7, <1>9, FS_Subset
<1>11. Cardinality(D) \in Nat /\ Cardinality(U) \in Nat /\ t[n] \in Nat /\ t[1] \in Nat
    BY <1>3, <1>6, <1>7, <1>10, FS_CardinalityType
<1>12. QED
    BY <1>7, <1>10, <1>11

LEMMA FewAreRepeated ==
    ASSUME NEW last \in Nat, NEW n \in Nat \ {0}, NEW h, NEW K, NEW t, NEW R,
           ReadInOrder(h, last, n, K, t, R),
           NEW D, \A r \in D : \E p, q \in 1 .. n : p < q /\ r \in R[p] /\ r \in R[q]
    PROVE  IsFiniteSet(D) /\ Cardinality(D) <= t[n] - t[1]
<1> DEFINE G == [p \in 1 .. n - 1 |-> h[t[p]][K[p]] \ h[t[p + 1]][K[p]]]
           U == UNION {G[p] : p \in 1 .. n - 1}
<1>1. n \in Nat /\ n >= 1 /\ n \in 1 .. n /\ 1 \in 1 .. n
    OBVIOUS
<1>2. /\ Past(h, last) /\ t \in [1 .. n -> 0 .. last]
      /\ \A p \in 1 .. n - 1 : t[p] <= t[p + 1]
    BY Zenon DEF ReadInOrder
<1>3. /\ n \in Nat /\ n >= 1 /\ n \in 1 .. n /\ 1 \in 1 .. n
      /\ Past(h, last) /\ \A p \in 1 .. n : t[p] \in 0 .. last
      /\ \A p \in 1 .. n - 1 : t[p] <= t[p + 1]
    BY <1>1, <1>2
<1>4. /\ K \in [Nat -> Nat] /\ K[0] = 0
      /\ \A p \in 1 .. n : K[p] # 0 /\ K[p - 1] <= K[p]
    BY DEF ReadInOrder
<1>5. \A p \in 1 .. n : R[p] = h[t[p]][K[p]] \ h[t[p]][K[p - 1]]
    BY DEF ReadInOrder
<1>6. /\ t \in [1 .. n -> Nat]
      /\ \A p \in 1 .. n - 1 : /\ t[p] <= t[p + 1]
                               /\ IsFiniteSet(G[p]) /\ Cardinality(G[p]) <= t[p + 1] - t[p]
    <2>1. ASSUME NEW p \in 1 .. n - 1
          PROVE  IsFiniteSet(G[p]) /\ Cardinality(G[p]) <= t[p + 1] - t[p]
        <3>1. p \in 1 .. n /\ p + 1 \in 1 .. n /\ p \in Nat
            BY <1>3
        <3>2. K[p] \in Nat \ {0}
            BY <1>4, <3>1
        <3>3. t[p] \in 0 .. last /\ t[p + 1] \in t[p] .. last
            BY <1>3, <3>1
        <3>4. QED
            BY <1>3, <3>2, <3>3, Drift
    <2> HIDE DEF G
    <2>2. QED
        BY <1>3, <1>2, <2>1
<1>7. IsFiniteSet(U) /\ Cardinality(U) <= t[n] - t[1]
    <2> HIDE DEF G
    <2>1. QED
        BY <1>6, TogetherNotMore
<1>8. ASSUME NEW r \in D PROVE r \in U
    <2>1. PICK p, q \in 1 .. n : p < q /\ r \in R[p] /\ r \in R[q]
        BY <1>8
    <2> DEFINE P == {j \in p + 1 .. q : r \notin h[t[j]][K[j - 1]]}
    <2>2. P \subseteq Nat /\ q \in P
        <3>1. q \in p + 1 .. q /\ p + 1 .. q \subseteq Nat
            BY <1>3, <2>1
        <3>2. r \notin h[t[q]][K[q - 1]]
            BY <1>5, <2>1
        <3>3. QED
            BY <3>1, <3>2
    <2>3. PICK m \in P : \A j \in P : m <= j
        <3> HIDE DEF P
        <3>1. QED
            BY <2>2, HasLeast
    <2>4. /\ m \in p + 1 .. q /\ r \notin h[t[m]][K[m - 1]]
          /\ m - 1 \in 1 .. n - 1 /\ m - 1 \in 1 .. n /\ (m - 1) + 1 = m
        BY <1>3, <2>1, <2>3
    <2>5. r \in h[t[m - 1]][K[m - 1]]
        <3>1. CASE m = p + 1
            <4>1. m - 1 = p
                BY <2>1, <3>1
            <4>2. QED
                BY <1>5, <2>1, <4>1
        <3>2. CASE m # p + 1
            <4>1. m - 1 \in p + 1 .. q /\ ~(m <= m - 1) /\ (m - 1) - 1 \in Nat
                BY <1>3, <2>1, <2>4, <3>2
            <4>2. m - 1 \notin P
                <5> HIDE DEF P
                <5>1. QED
                    BY <2>3, <4>1
            <4>3. r \in h[t[m - 1]][K[(m - 1) - 1]]
                BY <4>1, <4>2
            <4>4. K[(m - 1) - 1] <= K[m - 1]
                BY <1>4, <2>4
            <4>5. K[(m - 1) - 1] \in Nat /\ K[m - 1] \in Nat
                BY <1>4, <2>4, <4>1
            <4>6. t[m - 1] \in 0 .. last
                BY <1>3, <2>4
            <4>7. h[t[m - 1]][K[(m - 1) - 1]] \subseteq h[t[m - 1]][K[m - 1]]
                <5> DEFINE v == t[m - 1]
                           a == K[(m - 1) - 1]
                           b == K[m - 1]
                <5>1. v \in 0 .. last /\ a \in Nat /\ b \in Nat /\ a <= b
                    BY <4>4, <4>5, <4>6
                <5> HIDE DEF v, a, b
                <5>2. h[v][a] \subseteq h[v][b]
                    BY <1>3, <5>1 DEF Past
                <5>3. QED
                    BY <5>2 DEF v, a, b
            <4>8. QED
                BY <4>3, <4>7
        <3>3. QED
            BY <3>1, <3>2
    <2>6. r \in G[m - 1]
        BY <2>4, <2>5
    <2>7. QED
        <3> HIDE DEF G
        <3>1. QED
            BY <2>4, <2>6
<1>9. D \subseteq U
    BY <1>8
<1> HIDE DEF U
<1>10. IsFiniteSet(D) /\ Cardinality(D) <= Cardinality(U)
    BY <1>7, <1>9, FS_Subset
<1>11. Cardinality(D) \in Nat /\ Cardinality(U) \in Nat /\ t[n] \in Nat /\ t[1] \in Nat
    BY <1>3, <1>6, <1>7, <1>10, FS_CardinalityType
<1>12. QED
    BY <1>7, <1>10, <1>11

-----------------------------------------------------------------------------
(***************************************************************************)
(* What the pages show                                                     *)
(***************************************************************************)

CountFits(c) == c.at <= version /\ (c.at = version => c.total = Cardinality(Matching))

\* What was found when page p was read: the rows of that page at the version of the reading.
Found(h, c, p) ==
    /\ c.at <= c.read /\ c.read <= version
    /\ CountFits(c)
    /\ {i.row : i \in c.items} = h[c.read][p * PageSize] \ h[c.read][(p - 1) * PageSize]

PageHolds(h, p, c, f) ==
    /\ c.has => Found(h, c, p)
    /\ f.pc = "answered" => Found(h, f, p)
    /\ f.pc = "counted" => CountFits(f)

\* h is what the list has been.
History(h) ==
    /\ Past(h, version)
    /\ \A k \in Nat : h[version][k] = Top(k)
    /\ \A p \in Pages : PageHolds(h, p, cache[p], fetch[p])

PagesInv == Ordered /\ \E h : History(h)

\* The first rows are among the first that are more, and none is first of none.
TopsGrow == Top(0) = {} /\ \A j, k \in Nat : j <= k => Top(j) \subseteq Top(k)

LEMMA OrderedTopsGrow == Ordered => TopsGrow
<1> SUFFICES ASSUME Ordered PROVE TopsGrow
    OBVIOUS
<1>1. \A r \in Matching : Place(r) \in Nat \ {0}
    BY PlaceCounts
<1>2. QED
    BY <1>1 DEF TopsGrow, Top

LEMMA OrderedTopsGrowNext == Ordered' => TopsGrow'
BY OrderedTopsGrow, PTL

LEMMA ItemsAreAPage ==
    ASSUME Ordered, NEW p \in Pages
    PROVE  {i.row : i \in ItemsOf(p)} = Top(p * PageSize) \ Top((p - 1) * PageSize)
<1>1. /\ p \in Nat /\ PageSize \in Nat
      /\ (p - 1) * PageSize + PageSize = p * PageSize
      /\ (p - 1) * PageSize \in Int /\ p * PageSize \in Int
    BY BrowsingAssumption
<1> DEFINE S == {q \in Matching : /\ Offset(p) < Place(q)
                                  /\ Place(q) <= Offset(p) + PageSize}
<1>2. {i.row : i \in ItemsOf(p)} = S
    <2> HIDE DEF S
    <2>1. ItemsOf(p) = {[row |-> r, status |-> status[r]] : r \in S}
        BY DEF ItemsOf, S
    <2>2. ASSUME NEW r \in S PROVE r \in {i.row : i \in ItemsOf(p)}
        <3>1. [row |-> r, status |-> status[r]] \in ItemsOf(p)
            BY <2>1
        <3>2. [row |-> r, status |-> status[r]].row = r
            OBVIOUS
        <3>3. QED
            BY <3>1, <3>2
    <2>3. ASSUME NEW i \in ItemsOf(p) PROVE i.row \in S
        BY <2>1
    <2>4. QED
        BY <2>2, <2>3
<1>3. \A r \in Matching : Place(r) \in Nat
    BY PlaceCounts
<1>4. S = Top(p * PageSize) \ Top((p - 1) * PageSize)
    <2> DEFINE a == (p - 1) * PageSize
               b == p * PageSize
    <2>1. Offset(p) = a /\ Offset(p) + PageSize = b /\ a \in Int /\ b \in Int
        BY <1>1 DEF Offset
    <2> HIDE DEF a, b
    <2>2. S = Top(b) \ Top(a)
        BY <1>3, <2>1 DEF Top
    <2>3. QED
        BY <2>2 DEF a, b
<1>5. QED
    BY <1>2, <1>4

\* While the list stands still, what was found stays so.
LEMMA ListStandsStill ==
    ASSUME PagesInv, UNCHANGED <<filter, serviceVars>>,
           ASSUME NEW h, \A k \in Nat : h[version][k] = Top(k), NEW p \in Pages,
                  PageHolds(h, p, cache[p], fetch[p])
           PROVE  PageHolds(h, p, cache'[p], fetch'[p])
    PROVE  PagesInv'
<1>1. Ordered'
    BY DEF PagesInv, Ordered, Present, serviceVars
<1>2. PICK h : History(h)
    BY DEF PagesInv
<1>3. Past(h, version)' /\ version' = version
    BY <1>2 DEF History, Past, serviceVars
<1>4. \A k \in Nat : h[version'][k] = Top(k)'
    BY <1>2 DEF History, Top, Place, Matching, Matches, serviceVars
<1>5. ASSUME NEW p \in Pages PROVE PageHolds(h, p, cache[p], fetch[p])'
    <2>1. PageHolds(h, p, cache'[p], fetch'[p])
        BY <1>2 DEF History
    <2>2. QED
        BY <2>1, <1>3 DEF PageHolds, Found, CountFits, serviceVars, Matching, Matches
<1>6. QED
    BY <1>1, <1>3, <1>4, <1>5 DEF PagesInv, History

\* A change adds a version to what has been.
LEMMA ChangeKeepsPages ==
    ASSUME PagesInv, BrowsingInv, NEW r \in Rows, NEW s \in Statuses, Change(r, s),
           UNCHANGED <<filter, cache, fetch>>
    PROVE  PagesInv'
<1>1. Ordered /\ Ordered' /\ TopsGrow'
    BY ChangeKeepsOrder, OrderedTopsGrowNext DEF PagesInv
<1>2. version \in Nat /\ version' = version + 1
    BY <1>1 DEF Ordered, Change
<1>3. PICK h : History(h)
    BY DEF PagesInv
<1>4. Past(h, version) /\ \A k \in Nat : h[version][k] = Top(k)
    BY <1>3 DEF History
<1>5. \E g : /\ \A v \in 0 .. version : g[v] = h[v]
             /\ \A k \in Nat : g[version'][k] = Top(k)'
    <2> DEFINE g == [v \in 0 .. version' |->
                        IF v <= version THEN h[v] ELSE [k \in Nat |-> Top(k)']]
    <2>1. /\ \A v \in 0 .. version : v \in 0 .. version' /\ g[v] = h[v]
          /\ \A k \in Nat : g[version'][k] = Top(k)'
        BY <1>2
    <2> HIDE DEF g
    <2>2. QED
        BY <2>1
<1>6. PICK g : /\ \A v \in 0 .. version : g[v] = h[v]
               /\ \A k \in Nat : g[version'][k] = Top(k)'
    BY <1>5
<1>7. Past(g, version')
    <2>1. ASSUME NEW v \in 0 .. version'
          PROVE  g[v][0] = {} /\ \A j, k \in Nat : j <= k => g[v][j] \subseteq g[v][k]
        <3>1. CASE v = version'
            BY <1>1, <1>6, <3>1 DEF TopsGrow
        <3>2. CASE v # version'
            BY <1>2, <1>4, <1>6, <3>2 DEF Past
        <3>3. QED
            BY <3>1, <3>2
    <2>2. ASSUME NEW v \in 0 .. version' - 1, NEW k \in Nat \ {0}
          PROVE  GainsOne(g[v][k], g[v + 1][k]) /\ GainsOne(g[v + 1][k], g[v][k])
        <3>1. CASE v = version
            <4>1. GainsOne(Top(k), Top(k)') /\ GainsOne(Top(k)', Top(k))
                BY <1>1, ChangeShiftsOne
            <4>2. g[v][k] = Top(k) /\ g[v + 1][k] = Top(k)'
                <5>1. v \in 0 .. version /\ v + 1 = version' /\ k \in Nat
                    BY <1>2, <3>1
                <5>2. QED
                    BY <1>4, <1>6, <3>1, <5>1
            <4>3. QED
                BY <4>1, <4>2
        <3>2. CASE v # version
            <4>1. v \in 0 .. version - 1 /\ v \in 0 .. version /\ v + 1 \in 0 .. version
                BY <1>2, <3>2
            <4>2. QED
                BY <1>4, <1>6, <4>1 DEF Past
        <3>3. QED
            BY <3>1, <3>2
    <2>3. QED
        BY <2>1, <2>2 DEF Past
<1>8. ASSUME NEW p \in Pages PROVE PageHolds(g, p, cache[p], fetch[p])'
    <2>1. PageHolds(h, p, cache[p], fetch[p]) /\ cache' = cache /\ fetch' = fetch
        BY <1>3 DEF History
    <2>2. cache[p].at \in Nat /\ cache[p].read \in Nat /\ fetch[p].at \in Nat
          /\ fetch[p].read \in Nat
        BY DEF BrowsingInv, Records, View, Reading
    <2>3. ASSUME NEW c, c.at \in Nat, c.read \in Nat, Found(h, c, p)
          PROVE  /\ c.at <= c.read /\ c.read <= version' /\ c.at # version'
                 /\ c.at <= version' /\ g[c.read] = h[c.read]
                 /\ {i.row : i \in c.items}
                       = g[c.read][p * PageSize] \ g[c.read][(p - 1) * PageSize]
        BY <1>2, <1>6, <2>3 DEF Found
    <2>4. ASSUME cache[p].has PROVE Found(g, cache[p], p)'
        BY <2>1, <2>2, <2>3, <2>4 DEF PageHolds, Found, CountFits
    <2>5. ASSUME fetch[p].pc = "answered" PROVE Found(g, fetch[p], p)'
        BY <2>1, <2>2, <2>3, <2>5 DEF PageHolds, Found, CountFits
    <2>6. ASSUME fetch[p].pc = "counted" PROVE CountFits(fetch[p])'
        BY <1>2, <2>1, <2>2, <2>6 DEF PageHolds, CountFits
    <2>7. QED
        BY <2>1, <2>4, <2>5, <2>6 DEF PageHolds
<1>9. History(g)'
    BY <1>6, <1>7, <1>8 DEF History
<1>10. QED
    BY <1>1, <1>9 DEF PagesInv

\* The pages and their readings go on, while the list stands still.
LEMMA ReadingKeepsPages ==
    ASSUME PagesInv, BrowsingInv, NEW p \in Pages,
           CountRows(p) \/ ReadRows(p) \/ Deliver(p) \/ Fails(p) \/ Age(p) \/ Open(p)
    PROVE  PagesInv'
<1>1. UNCHANGED <<filter, serviceVars>>
    BY DEF CountRows, ReadRows, Deliver, Fails, Age, Open
<1>2. /\ cache = [q \in Pages |-> cache[q]] /\ fetch = [q \in Pages |-> fetch[q]]
      /\ \A q \in Pages : cache[q] \in View(cache[q]) /\ fetch[q] \in Reading(fetch[q])
      /\ version \in Nat /\ Ordered
    BY DEF BrowsingInv, Records, PagesInv
<1>3. /\ CountRows(p) \/ ReadRows(p) \/ Open(p) => cache' = cache
      /\ Age(p) => fetch' = fetch
      /\ \A q \in Pages \ {p} : cache'[q] = cache[q] /\ fetch'[q] = fetch[q]
    BY <1>2 DEF CountRows, ReadRows, Deliver, Fails, Age, Open
<1> SUFFICES ASSUME NEW h, \A k \in Nat : h[version][k] = Top(k), NEW q \in Pages,
                    PageHolds(h, q, cache[q], fetch[q])
             PROVE  PageHolds(h, q, cache'[q], fetch'[q])
    BY <1>1, ListStandsStill
<1>4. CASE q # p
    BY <1>3, <1>4
<1>5. CASE q = p /\ CountRows(p)
    <2>1. cache' = cache
        BY <1>3, <1>5
    <2>2. fetch'[p].pc = "counted" /\ fetch'[p].at = version
          /\ fetch'[p].total = Cardinality(Matching)
        BY <1>2, <1>5, Zenon DEF CountRows, Reading
    <2>3. QED
        BY <1>2, <1>5, <2>1, <2>2 DEF PageHolds, CountFits
<1>6. CASE q = p /\ ReadRows(p)
    <2>1. cache' = cache
        BY <1>3, <1>6
    <2>2. /\ fetch'[p].pc = "answered" /\ fetch'[p].read = version
          /\ fetch'[p].items = ItemsOf(p)
          /\ fetch'[p].at = fetch[p].at /\ fetch'[p].total = fetch[p].total
          /\ fetch[p].pc = "counted" /\ fetch[p].at \in Nat
        BY <1>2, <1>6 DEF ReadRows, Reading
    <2>3. CountFits(fetch[p])
        BY <1>6, <2>2 DEF PageHolds
    <2>4. {i.row : i \in fetch'[p].items}
             = h[version][p * PageSize] \ h[version][(p - 1) * PageSize]
        <3>1. p * PageSize \in Nat /\ (p - 1) * PageSize \in Nat
            BY BrowsingAssumption
        <3>2. {i.row : i \in fetch'[p].items} = Top(p * PageSize) \ Top((p - 1) * PageSize)
            BY <1>2, <2>2, ItemsAreAPage
        <3>3. QED
            BY <3>1, <3>2
    <2>5. Found(h, fetch'[p], p)
        BY <1>2, <2>2, <2>3, <2>4 DEF Found, CountFits
    <2>6. QED
        BY <1>6, <2>1, <2>2, <2>5 DEF PageHolds
<1>7. CASE q = p /\ Deliver(p)
    <2>1. /\ cache'[p].items = fetch[p].items /\ cache'[p].total = fetch[p].total
          /\ cache'[p].at = fetch[p].at /\ cache'[p].read = fetch[p].read
          /\ fetch[p].pc = "answered" /\ fetch'[p].pc = "idle"
        BY <1>2, <1>7 DEF Deliver, NoFetch
    <2>2. Found(h, fetch[p], p)
        BY <1>7, <2>1 DEF PageHolds
    <2>3. Found(h, cache'[p], p)
        BY <2>1, <2>2 DEF Found, CountFits
    <2>4. QED
        BY <1>7, <2>1, <2>3 DEF PageHolds
<1>8. CASE q = p /\ (Fails(p) \/ Open(p))
    <2>1. /\ cache'[p].items = cache[p].items /\ cache'[p].total = cache[p].total
          /\ cache'[p].at = cache[p].at /\ cache'[p].read = cache[p].read
          /\ cache'[p].has = cache[p].has
        BY <1>2, <1>8 DEF Fails, Open, View
    <2>2. fetch'[p] = fetch[p] \/ fetch'[p].pc \in {"idle", "asked"}
        <3>1. /\ Asked.pc = "asked" /\ [Asked EXCEPT !.tries = 1].pc = "asked"
              /\ NoFetch.pc = "idle"
            BY DEF Asked, NoFetch
        <3>2. QED
            BY <1>2, <1>8, <3>1 DEF Fails, Open
    <2>3. cache[p].has => Found(h, cache'[p], p)
        BY <1>8, <2>1 DEF PageHolds, Found, CountFits
    <2>4. QED
        BY <1>8, <2>1, <2>2, <2>3 DEF PageHolds
<1>9. CASE q = p /\ Age(p)
    <2>1. /\ cache'[p].items = cache[p].items /\ cache'[p].total = cache[p].total
          /\ cache'[p].at = cache[p].at /\ cache'[p].read = cache[p].read
          /\ cache'[p].has = cache[p].has /\ fetch' = fetch
        BY <1>2, <1>9 DEF Age, View
    <2>2. cache[p].has => Found(h, cache'[p], p)
        BY <1>9, <2>1 DEF PageHolds, Found, CountFits
    <2>3. QED
        BY <1>9, <2>1, <2>2 DEF PageHolds
<1>10. QED
    BY <1>4, <1>5, <1>6, <1>7, <1>8, <1>9

LEMMA SucceedKeepsPages ==
    ASSUME PagesInv, BrowsingInv, NEW r \in Rows, Succeed(r)
    PROVE  PagesInv'
<1>1. UNCHANGED <<filter, serviceVars>>
    BY DEF Succeed
<1>2. ASSUME NEW q \in Pages
      PROVE  /\ cache'[q].items = cache[q].items /\ cache'[q].total = cache[q].total
             /\ cache'[q].at = cache[q].at /\ cache'[q].read = cache[q].read
             /\ cache'[q].has = cache[q].has
             /\ fetch'[q] = fetch[q] \/ fetch'[q].pc = "asked"
    <2>1. cache[q] \in View(cache[q])
        BY DEF BrowsingInv, Records
    <2>2. QED
        BY <2>1 DEF Succeed, Invalidate, Asked, NoFetch, View
<1> SUFFICES ASSUME NEW h, NEW q \in Pages, PageHolds(h, q, cache[q], fetch[q])
             PROVE  PageHolds(h, q, cache'[q], fetch'[q])
    BY <1>1, ListStandsStill
<1>3. cache[q].has => Found(h, cache'[q], q)
    BY <1>2 DEF PageHolds, Found, CountFits
<1>4. QED
    BY <1>2, <1>3 DEF PageHolds

\* A reading that waits, or is sent again, has found nothing.
LEMMA RenewalKeepsPages ==
    ASSUME PagesInv, BrowsingInv, NEW p \in Pages, Lapsed(p) \/ SentAgain(p)
    PROVE  PagesInv'
<1>1. UNCHANGED <<filter, serviceVars, cache>>
    BY DEF Lapsed, SentAgain
<1>2. \A q \in Pages : fetch'[q] = fetch[q] \/ fetch'[q].pc \in {"renewing", "resent"}
    <2>1. fetch[p] \in Reading(fetch[p]) /\ fetch = [q \in Pages |-> fetch[q]]
        BY DEF BrowsingInv, Records
    <2>2. QED
        BY <2>1 DEF Lapsed, SentAgain, Reading
<1> SUFFICES ASSUME NEW h, NEW q \in Pages, PageHolds(h, q, cache[q], fetch[q])
             PROVE  PageHolds(h, q, cache'[q], fetch'[q])
    BY <1>1, ListStandsStill
<1>3. QED
    BY <1>1, <1>2 DEF PageHolds

LEMMA SessionEndKeepsPages == ASSUME PagesInv, SessionEnds PROVE PagesInv'
<1>1. UNCHANGED <<filter, serviceVars>>
    BY DEF SessionEnds
<1> SUFFICES ASSUME NEW h, NEW q \in Pages, PageHolds(h, q, cache[q], fetch[q])
             PROVE  PageHolds(h, q, cache'[q], fetch'[q])
    BY <1>1, ListStandsStill
<1>2. QED
    BY DEF SessionEnds, PageHolds, NoData, NoFetch

LEMMA NothingReadKeepsPages ==
    ASSUME PagesInv, UNCHANGED <<filter, serviceVars, cache, fetch>>
    PROVE  PagesInv'
BY ListStandsStill

LEMMA InitPages == Init => PagesInv
<1> SUFFICES ASSUME Init PROVE PagesInv
    OBVIOUS
<1> DEFINE place(r) == CHOOSE i \in DOMAIN First : First[i] = r
<1>1. \A r \in Range(First) : place(r) \in DOMAIN First /\ First[place(r)] = r
    BY DEF Range
<1>2. DOMAIN First = 1 .. Len(First) /\ Len(First) \in Nat
    BY BrowsingAssumption
<1>3. \A r \in Rows : updated[r] = IF r \notin Range(First) THEN 0 ELSE -place(r)
    BY DEF Init
<1> HIDE DEF place
<1>4. /\ version = 0 /\ \A r \in Rows : updated[r] \in Int /\ updated[r] <= 0
    BY <1>1, <1>2, <1>3 DEF Init
<1>5. Present \subseteq Range(First)
    BY DEF Init, Present
<1>6. \A q, r \in Present : updated[q] = updated[r] => q = r
    <2>1. ASSUME NEW q \in Present, NEW r \in Present, updated[q] = updated[r] PROVE q = r
        <3>1. q \in Rows /\ r \in Rows /\ q \in Range(First) /\ r \in Range(First)
            BY <1>5 DEF Present
        <3>2. -place(q) = -place(r) /\ place(q) \in Int /\ place(r) \in Int
            BY <1>1, <1>2, <1>3, <2>1, <3>1
        <3>3. place(q) = place(r)
            BY <3>2
        <3>4. QED
            BY <1>1, <3>1, <3>3
    <2>2. QED
        BY <2>1
<1>7. IsFiniteSet(Present)
    <2>1. First \in Surjection(1 .. Len(First), Range(First))
        BY <1>2, BrowsingAssumption DEF Surjection, Range
    <2>2. IsFiniteSet(1 .. Len(First))
        BY <1>2, FS_Interval
    <2>3. IsFiniteSet(Range(First))
        BY <2>1, <2>2, FS_Surjection
    <2>4. QED
        BY <1>5, <2>3, FS_Subset
<1>8. Ordered
    <2>1. updated \in [Rows -> Int] /\ status = [r \in Rows |-> status[r]]
        BY <1>4 DEF Init
    <2>2. QED
        BY <1>4, <1>6, <1>7, <2>1 DEF Ordered
<1>9. \E h : Past(h, 0) /\ \A k \in Nat : h[0][k] = Top(k)
    <2> DEFINE h == [v \in {0} |-> [k \in Nat |-> Top(k)]]
    <2>1. \A k \in Nat : h[0][k] = Top(k)
        OBVIOUS
    <2> HIDE DEF h
    <2>2. Past(h, 0)
        BY <1>8, <2>1, OrderedTopsGrow DEF Past, TopsGrow
    <2>3. QED
        BY <2>1, <2>2
<1>10. PICK h : Past(h, 0) /\ \A k \in Nat : h[0][k] = Top(k)
    BY <1>9
<1>11. \A p \in Pages : PageHolds(h, p, cache[p], fetch[p])
    BY DEF Init, PageHolds, NoData, NoFetch
<1>12. QED
    BY <1>4, <1>8, <1>10, <1>11 DEF PagesInv, History

LEMMA NextPages == ASSUME PagesInv, BrowsingInv, [Next]_vars PROVE PagesInv'
<1>1. CASE Enter
    BY <1>1, ReadingKeepsPages, BrowsingAssumption DEF Enter
<1>2. CASE Leave
    BY <1>2, NothingReadKeepsPages DEF Leave
<1>3. ASSUME NEW p \in Pages, Turn(p) \/ CountRows(p) \/ ReadRows(p) \/ Deliver(p)
      PROVE  PagesInv'
    BY <1>3, ReadingKeepsPages DEF Turn
<1>4. ASSUME NEW p \in Pages, GatewayFails(p) \/ ClientTimesOut(p) \/ Age(p)
      PROVE  PagesInv'
    BY <1>4, ReadingKeepsPages DEF GatewayFails, ClientTimesOut
<1>5. ASSUME NEW r \in Rows, Elsewhere(r) \/ Serve(r) PROVE PagesInv'
    <2>1. \E s \in Statuses : Change(r, s)
        BY <1>5 DEF Elsewhere, Serve, Statuses
    <2>2. UNCHANGED <<filter, cache, fetch>>
        BY <1>5 DEF Elsewhere, Serve
    <2>3. QED
        BY <2>1, <2>2, ChangeKeepsPages
<1>6. ASSUME NEW r \in Rows, Succeed(r) PROVE PagesInv'
    BY <1>6, SucceedKeepsPages
<1>7. ASSUME NEW r \in Rows, PressCancel(r) \/ PressRegister(r) \/ Refuse(r) \/ GiveUp(r)
      PROVE  PagesInv'
    BY <1>7, NothingReadKeepsPages DEF PressCancel, PressRegister, Send, Refuse, GiveUp
<1>8. ASSUME NEW p \in Pages, Lapsed(p) \/ SentAgain(p) PROVE PagesInv'
    BY <1>8, RenewalKeepsPages
<1>9. CASE SessionEnds
    BY <1>9, SessionEndKeepsPages
<1>10. CASE UNCHANGED vars
    BY <1>10, NothingReadKeepsPages DEF vars, serviceVars
<1>11. QED
    BY <1>1, <1>2, <1>3, <1>4, <1>5, <1>6, <1>7, <1>8, <1>9, <1>10 DEF Next

LEMMA PagesInvFits == ASSUME PagesInv, BrowsingInv PROVE PagesFit
<1> SUFFICES ASSUME NEW n \in Pages,
                    \A p \in 1 .. n : cache[p].has,
                    \A p \in (1 .. n) \ {n} : cache[p].read <= cache[p + 1].read,
                    cache[n].at = version,
                    n * PageSize >= Cardinality(Matching)
             PROVE  LET listed == UNION {RowsOn(p) : p \in 1 .. n}
                        shifts == version - cache[1].read
                    IN  /\ Cardinality(Matching \ listed) <= shifts
                        /\ Cardinality({r \in Rows :
                               Cardinality({p \in 1 .. n : r \in RowsOn(p)}) > 1}) <= shifts
                        /\ cache[n].total = Cardinality(Matching)
    BY DEF PagesFit
<1>1. PICK h : History(h)
    BY DEF PagesInv
<1>2. n \in Nat \ {0} /\ 1 .. n \subseteq Pages /\ version \in Nat /\ Ordered
    BY BrowsingAssumption DEF BrowsingInv, Records, PagesInv
<1>3. \A p \in 1 .. n : Found(h, cache[p], p) /\ cache[p].read \in Nat /\ cache[p].at \in Nat
    BY <1>1, <1>2 DEF History, PageHolds, BrowsingInv, Records, View
<1>4. cache[n].read = version /\ cache[n].total = Cardinality(Matching)
    BY <1>2, <1>3 DEF Found, CountFits
<1> DEFINE K == [p \in Nat |-> p * PageSize]
           t == [p \in 1 .. n |-> cache[p].read]
           R == [p \in 1 .. n |-> RowsOn(p)]
<1>5. ReadInOrder(h, version, n, K, t, R)
    <2>1. Past(h, version)
        BY <1>1 DEF History
    <2>2. K \in [Nat -> Nat] /\ K[0] = 0
        BY BrowsingAssumption
    <2>3. \A p \in 1 .. n : K[p] # 0 /\ K[p - 1] <= K[p]
        <3>1. ASSUME NEW p \in 1 .. n PROVE p * PageSize # 0 /\ (p - 1) * PageSize <= p * PageSize
            <4>1. p * PageSize = (p - 1) * PageSize + PageSize /\ (p - 1) * PageSize \in Nat
                BY BrowsingAssumption
            <4>2. QED
                BY <4>1, BrowsingAssumption
        <3>2. QED
            BY <3>1
    <2>4. t \in [1 .. n -> 0 .. version]
        BY <1>2, <1>3 DEF Found
    <2>5. \A p \in 1 .. n - 1 : t[p] <= t[p + 1]
        BY <1>2
    <2>6. \A p \in 1 .. n : R[p] = h[t[p]][K[p]] \ h[t[p]][K[p - 1]]
        <3>1. ASSUME NEW p \in 1 .. n PROVE R[p] = h[t[p]][K[p]] \ h[t[p]][K[p - 1]]
            <4>1. R[p] = {i.row : i \in cache[p].items} /\ t[p] = cache[p].read
                BY DEF RowsOn
            <4>2. K[p] = p * PageSize /\ K[p - 1] = (p - 1) * PageSize
                BY <1>2
            <4> HIDE DEF K, t, R
            <4>3. QED
                BY <1>3, <4>1, <4>2 DEF Found
        <3>2. QED
            BY <3>1
    <2> HIDE DEF K, t, R
    <2>7. QED
        BY <2>1, <2>2, <2>3, <2>4, <2>5, <2>6 DEF ReadInOrder
<1>6. h[t[n]][K[n]] = Matching /\ t[n] - t[1] = version - cache[1].read
    <2>1. n \in 1 .. n /\ 1 \in 1 .. n /\ n * PageSize \in Nat
        BY <1>2, BrowsingAssumption
    <2>2. h[version][n * PageSize] = Top(n * PageSize)
        BY <1>1, <2>1 DEF History
    <2>3. \A r \in Matching : Place(r) \in Nat /\ Place(r) <= Cardinality(Matching)
        BY <1>2, PlaceCounts
    <2>4. Cardinality(Matching) \in Nat
        BY <1>2, MatchingIsPresent, FS_CardinalityType
    <2>5. Top(n * PageSize) = Matching
        BY <2>1, <2>3, <2>4 DEF Top
    <2>6. QED
        BY <1>2, <1>4, <2>1, <2>2, <2>5
<1>7. UNION {R[p] : p \in 1 .. n} = UNION {RowsOn(p) : p \in 1 .. n}
    OBVIOUS
<1> DEFINE D == {r \in Rows : Cardinality({p \in 1 .. n : r \in RowsOn(p)}) > 1}
<1>8. \A r \in D : \E p, q \in 1 .. n : p < q /\ r \in R[p] /\ r \in R[q]
    <2>1. ASSUME NEW r \in D PROVE \E p, q \in 1 .. n : p < q /\ r \in R[p] /\ r \in R[q]
        <3> DEFINE P == {p \in 1 .. n : r \in RowsOn(p)}
        <3>1. P \in SUBSET (1 .. n) /\ Cardinality(P) > 1
            BY <2>1
        <3>2. IsFiniteSet(P)
            BY <1>2, <3>1, FS_Interval, FS_Subset
        <3> HIDE DEF P
        <3>3. P # {} /\ \A p \in P : P # {p}
            <4>1. Cardinality({}) = 0 /\ \A p \in P : Cardinality({p}) = 1
                BY FS_EmptySet, FS_Singleton
            <4>2. ~(0 > 1) /\ ~(1 > 1)
                OBVIOUS
            <4>3. QED
                BY <3>1, <4>1, <4>2
        <3>4. PICK p, q \in P : p # q
            BY <3>3
        <3>5. p \in 1 .. n /\ q \in 1 .. n /\ r \in R[p] /\ r \in R[q]
            BY <3>1, <3>4 DEF P
        <3>6. QED
            BY <3>4, <3>5
    <2>2. QED
        BY <2>1
<1> HIDE DEF K, t, R, D
<1> DEFINE H == Matching \ UNION {RowsOn(p) : p \in 1 .. n}
<1>9. Cardinality(H) <= t[n] - t[1]
    <2>1. \A r \in H : r \in h[t[n]][K[n]] /\ \A p \in 1 .. n : r \notin R[p]
        BY <1>6, <1>7
    <2> HIDE DEF H
    <2>2. QED
        BY <1>2, <1>5, <2>1, FewAreHidden
<1>10. Cardinality(D) <= t[n] - t[1]
    BY <1>2, <1>5, <1>8, FewAreRepeated
<1>11. QED
    BY <1>4, <1>6, <1>7, <1>9, <1>10 DEF D

\* Reading the pages one after the other, from the first to the last, hides no more
\* registrations, and shows no more of them twice, than have changed meanwhile, and the
\* total is right (listParticipations with its two statements, and the cache of the page).
THEOREM PagesAlwaysFit == Spec => []PagesFit
<1>1. Init => BrowsingInv /\ PagesInv
    BY InitBrowsing, InitPages
<1>2. BrowsingInv /\ PagesInv /\ [Next]_vars => (BrowsingInv /\ PagesInv)'
    BY NextBrowsing, NextPages
<1>3. BrowsingInv /\ PagesInv => PagesFit
    BY PagesInvFits
<1>4. QED
    BY <1>1, <1>2, <1>3, PTL DEF Spec
-----------------------------------------------------------------------------
(***************************************************************************)
(* Types                                                                   *)
(***************************************************************************)

Kept == [has : BOOLEAN, items : SUBSET Item, total : Nat, at : Nat, read : Nat,
         error : BOOLEAN, stale : BOOLEAN]
UnderWay == [pc : {"idle", "asked", "renewing", "resent", "counted", "answered"},
             tries : 0 .. 1, total : Nat, items : SUBSET Item, at : Nat, read : Nat]

LEMMA NoRecordsHaveTypes ==
    /\ NoData \in Kept /\ NoFetch \in UnderWay /\ Asked \in UnderWay
    /\ [Asked EXCEPT !.tries = 1] \in UnderWay
<1>1. NoData \in Kept
    BY DEF NoData, Kept
<1>2. NoFetch \in UnderWay /\ NoFetch.pc = "idle"
    BY DEF NoFetch, UnderWay
<1>3. Asked \in UnderWay
    BY <1>2 DEF Asked, UnderWay
<1>4. [Asked EXCEPT !.tries = 1] \in UnderWay
    BY <1>3 DEF UnderWay
<1>5. QED
    BY <1>1, <1>2, <1>3, <1>4

LEMMA InitType == Init => TypeOK
<1> SUFFICES ASSUME Init PROVE TypeOK
    OBVIOUS
<1>1. filter \in Statuses \cup {"ALL"}
    BY BrowsingAssumption DEF Init, Statuses
<1>2. updated \in [Rows -> Int]
    <2>1. ASSUME NEW r \in Range(First)
          PROVE  (CHOOSE i \in DOMAIN First : First[i] = r) \in Nat
        <3>1. DOMAIN First \subseteq Nat /\ \E i \in DOMAIN First : First[i] = r
            BY BrowsingAssumption, <2>1 DEF Range
        <3>2. QED
            BY <3>1
    <2>2. QED
        BY <2>1 DEF Init
<1>3. cache \in [Pages -> Kept] /\ fetch \in [Pages -> UnderWay]
    BY NoRecordsHaveTypes DEF Init
<1>4. QED
    BY <1>1, <1>2, <1>3, BrowsingAssumption
    DEF Init, TypeOK, Statuses, Kept, UnderWay, NoRequest

LEMMA ServiceTypes ==
    ASSUME TypeOK, NEW r \in Rows, NEW s \in Statuses, Change(r, s)
    PROVE  /\ status' \in [Rows -> Statuses \cup {"ABSENT"}]
           /\ updated' \in [Rows -> Int]
           /\ version' \in Nat
BY DEF TypeOK, Change

LEMMA PagesTypes ==
    ASSUME TypeOK, Ordered, NEW p \in Pages,
           CountRows(p) \/ ReadRows(p) \/ Deliver(p) \/ Fails(p) \/ Age(p)
    PROVE  TypeOK'
<1>1. /\ cache \in [Pages -> Kept] /\ fetch \in [Pages -> UnderWay]
      /\ version \in Nat /\ Cardinality(Matching) \in Nat
    BY MatchingIsPresent, FS_CardinalityType DEF TypeOK, Kept, UnderWay
<1>2. cache' \in [Pages -> Kept] /\ fetch' \in [Pages -> UnderWay]
    <2> DEFINE f == fetch[p]
    <2>0. f \in UnderWay
        BY <1>1
    <2>1. CASE CountRows(p)
        <3>1. [f EXCEPT !.pc = "counted", !.total = Cardinality(Matching), !.at = version]
                 \in UnderWay
            BY <1>1, <2>0 DEF UnderWay
        <3>2. QED
            BY <1>1, <2>1, <3>1 DEF CountRows
    <2>2. CASE ReadRows(p)
        <3>1. \A r \in Matching : r \in Rows /\ status[r] \in Statuses
            BY DEF Matching, Matches, TypeOK
        <3>2. ItemsOf(p) \subseteq Item
            BY <3>1 DEF ItemsOf, Item
        <3>3. [f EXCEPT !.pc = "answered", !.items = ItemsOf(p), !.read = version] \in UnderWay
            BY <1>1, <2>0, <3>2 DEF UnderWay
        <3>4. QED
            BY <1>1, <2>2, <3>3 DEF ReadRows
    <2>3. CASE Deliver(p)
        BY <1>1, <2>3, NoRecordsHaveTypes DEF Deliver, Kept, UnderWay
    <2>4. CASE Fails(p)
        <3>1. fetch' \in [Pages -> UnderWay]
            BY <1>1, <2>4, NoRecordsHaveTypes DEF Fails
        <3>2. cache[p] \in Kept
            BY <1>1
        <3>3. [cache[p] EXCEPT !.error = cache[p].error \/ cache[p].has] \in Kept
            BY <3>2 DEF Kept
        <3>4. \/ cache' = cache
              \/ cache' = [cache EXCEPT ![p] =
                              [cache[p] EXCEPT !.error = cache[p].error \/ cache[p].has]]
            BY <2>4 DEF Fails
        <3>5. QED
            BY <1>1, <3>1, <3>3, <3>4
    <2>5. CASE Age(p)
        BY <1>1, <2>5 DEF Age, Kept
    <2>6. QED
        BY <2>1, <2>2, <2>3, <2>4, <2>5
<1>3. UNCHANGED <<filter, serviceVars, shown, request, bounds, promised>>
    BY DEF CountRows, ReadRows, Deliver, Fails, Age
<1>4. QED
    BY <1>2, <1>3 DEF TypeOK, Kept, UnderWay, serviceVars, bounds

LEMMA RenewalTypes ==
    ASSUME TypeOK, (\E p \in Pages : Lapsed(p) \/ SentAgain(p)) \/ SessionEnds
    PROVE  TypeOK'
<1>1. CASE \E p \in Pages : Lapsed(p) \/ SentAgain(p)
    <2>1. PICK p \in Pages : \E x \in {"renewing", "resent"} :
              fetch' = [fetch EXCEPT ![p] = [fetch[p] EXCEPT !.pc = x]]
        BY <1>1 DEF Lapsed, SentAgain
    <2>2. fetch \in [Pages -> UnderWay] /\ fetch[p] \in UnderWay
        BY DEF TypeOK, UnderWay
    <2>3. \A x \in {"renewing", "resent"} : [fetch[p] EXCEPT !.pc = x] \in UnderWay
        BY <2>2 DEF UnderWay
    <2>4. fetch' \in [Pages -> UnderWay]
        BY <2>1, <2>2, <2>3
    <2>5. QED
        BY <1>1, <2>4 DEF Lapsed, SentAgain, TypeOK, UnderWay, serviceVars, bounds
<1>2. CASE SessionEnds
    <2>1. cache' \in [Pages -> Kept] /\ fetch' \in [Pages -> UnderWay]
        BY <1>2, NoRecordsHaveTypes DEF SessionEnds
    <2>2. /\ request' \in [Rows -> [pc : {"none", "sent", "done", "abandoned"}, at : Nat]]
          /\ promised' \in [Pages -> Nat]
        BY <1>2 DEF SessionEnds, NoRequest
    <2>3. QED
        BY <1>2, <2>1, <2>2 DEF SessionEnds, TypeOK, Kept, UnderWay, serviceVars, bounds
<1>3. QED
    BY <1>1, <1>2

LEMMA OpenTypes == ASSUME TypeOK, NEW p \in Pages, Open(p) PROVE TypeOK'
<1>1. fetch' \in [Pages -> UnderWay]
    BY NoRecordsHaveTypes DEF Open, TypeOK, UnderWay
<1>2. QED
    BY <1>1 DEF Open, TypeOK, UnderWay, serviceVars, bounds

LEMMA RequestTypes ==
    ASSUME TypeOK, NEW r \in Rows,
           PressCancel(r) \/ PressRegister(r) \/ Refuse(r) \/ GiveUp(r)
    PROVE  TypeOK'
<1>1. CASE PressCancel(r) \/ PressRegister(r)
    <2>1. Send(r)
        BY <1>1 DEF PressCancel, PressRegister
    <2>2. requests' \in 0 .. MaxRequests
        BY <2>1, BrowsingAssumption DEF Send, TypeOK
    <2>3. request' \in [Rows -> [pc : {"none", "sent", "done", "abandoned"}, at : Nat]]
        BY <2>1 DEF Send, TypeOK
    <2>4. QED
        BY <2>1, <2>2, <2>3 DEF Send, TypeOK, serviceVars
<1>2. CASE Refuse(r)
    BY <1>2 DEF Refuse, NoRequest, TypeOK, serviceVars, bounds
<1>3. CASE GiveUp(r)
    BY <1>3 DEF GiveUp, NoRequest, TypeOK, serviceVars, bounds
<1>4. QED
    BY <1>1, <1>2, <1>3

LEMMA SucceedTypes == ASSUME TypeOK, NEW r \in Rows, Succeed(r) PROVE TypeOK'
<1>1. cache \in [Pages -> Kept] /\ fetch \in [Pages -> UnderWay]
    BY DEF TypeOK, Kept, UnderWay
<1>2. cache' \in [Pages -> Kept]
    BY <1>1 DEF Succeed, Invalidate, Kept
<1>3. fetch' \in [Pages -> UnderWay]
    BY <1>1, NoRecordsHaveTypes DEF Succeed, Invalidate
<1>4. request[r].at \in Nat
    BY DEF TypeOK
<1>5. promised' \in [Pages -> Nat] /\ request' \in [Rows -> [pc : {"none", "sent", "done", "abandoned"}, at : Nat]]
    BY <1>4 DEF Succeed, TypeOK, NoRequest
<1>6. QED
    BY <1>2, <1>3, <1>5 DEF Succeed, TypeOK, Kept, UnderWay, serviceVars, bounds

LEMMA NextType == ASSUME TypeOK, Ordered, [Next]_vars PROVE TypeOK'
<1>1. CASE Enter
    BY <1>1, OpenTypes, BrowsingAssumption DEF Enter
<1>2. CASE Leave
    BY <1>2 DEF Leave, TypeOK, serviceVars, bounds
<1>3. ASSUME NEW p \in Pages, Turn(p) PROVE TypeOK'
    BY <1>3, OpenTypes DEF Turn
<1>4. ASSUME NEW p \in Pages,
             CountRows(p) \/ ReadRows(p) \/ Deliver(p)
                \/ GatewayFails(p) \/ ClientTimesOut(p) \/ Age(p)
      PROVE  TypeOK'
    BY <1>4, PagesTypes DEF GatewayFails, ClientTimesOut
<1>5. ASSUME NEW r \in Rows, Elsewhere(r) PROVE TypeOK'
    <2>1. \E s \in Statuses : Change(r, s)
        BY <1>5 DEF Elsewhere, Statuses
    <2>2. changes' \in 0 .. MaxChanges
        BY <1>5, BrowsingAssumption DEF Elsewhere, TypeOK
    <2>3. QED
        BY <1>5, <2>1, <2>2, ServiceTypes DEF Elsewhere, TypeOK
<1>6. ASSUME NEW r \in Rows, Serve(r) PROVE TypeOK'
    <2>1. \E s \in Statuses : Change(r, s)
        BY <1>6 DEF Serve, Statuses
    <2>2. version' \in Nat
        BY <2>1, ServiceTypes
    <2>3. request' \in [Rows -> [pc : {"none", "sent", "done", "abandoned"}, at : Nat]]
        BY <1>6, <2>2 DEF Serve, TypeOK, NoRequest
    <2>4. QED
        BY <1>6, <2>1, <2>3, ServiceTypes DEF Serve, TypeOK, bounds
<1>7. ASSUME NEW r \in Rows, PressCancel(r) \/ PressRegister(r) \/ Refuse(r) \/ GiveUp(r)
      PROVE  TypeOK'
    BY <1>7, RequestTypes
<1>8. ASSUME NEW r \in Rows, Succeed(r) PROVE TypeOK'
    BY <1>8, SucceedTypes
<1>9. CASE (\E p \in Pages : Lapsed(p) \/ SentAgain(p)) \/ SessionEnds
    BY <1>9, RenewalTypes
<1>10. CASE UNCHANGED vars
    BY <1>10 DEF vars, serviceVars, bounds, TypeOK
<1>11. QED
    BY <1>1, <1>2, <1>3, <1>4, <1>5, <1>6, <1>7, <1>8, <1>9, <1>10 DEF Next

\* The cache, the readings and the rows have their types: the totals and the versions are
\* numbers, as the participant has finitely many registrations (listParticipations).
THEOREM TypeCorrect == Spec => []TypeOK
<1>1. Init => TypeOK /\ BrowsingInv /\ PagesInv
    BY InitType, InitBrowsing, InitPages
<1>2. TypeOK /\ BrowsingInv /\ PagesInv /\ [Next]_vars => (TypeOK /\ BrowsingInv /\ PagesInv)'
    BY NextType, NextBrowsing, NextPages DEF PagesInv
<1>3. QED
    BY <1>1, <1>2, PTL DEF Spec
=============================================================================
