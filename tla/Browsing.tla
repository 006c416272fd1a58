------------------------------- MODULE Browsing -------------------------------
(***************************************************************************)
(* A participant looks through the pages of "my registrations" while the   *)
(* registrations change: the page of the frontend with its cache of        *)
(* queries, the gateway it asks, and the registration service, which reads *)
(* a page with two statements, a COUNT and a SELECT with LIMIT and OFFSET. *)
(*                                                                         *)
(* The cache is the one of React Query, an external library, as the page   *)
(* and its hooks use it: data older than 30 seconds is stale; stale data   *)
(* is read again when its page is opened; a query that fails is tried once *)
(* more while its page is shown; invalidating marks all data as stale and  *)
(* reads the shown page again, giving up a reading of it that is under     *)
(* way, but only if there is data already; what is read ends the staleness.*)
(*                                                                         *)
(* Readings change nothing, so one that is given up is forgotten.          *)
(*                                                                         *)
(* A reading that is refused because the access token has lapsed waits for *)
(* a new one before it is sent again (ClientSession has what becomes of    *)
(* the tokens).  The timer of the client covers each time it is sent, but  *)
(* not the wait between them.                                              *)
(***************************************************************************)
EXTENDS Integers, Sequences, FiniteSets, Functions

CONSTANTS
    Rows,           \* the registrations the participant has or makes
    First,          \* the registrations there are at first, latest change first
    Waiting,        \* those of First that wait for a seat
    Filters,        \* the statuses the participant may look for, "ALL": any
    PageSize,
    Pages,          \* the page numbers that are looked at
    MaxReadings,    \* bound: readings under way when another one begins with a page
    MaxRequests,    \* bound: cancellations and registrations from this browser
    MaxChanges      \* bound: changes that come from elsewhere

ASSUME BrowsingAssumption ==
    /\ First \in Seq(Rows)
    /\ \A i, j \in DOMAIN First : First[i] = First[j] => i = j
    /\ Waiting \subseteq Rows
    /\ Filters \subseteq {"CONFIRMED", "WAITLISTED", "CANCELLED", "ALL"}
    /\ PageSize \in Nat \ {0}
    /\ 1 \in Pages /\ Pages \subseteq Nat \ {0}
    /\ \A n \in Pages : 1 .. n \subseteq Pages
    /\ MaxReadings \in Nat
    /\ MaxRequests \in Nat
    /\ MaxChanges \in Nat

VARIABLES
    filter,         \* the status the participant looks for
    status,         \* registration_status of each registration of the participant
    updated,        \* updated_at of each
    version,        \* how often one has changed: the clock for updated_at, and history
    shown,          \* the page that is shown, 0: another part of the frontend
    cache,          \* what the browser keeps of each page; error: it could not be read again
    fetch,          \* the reading of each page that is under way
    request,        \* what this browser has asked to be done with a registration
    requests,
    changes,
    promised        \* history: the version a page must not be older than

vars == <<filter, status, updated, version, shown, cache, fetch, request, requests, changes,
          promised>>
serviceVars == <<status, updated, version>>
bounds == <<requests, changes>>

Statuses == {"CONFIRMED", "WAITLISTED", "CANCELLED"}
Item == [row : Rows, status : Statuses]

\* History: at and read are the versions when the rows were counted and when they were read.
NoData == [has |-> FALSE, items |-> {}, total |-> 0, at |-> 0, read |-> 0,
           error |-> FALSE, stale |-> TRUE]
NoFetch == [pc |-> "idle", tries |-> 0, total |-> 0, items |-> {}, at |-> 0, read |-> 0]
NoRequest == [pc |-> "none", at |-> 0]

TypeOK ==
    /\ filter \in Statuses \cup {"ALL"}
    /\ status \in [Rows -> Statuses \cup {"ABSENT"}]
    /\ updated \in [Rows -> Int]
    /\ version \in Nat
    /\ shown \in Pages \cup {0}
    /\ cache \in [Pages -> [has : BOOLEAN, items : SUBSET Item, total : Nat,
                            at : Nat, read : Nat, error : BOOLEAN, stale : BOOLEAN]]
    /\ fetch \in [Pages -> [pc : {"idle", "asked", "renewing", "resent", "counted", "answered"},
                            tries : 0 .. 1, total : Nat, items : SUBSET Item,
                            at : Nat, read : Nat]]
    /\ request \in [Rows -> [pc : {"none", "sent", "done", "abandoned"}, at : Nat]]
    /\ requests \in 0 .. MaxRequests
    /\ changes \in 0 .. MaxChanges
    /\ promised \in [Pages -> Nat]

Init ==
    /\ filter \in Filters
    /\ status = [r \in Rows |->
                    IF r \notin Range(First) THEN "ABSENT"
                    ELSE IF r \in Waiting THEN "WAITLISTED" ELSE "CONFIRMED"]
    /\ updated = [r \in Rows |->
                     IF r \notin Range(First) THEN 0
                     ELSE -(CHOOSE i \in DOMAIN First : First[i] = r)]
    /\ version = 0
    /\ shown = 0
    /\ cache = [p \in Pages |-> NoData]
    /\ fetch = [p \in Pages |-> NoFetch]
    /\ request = [r \in Rows |-> NoRequest]
    /\ requests = 0
    /\ changes = 0
    /\ promised = [p \in Pages |-> 0]

-----------------------------------------------------------------------------
(***************************************************************************)
(* The service                                                             *)
(***************************************************************************)

\* The rows that the WHERE clause leaves.
Matches(r) == status[r] # "ABSENT" /\ (filter = "ALL" \/ status[r] = filter)

Matching == {r \in Rows : Matches(r)}

\* ORDER BY updated_at DESC
Place(r) == Cardinality({q \in Matching : updated[q] >= updated[r]})

\* A bug: the first page is taken to have the number 0.
OffsetFromZero(p) == p * PageSize

Offset(p) == (p - 1) * PageSize

\* LIMIT and OFFSET
ItemsOf(p) ==
    {[row |-> r, status |-> status[r]] :
        r \in {q \in Matching : /\ Offset(p) < Place(q)
                                /\ Place(q) <= Offset(p) + PageSize}}

\* A registration gets a new status, or a ticket, and with it a new updated_at.
Change(r, s) ==
    /\ version' = version + 1
    /\ status' = [status EXCEPT ![r] = s]
    /\ updated' = [updated EXCEPT ![r] = version']

\* A seat becomes free, the participant uses another device, or a missing ticket is made.
Elsewhere(r) ==
    /\ changes < MaxChanges
    /\ changes' = changes + 1
    /\ \/ status[r] = "WAITLISTED" /\ Change(r, "CONFIRMED")
       \/ status[r] \in {"CONFIRMED", "WAITLISTED"} /\ Change(r, "CANCELLED")
       \/ status[r] = "CONFIRMED" /\ Change(r, "CONFIRMED")
    /\ UNCHANGED <<filter, shown, cache, fetch, request, requests, promised>>

CountRows(p) ==
    /\ fetch[p].pc \in {"asked", "resent"}
    /\ fetch' = [fetch EXCEPT ![p].pc = "counted", ![p].total = Cardinality(Matching),
                              ![p].at = version]
    /\ UNCHANGED <<filter, serviceVars, shown, cache, request, bounds, promised>>

ReadRows(p) ==
    /\ fetch[p].pc = "counted"
    /\ fetch' = [fetch EXCEPT ![p].pc = "answered", ![p].items = ItemsOf(p),
                              ![p].read = version]
    /\ UNCHANGED <<filter, serviceVars, shown, cache, request, bounds, promised>>

-----------------------------------------------------------------------------
(***************************************************************************)
(* The pages in the browser                                                *)
(***************************************************************************)

\* The page is on the screen with its items: neither loading nor an error.
Displayed(p) == shown = p /\ cache[p].has /\ ~cache[p].error

TotalPages(p) ==
    LET pages == (cache[p].total + PageSize - 1) \div PageSize
    IN IF pages = 0 THEN 1 ELSE pages

Asked == [NoFetch EXCEPT !.pc = "asked"]

\* A page comes on the screen.  A reading of it that is still under way is joined.
Open(p) ==
    /\ shown' = p
    /\ IF fetch[p].pc = "idle" /\ cache[p].stale
       THEN /\ Cardinality({q \in Pages : fetch[q].pc # "idle"}) <= MaxReadings
            /\ fetch' = [fetch EXCEPT ![p] = Asked]
       ELSE fetch' = fetch
    /\ UNCHANGED <<filter, serviceVars, cache, request, bounds, promised>>

\* By a link of the frontend, or with the buttons Next and Previous.
Enter == shown = 0 /\ Open(1)

Turn(p) ==
    /\ shown # 0
    /\ Displayed(shown)
    /\ \/ p = shown + 1 /\ shown < TotalPages(shown)
       \/ p = shown - 1
    /\ Open(p)

Leave ==
    /\ shown # 0
    /\ shown' = 0
    /\ UNCHANGED <<filter, serviceVars, cache, fetch, request, bounds, promised>>

\* The answer arrives.
Deliver(p) ==
    LET f == fetch[p] IN
    /\ f.pc = "answered"
    /\ cache' = [cache EXCEPT ![p] = [has |-> TRUE, items |-> f.items, total |-> f.total,
                                      at |-> f.at, read |-> f.read,
                                      error |-> FALSE, stale |-> FALSE]]
    /\ fetch' = [fetch EXCEPT ![p] = NoFetch]
    /\ UNCHANGED <<filter, serviceVars, shown, request, bounds, promised>>

\* A reading has failed: it is tried once more, if the page is still shown.  (The second
\* the browser waits before is left out: in it, the page may be left, and then there is
\* no second try, as if that had failed at once.)
Fails(p) ==
    /\ IF fetch[p].tries = 0 /\ shown = p
       THEN fetch' = [fetch EXCEPT ![p] = [Asked EXCEPT !.tries = 1]] /\ cache' = cache
       ELSE /\ fetch' = [fetch EXCEPT ![p] = NoFetch]
            /\ cache' = [cache EXCEPT ![p].error = @ \/ cache[p].has]
    /\ UNCHANGED <<filter, serviceVars, shown, request, bounds, promised>>

\* The gateway answers 504 after four seconds without an answer of the service, 502 if
\* the service has died.
GatewayFails(p) == fetch[p].pc \in {"asked", "resent", "counted"} /\ Fails(p)

\* The gateway answers 401, as the token has lapsed: the reading waits for a new token.
Lapsed(p) ==
    /\ fetch[p].pc = "asked"
    /\ fetch' = [fetch EXCEPT ![p].pc = "renewing"]
    /\ UNCHANGED <<filter, serviceVars, shown, cache, request, bounds, promised>>

\* There is a new token: the reading is sent again, with a timer of its own.
SentAgain(p) ==
    /\ fetch[p].pc = "renewing"
    /\ fetch' = [fetch EXCEPT ![p].pc = "resent"]
    /\ UNCHANGED <<filter, serviceVars, shown, cache, request, bounds, promised>>

\* There is none, or a reading that was sent again is refused again, or either happens to
\* a request: the browser goes to the page that says so, which is loaded anew
\* (redirectToSessionExpired), and all it knew is forgotten.
SessionEnds ==
    /\ \/ \E p \in Pages : fetch[p].pc \in {"renewing", "resent"}
       \/ \E r \in Rows : request[r].pc = "sent"
    /\ shown' = 0
    /\ cache' = [p \in Pages |-> NoData]
    /\ fetch' = [p \in Pages |-> NoFetch]
    /\ request' = [r \in Rows |-> IF request[r].pc \in {"sent", "abandoned"}
                                  THEN [pc |-> "abandoned", at |-> 0] ELSE NoRequest]
    /\ promised' = [p \in Pages |-> 0]
    /\ UNCHANGED <<filter, serviceVars, bounds>>

\* A bug: the client relies on the timeout of the gateway.
NobodyTimesOut(p) == fetch[p].pc \in {"asked", "resent", "counted"} /\ Fails(p)

\* The client has waited ten seconds, or has lost the connection.  The request for a new
\* token has no such timer.
ClientTimesOut(p) ==
    fetch[p].pc \in {"asked", "resent", "counted", "answered"} /\ Fails(p)

\* Thirty seconds have passed.
Age(p) ==
    /\ ~cache[p].stale
    /\ cache' = [cache EXCEPT ![p].stale = TRUE]
    /\ UNCHANGED <<filter, serviceVars, shown, fetch, request, bounds, promised>>

-----------------------------------------------------------------------------
(***************************************************************************)
(* Changes from this browser                                               *)
(***************************************************************************)

Send(r) ==
    /\ request[r].pc = "none"
    /\ requests < MaxRequests
    /\ requests' = requests + 1
    /\ request' = [request EXCEPT ![r] = [pc |-> "sent", at |-> 0]]
    /\ UNCHANGED <<filter, serviceVars, shown, cache, fetch, changes, promised>>

\* The button of a registration that is displayed as active.
PressCancel(r) ==
    /\ shown # 0
    /\ Displayed(shown)
    /\ \E i \in cache[shown].items : i.row = r /\ i.status # "CANCELLED"
    /\ Send(r)

\* The button on the page of an event.
PressRegister(r) == shown = 0 /\ status[r] = "ABSENT" /\ Send(r)

\* The service carries the request out, whether the browser still waits or not.
Serve(r) ==
    /\ request[r].pc \in {"sent", "abandoned"}
    /\ \/ status[r] = "ABSENT" /\ \E s \in {"CONFIRMED", "WAITLISTED"} : Change(r, s)
       \/ status[r] \in {"CONFIRMED", "WAITLISTED"} /\ Change(r, "CANCELLED")
    /\ request' = [request EXCEPT ![r] =
                      IF @.pc = "sent" THEN [pc |-> "done", at |-> version'] ELSE NoRequest]
    /\ UNCHANGED <<filter, shown, cache, fetch, bounds, promised>>

\* The registration is cancelled already: 409.
Refuse(r) ==
    /\ request[r].pc \in {"sent", "abandoned"}
    /\ status[r] = "CANCELLED"
    /\ request' = [request EXCEPT ![r] = NoRequest]
    /\ UNCHANGED <<filter, serviceVars, shown, cache, fetch, bounds, promised>>

\* A reading under way that invalidating does not give up.
Overtaken(p) == fetch[p].pc # "idle" /\ ~(p = shown /\ cache[p].has)

\* A bug: only the page that is shown is invalidated.
InvalidateShown ==
    /\ cache' = [p \in Pages |-> [cache[p] EXCEPT !.stale = @ \/ p = shown]]
    /\ fetch' = [p \in Pages |-> IF p = shown /\ ~Overtaken(p) THEN Asked ELSE fetch[p]]

\* invalidateQueries(["my-registrations"])
Invalidate ==
    /\ cache' = [p \in Pages |-> [cache[p] EXCEPT !.stale = TRUE]]
    /\ fetch' = [p \in Pages |-> IF p = shown /\ ~Overtaken(p) THEN Asked ELSE fetch[p]]

\* The browser hears that the request has been carried out.
Succeed(r) ==
    /\ request[r].pc = "done"
    /\ Invalidate
    /\ promised' = [p \in Pages |->
                       IF Overtaken(p) \/ promised[p] > request[r].at THEN promised[p]
                       ELSE request[r].at]
    /\ request' = [request EXCEPT ![r] = NoRequest]
    /\ UNCHANGED <<filter, serviceVars, shown, bounds>>

\* The gateway or the client has waited long enough; a request that has not been carried
\* out may still be.  Nothing is invalidated.
GiveUp(r) ==
    /\ request[r].pc \in {"sent", "done"}
    /\ request' = [request EXCEPT ![r] =
                      IF @.pc = "sent" THEN [pc |-> "abandoned", at |-> 0] ELSE NoRequest]
    /\ UNCHANGED <<filter, serviceVars, shown, cache, fetch, bounds, promised>>

-----------------------------------------------------------------------------

Next ==
    \/ Enter
    \/ Leave
    \/ \E p \in Pages :
          \/ Turn(p) \/ CountRows(p) \/ ReadRows(p) \/ Deliver(p)
          \/ GatewayFails(p) \/ ClientTimesOut(p) \/ Age(p)
          \/ Lapsed(p) \/ SentAgain(p)
    \/ SessionEnds
    \/ \E r \in Rows :
          \/ Elsewhere(r) \/ PressCancel(r) \/ PressRegister(r)
          \/ Serve(r) \/ Refuse(r) \/ Succeed(r) \/ GiveUp(r)

\* The timers of the browser go off; nothing is assumed of the network, the gateway,
\* the service and the participant.
Spec ==
    /\ Init
    /\ [][Next]_vars
    /\ \A p \in Pages : WF_vars(ClientTimesOut(p))

-----------------------------------------------------------------------------
(***************************************************************************)
(* Properties                                                              *)
(***************************************************************************)

RowsOn(p) == {i.row : i \in cache[p].items}

\* Somebody who has read the pages one after the other, from the first to the last, knows
\* the list: each change made since the first was read hides at most one registration and
\* shows at most one twice, and nothing is hidden, repeated or miscounted if there was none.
PagesFit ==
    \A n \in Pages :
        LET pages == 1 .. n
            listed == UNION {RowsOn(p) : p \in pages}
            shifts == version - cache[1].read
        IN  (/\ \A p \in pages : cache[p].has
             /\ \A p \in pages \ {n} : cache[p].read <= cache[p + 1].read
             /\ cache[n].at = version
             /\ n * PageSize >= Cardinality(Matching))
            => /\ Cardinality(Matching \ listed) <= shifts
               /\ Cardinality({r \in Rows : Cardinality({p \in pages : r \in RowsOn(p)}) > 1})
                    <= shifts
               /\ cache[n].total = Cardinality(Matching)

\* "The list will refresh automatically" (registration-list.tsx): what is kept of a page
\* from before a change of one's own that succeeded is never taken for current, and if
\* it is on the screen, it is being read again or an error has been shown.  It is not so
\* of a page whose reading was under way and is not given up (Overtaken).
OwnChangeShown ==
    \A p \in Pages :
        cache[p].has /\ cache[p].at < promised[p] =>
            /\ cache[p].stale
            /\ shown = p => fetch[p].pc # "idle" \/ cache[p].error

\* A page that is loading or being read again comes up or shows an error in the end,
\* whatever becomes of the answers: if it does not, its reading has been refused and waits
\* for ever for a new token.
EveryViewSettles ==
    \A p \in Pages :
        \/ []<>(shown # p \/ fetch[p].pc = "idle")
        \/ <>[](fetch[p].pc = "renewing")
=============================================================================
