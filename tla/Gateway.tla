------------------------------- MODULE Gateway -------------------------------
(***************************************************************************)
(* A request on its way through the API gateway to the service that        *)
(* answers it: the table of routes, the check of the token and of the      *)
(* role, the handlers of the three services with the checks of their own,  *)
(* and what those that read show to whom, while the data they read         *)
(* changes.  What the handlers write is told by Registration, Payments,    *)
(* EventLifecycle and Identity; here they are only reached.                *)
(*                                                                         *)
(* Requests do not see each other, so that there is one at a time.  Paths  *)
(* are sequences of segments; ":" in a pattern stands for any one segment, *)
(* which need not be an id: the gateway decodes it, encodes it again and   *)
(* makes a URL of the path, where a dot segment is not kept.  The query of *)
(* a request (pages, filters) is left out.                                 *)
(*                                                                         *)
(* External: the callers, everybody else who changes the data, and the     *)
(* network.                                                                *)
(***************************************************************************)
EXTENDS Naturals, Sequences

CONSTANTS
    Participant, Organizer, Admin,  \* the callers that have an account, one of every role
    Mine,           \* events of the organizer
    Others,         \* events of other organizers
    Rows,           \* registrations
    Holder,         \* the one who holds a registration; anybody
    EventOf,        \* the event of a registration
    Notices,        \* notifications
    Recipient,      \* the one whom a notification is for; anybody
    MaxChanges      \* bound: changes of the data

Events == Mine \cup Others
People == {Participant, Organizer, Admin}
Visitor == "visitor"

Role == [who \in People |-> IF who = Admin THEN "ADMIN"
                          ELSE IF who = Organizer THEN "ORGANIZER" ELSE "PARTICIPANT"]

\* Segments that can be sent in the place of an id: "." and ".." as they are or encoded
\* (%2e), and "%" for one that cannot be decoded.
Dots == {".", ".."}
NoIds == Dots \cup {"%"}

GatewayAssumption ==
    /\ EventOf \in [Rows -> Events]
    /\ DOMAIN Holder = Rows /\ DOMAIN Recipient = Notices
    /\ \A r \in Rows : Holder[r] \notin {Organizer, Admin}
    /\ NoIds \cap (Events \cup Rows \cup Notices) = {}
    /\ "nothing" \notin Events         \* what a call is about that names none
    /\ MaxChanges \in Nat

VARIABLES
    events,         \* status and visibility of the events
    tickets,        \* the status of the ticket of a registration; "NONE": no registration yet
    inbox,          \* of every notification: "NONE" (not sent yet), "UNREAD" or "READ"
    session,        \* the session of the caller is alive
    token,          \* his access token has not expired
    request,
    ever,           \* history: what a right answer would have shown at some time of the request
    always,         \* history: ... at every time of the request
    made            \* the changes so far

data == <<events, tickets, inbox, session, token, made>>
vars == <<data, request, ever, always>>

-----------------------------------------------------------------------------
(***************************************************************************)
(* Routes and handlers                                                     *)
(***************************************************************************)

Everyone == {"PARTICIPANT", "ORGANIZER", "ADMIN"}
Organizers == {"ORGANIZER", "ADMIN"}
Participants == {"PARTICIPANT"}
Administrators == {"ADMIN"}
Public == {}        \* no role is asked for

Route(method, path, roles, service) ==
    [method |-> method, path |-> path, roles |-> roles, service |-> service]

IdentityRoutes == <<
    Route("POST", <<"auth", "register">>, Public, "identity"),
    Route("POST", <<"auth", "login">>, Public, "identity"),
    Route("POST", <<"auth", "refresh">>, Public, "identity"),
    Route("POST", <<"auth", "forgot-password">>, Public, "identity"),
    Route("POST", <<"auth", "reset-password">>, Public, "identity"),
    Route("GET", <<"auth", "me">>, Everyone, "identity"),
    Route("GET", <<"admin", "users">>, Administrators, "identity")>>

EventRoutes == <<
    Route("GET", <<"admin", "events">>, Administrators, "events"),
    Route("GET", <<"catalog", "events">>, Public, "events"),
    Route("GET", <<"catalog", "events", ":">>, Public, "events"),
    Route("POST", <<"events", "drafts">>, Organizers, "events"),
    Route("GET", <<"events", "drafts">>, Organizers, "events"),
    Route("GET", <<"events", "drafts", ":">>, Organizers, "events"),
    Route("PATCH", <<"events", "drafts", ":">>, Organizers, "events"),
    Route("DELETE", <<"events", "drafts", ":">>, Organizers, "events"),
    Route("POST", <<"events", "drafts", ":", "publish">>, Organizers, "events"),
    Route("POST", <<"events", ":", "cancel">>, Organizers, "events"),
    Route("GET", <<"events", "me">>, Organizers, "events")>>

RegistrationRoutes == <<
    Route("GET", <<"organizer", "events", ":", "registrations">>, Organizers, "registration"),
    Route("GET", <<"organizer", "events", ":", "registrations", "export">>, Organizers,
          "registration"),
    Route("POST", <<"registrations">>, Participants, "registration"),
    Route("POST", <<"registrations", ":", "cancel">>, Participants, "registration"),
    Route("GET", <<"tickets", ":">>, Participants, "registration"),
    Route("GET", <<"tickets", ":", "download">>, Participants, "registration"),
    Route("GET", <<"notifications">>, Everyone, "registration"),
    Route("PATCH", <<"notifications", ":", "read">>, Everyone, "registration"),
    Route("POST", <<"payments", "session">>, Participants, "registration"),
    Route("POST", <<"payments", "webhook">>, Public, "registration"),
    Route("GET", <<"profile", "participations">>, Participants, "registration")>>

\* buildRouteTable, and the one route that the gateway serves itself
RouteTable == IdentityRoutes \o EventRoutes \o RegistrationRoutes
    \o <<Route("GET", <<"organizer", "ping">>, Organizers, "gateway")>>

Handler(method, path, roles, does) ==
    [method |-> method, path |-> path, roles |-> roles, does |-> does]

IdentityHandlers == <<
    Handler("POST", <<"auth", "register">>, Public, "write"),
    Handler("POST", <<"auth", "login">>, Public, "write"),
    Handler("POST", <<"auth", "refresh">>, Public, "write"),
    Handler("POST", <<"auth", "forgot-password">>, Public, "write"),
    Handler("POST", <<"auth", "reset-password">>, Public, "write"),
    Handler("GET", <<"auth", "me">>, Everyone, "me"),
    Handler("GET", <<"admin", "users">>, Administrators, "users")>>

\* Everything below /events needs an organizer or an administrator.
EventHandlers == <<
    Handler("GET", <<"catalog", "events">>, Public, "catalog"),
    Handler("GET", <<"catalog", "events", ":">>, Public, "public event"),
    Handler("GET", <<"admin", "events">>, Administrators, "managed"),
    Handler("POST", <<"events", "drafts">>, Organizers, "write"),
    Handler("GET", <<"events", "drafts">>, Organizers, "drafts"),
    Handler("GET", <<"events", "me">>, Organizers, "managed"),
    Handler("GET", <<"events", "drafts", ":">>, Organizers, "event"),
    Handler("PATCH", <<"events", "drafts", ":">>, Organizers, "write"),
    Handler("DELETE", <<"events", "drafts", ":">>, Organizers, "write"),
    Handler("POST", <<"events", "drafts", ":", "publish">>, Organizers, "write"),
    Handler("POST", <<"events", ":", "cancel">>, Organizers, "write"),
    Handler("POST", <<"events", "drafts", ":", "media">>, Organizers, "write"),
    Handler("DELETE", <<"events", "drafts", ":", "media">>, Organizers, "write")>>

RegistrationHandlers == <<
    Handler("POST", <<"registrations">>, Participants, "write"),
    Handler("POST", <<"registrations", ":", "cancel">>, Participants, "write"),
    Handler("GET", <<"tickets", ":">>, Participants, "ticket"),
    Handler("GET", <<"tickets", ":", "download">>, Participants, "download"),
    Handler("GET", <<"notifications">>, Everyone, "notices"),
    Handler("PATCH", <<"notifications", ":", "read">>, Everyone, "read notice"),
    Handler("POST", <<"notifications", "emit">>, Organizers, "write"),
    Handler("POST", <<"notifications", "event">>, Organizers, "write"),
    Handler("POST", <<"payments", "session">>, Participants, "write"),
    Handler("POST", <<"payments", "webhook">>, Public, "write"),
    Handler("GET", <<"profile", "participations">>, Participants, "participations"),
    Handler("GET", <<"organizer", "events", ":", "registrations">>, Organizers, "rows"),
    Handler("GET", <<"organizer", "events", ":", "registrations", "export">>, Organizers, "rows")>>

HandlersOf == [identity |-> IdentityHandlers, events |-> EventHandlers,
               registration |-> RegistrationHandlers]

\* A bug: the pattern of a route is not anchored at its end.
FitsPrefix(path, pattern) ==
    /\ Len(pattern) <= Len(path)
    /\ \A i \in DOMAIN pattern : pattern[i] \in {":", path[i]}

\* compilePathPattern; Express matches its paths the same way.
Fits(path, pattern) ==
    /\ Len(pattern) = Len(path)
    /\ \A i \in DOMAIN pattern : pattern[i] \in {":", path[i]}

\* matchRoute: the first entry of a table that fits; {} if there is none.
Matching(table, method, path) ==
    LET fitting == {i \in DOMAIN table : table[i].method = method /\ Fits(path, table[i].path)}
    IN  {table[i] : i \in {i \in fitting : \A j \in fitting : i <= j}}

-----------------------------------------------------------------------------
(***************************************************************************)
(* Who may see what                                                        *)
(***************************************************************************)

\* listPublicEvents, findPublicById and findById
Visible == {e \in Events : events[e] = [status |-> "PUBLISHED", public |-> TRUE]}
There == {e \in Events : events[e].status # "DELETED"}

\* A bug: any organizer will do.
CanAccessAny(who, e) == who \in {Organizer, Admin}

CanAccess(who, e) == who = Admin \/ (who = Organizer /\ e \in Mine)

ListDrafts(who) == {e \in There : events[e].status = "DRAFT" /\ CanAccess(who, e)}
ListManagedEvents(who) == {e \in There : CanAccess(who, e)}
EventDetails(who, e) == {f \in There \cap {e} : CanAccess(who, f)}

TicketOf(who, r) == {q \in Rows \cap {r} : tickets[q] = "ISSUED" /\ Holder[q] = who}
ListParticipations(who) == {r \in Rows : tickets[r] # "NONE" /\ Holder[r] = who}
ListEventRegistrations(e) == {r \in Rows : tickets[r] # "NONE" /\ EventOf[r] = e}

ListNotifications(who) == {n \in Notices : inbox[n] # "NONE" /\ Recipient[n] = who}

\* What a handler shows that answers with one statement; the thing it was asked for is x.
Shown(does, who, x) ==
    CASE does = "catalog" -> Visible
      [] does = "public event" -> Visible \cap {x}
      [] does = "drafts" -> ListDrafts(who)
      [] does = "managed" -> ListManagedEvents(who)
      [] does = "event" -> EventDetails(who, x)
      [] does \in {"ticket", "download"} -> TicketOf(who, x)
      [] does = "participations" -> ListParticipations(who)
      [] does = "notices" -> ListNotifications(who)
      [] does = "read notice" -> ListNotifications(who) \cap {x}
      [] OTHER -> {}

\* The answer where a thing that was asked for is not shown.
Refusal(does, who, x) ==
    CASE does = "event" -> IF x \in There THEN "forbidden" ELSE "not found"
      [] does \in {"ticket", "download"} ->
            IF tickets[x] = "NONE" THEN "not found"
            ELSE IF Holder[x] # who THEN "forbidden"
            ELSE IF does = "ticket" THEN "inactive" ELSE "not ready"
      [] OTHER -> "not found"

\* The handlers that answer about one thing, and refuse if they do not show it.
One == {"public event", "event", "ticket", "download", "read notice"}

-----------------------------------------------------------------------------
(***************************************************************************)
(* Calls                                                                   *)
(***************************************************************************)

Call(method, path) == [method |-> method, path |-> path]

\* lib/api/endpoints.ts and use-cancel-event-mutation.ts: what the pages of the frontend ask.
FrontendCalls ==
    {Call("POST", <<"auth", a>>) :
        a \in {"login", "refresh", "register", "forgot-password", "reset-password"}}
    \cup {Call("GET", <<"auth", "me">>), Call("GET", <<"admin", "users">>),
          Call("GET", <<"catalog", "events">>), Call("GET", <<"catalog", "events", ":">>),
          Call("GET", <<"events", "me">>), Call("POST", <<"events", "drafts">>),
          Call("POST", <<"events", "drafts", ":", "publish">>),
          Call("POST", <<"events", ":", "cancel">>),
          Call("POST", <<"registrations">>), Call("GET", <<"profile", "participations">>),
          Call("POST", <<"registrations", ":", "cancel">>),
          Call("GET", <<"organizer", "events", ":", "registrations">>),
          Call("GET", <<"organizer", "events", ":", "registrations", "export">>),
          Call("GET", <<"tickets", ":", "download">>)}
    \cup {Call(m, <<"events", "drafts", ":">>) : m \in {"GET", "PATCH", "DELETE"}}

\* The others of the table, and some that handlers would serve but no route leads to.
Calls ==
    FrontendCalls
    \cup {Call(RouteTable[i].method, RouteTable[i].path) : i \in DOMAIN RouteTable}
    \cup {Call("POST", <<"events", "drafts", ":", "media">>),
          Call("POST", <<"notifications", "emit">>)}

\* The path that is sent for a call about x: "it" for any id.
Sent(path, x) ==
    [i \in DOMAIN path |-> IF path[i] # ":" THEN path[i] ELSE IF x \in NoIds THEN x ELSE "it"]

\* What new URL makes of a path: a dot segment is taken out, ".." with the one before it.
Resolved(path) ==
    LET at == {i \in DOMAIN path : path[i] \in Dots}
        Without(first, last) == SubSeq(path, 1, first - 1) \o SubSeq(path, last + 1, Len(path))
    IN  IF at = {} THEN path
        ELSE LET i == CHOOSE i \in at : TRUE
             IN  IF path[i] = "." THEN Without(i, i) ELSE Without(i - 1, i)

\* What a call can be about.
Things(call) ==
    IF ":" \notin {call.path[i] : i \in DOMAIN call.path} THEN {"nothing"}
    ELSE NoIds \cup (IF call.path[1] = "tickets" \/ call.path[1] = "registrations" THEN Rows
                    ELSE IF call.path[1] = "notifications" THEN Notices
                    ELSE Events)

Idle == [who |-> Visitor, call |-> Call("", <<>>), about |-> "nothing", stage |-> "idle",
         service |-> "", target |-> <<>>, named |-> FALSE, served |-> Call("", <<>>), does |-> "",
         answer |-> "", items |-> {}, trouble |-> FALSE]

TypeOK ==
    /\ events \in [Events -> [status : {"DRAFT", "PUBLISHED", "CANCELLED", "DELETED"},
                              public : BOOLEAN]]
    /\ tickets \in [Rows -> {"NONE", "WAITLISTED", "PENDING", "ISSUED", "CANCELLED"}]
    /\ inbox \in [Notices -> {"NONE", "UNREAD", "READ"}]
    /\ session \in BOOLEAN /\ token \in BOOLEAN
    /\ request.who \in People \cup {Visitor}
    /\ request.stage \in {"idle", "gateway", "service", "reading", "answered"}
    /\ always \subseteq ever
    /\ made \in 0 .. MaxChanges

Init ==
    /\ events \in [Events -> {[status |-> "PUBLISHED", public |-> p] : p \in BOOLEAN}
                             \cup {[status |-> "DRAFT", public |-> TRUE]}]
    /\ tickets = [r \in Rows |-> "NONE"]
    /\ inbox = [n \in Notices |-> "NONE"]
    /\ session = FALSE /\ token = FALSE
    /\ request = Idle
    /\ ever = {} /\ always = {}
    /\ made = 0

\* What an answer should show at the moment, told from the call alone: the reference for
\* the handlers and for the checks on the way to them.  With a dot segment for an id, a call
\* asks for no one thing.
Owns(who, e) == who = Admin \/ (who = Organizer /\ e \in Mine)

Right(call, who, x) ==
    LET path == call.path IN
    IF call = Call("PATCH", <<"notifications", ":", "read">>)
    THEN {n \in Notices \cap {x} : inbox[n] # "NONE" /\ Recipient[n] = who}
    ELSE IF call.method # "GET" THEN {}
    ELSE CASE
         path = <<"auth", "me">> -> {u \in {who} : session}
      [] path = <<"admin", "users">> -> {u \in People : who = Admin /\ session}
      [] path[1] = "catalog" ->
            {e \in Events : events[e] = [status |-> "PUBLISHED", public |-> TRUE]
                            /\ x \in {"nothing", e} \cup Dots}
      [] path = <<"admin", "events">> ->
            {e \in Events : events[e].status # "DELETED" /\ who = Admin}
      [] path[1] = "events" ->
            {e \in Events : /\ events[e].status # "DELETED" /\ Owns(who, e)
                            /\ x \in {"nothing", e} \cup Dots
                            /\ path = <<"events", "drafts">> => events[e].status = "DRAFT"}
      [] path[1] = "tickets" -> {r \in Rows \cap {x} : tickets[r] = "ISSUED" /\ Holder[r] = who}
      [] path[1] = "profile" -> {r \in Rows : tickets[r] # "NONE" /\ Holder[r] = who}
      [] path[1] = "notifications" -> {n \in Notices : inbox[n] # "NONE" /\ Recipient[n] = who}
      [] path[1] = "organizer" ->
            {r \in Rows : tickets[r] # "NONE" /\ EventOf[r] = x /\ Owns(who, x)}
      [] OTHER -> {}

-----------------------------------------------------------------------------
(***************************************************************************)
(* The data changes                                                        *)
(***************************************************************************)

\* What a right answer would show is kept up to date while a request is on its way.
Remember ==
    IF request.stage \in {"idle", "answered"}
    THEN UNCHANGED <<ever, always>>
    ELSE LET now == Right(request.call, request.who, request.about)' IN
         ever' = ever \cup now /\ always' = always \cap now

Change == made < MaxChanges /\ made' = made + 1 /\ UNCHANGED request /\ Remember

\* An event is published, cancelled or, as a draft, deleted.
EventChanges(e, status) ==
    /\ <<events[e].status, status>> \in
            {<<"DRAFT", "PUBLISHED">>, <<"DRAFT", "DELETED">>, <<"PUBLISHED", "CANCELLED">>}
    /\ events' = [events EXCEPT ![e].status = status]
    /\ UNCHANGED <<tickets, inbox, session, token>>
    /\ Change

\* Somebody registers, is promoted, pays or cancels.
TicketChanges(r, status) ==
    /\ IF tickets[r] = "NONE"
       THEN EventOf[r] \in Visible /\ status \in {"WAITLISTED", "ISSUED"}
       ELSE <<tickets[r], status>> \in
                {<<"WAITLISTED", "ISSUED">>, <<"ISSUED", "PENDING">>, <<"PENDING", "ISSUED">>,
                 <<"WAITLISTED", "CANCELLED">>, <<"ISSUED", "CANCELLED">>}
    /\ tickets' = [tickets EXCEPT ![r] = status]
    /\ UNCHANGED <<events, inbox, session, token>>
    /\ Change

NoticeSent(n) ==
    /\ inbox[n] = "NONE"
    /\ inbox' = [inbox EXCEPT ![n] = "UNREAD"]
    /\ UNCHANGED <<events, tickets, session, token>>
    /\ Change

\* A session is revoked or has expired; the access token lives on for a while.
SessionEnds ==
    /\ session
    /\ session' = FALSE
    /\ UNCHANGED <<events, tickets, inbox, token>>
    /\ Change

TokenExpires ==
    /\ token
    /\ token' = FALSE
    /\ UNCHANGED <<events, tickets, inbox, session>>
    /\ Change

-----------------------------------------------------------------------------
(***************************************************************************)
(* The request                                                             *)
(***************************************************************************)

\* Somebody sends a call; the gateway is looked at with one at a time.
Ask(who, call, x) ==
    /\ request' = [Idle EXCEPT !.who = who, !.call = call, !.about = x, !.stage = "gateway"]
    /\ session' = (who # Visitor) /\ token' = (who # Visitor)
    /\ UNCHANGED <<events, tickets, inbox, made>>
    /\ ever' = Right(call, who, x)'
    /\ always' = IF x \in NoIds THEN {} ELSE ever'

Answer(answer, items) ==
    request' = [request EXCEPT !.stage = "answered", !.answer = answer, !.items = items]

\* The answer that the caller gets because of a token that has expired or of the network.
Trouble(answer) ==
    request' = [request EXCEPT !.stage = "answered", !.answer = answer, !.trouble = TRUE]

\* The middleware of the gateway: without a route of its own nothing passes, nor with a
\* segment that cannot be decoded (500); then the token and the role.  The services do not
\* get to see the token, but the name taken from it; on a public route they get no name.
Admit ==
    LET x == request.about
        routes == Matching(RouteTable, request.call.method, Sent(request.call.path, x))
    IN
    /\ request.stage = "gateway"
    /\ IF routes = {} THEN Answer("no route", {})
       ELSE IF x = "%" THEN Answer("malformed", {})
       ELSE \E route \in routes :
            IF route.roles # Public /\ ~token
            THEN Trouble("unauthorized")
            ELSE IF route.roles # Public /\ Role[request.who] \notin route.roles
            THEN Answer("forbidden", {})
            ELSE IF route.service = "gateway" THEN Answer("pong", {})
            ELSE request' = [request EXCEPT !.stage = "service", !.service = route.service,
                                            !.target = Resolved(Sent(route.path, x)),
                                            !.named = route.roles # Public]
    /\ UNCHANGED <<data, ever, always>>

\* The handler of the service has looked at the role; most look at the data at once.  Where
\* another segment of the path has come to the place of an id, which is no id, the database
\* refuses the statement and the service ends without an answer (502).
\* /auth/me and /admin/users look for a live session first, the lists of an event ask the
\* event service for the event first, in the name of the caller.
Handle(handler) ==
    LET who == request.who
        x == request.about
        shown == Shown(handler.does, who, x)
    IN  IF handler.roles # Public /\ ~(request.named /\ Role[who] \in handler.roles)
        THEN Answer("refused", {})
        ELSE IF \E i \in DOMAIN handler.path : handler.path[i] = ":" /\ request.target[i] # "it"
        THEN Trouble("bad gateway")
        ELSE IF handler.does \in {"me", "users"} /\ ~session
        THEN Answer("session not active", {})
        ELSE IF handler.does = "rows" /\ Shown("event", who, x) = {}
        THEN Answer("not found", {})
        ELSE IF handler.does \in {"me", "users", "rows"}
        THEN request' = [request EXCEPT !.stage = "reading", !.does = handler.does,
                                        !.served = Call(handler.method, handler.path)]
        ELSE IF handler.does \in One /\ shown = {}
        THEN Answer(Refusal(handler.does, who, x), {})
        ELSE request' = [request EXCEPT !.stage = "answered", !.does = handler.does,
                                        !.served = Call(handler.method, handler.path),
                                        !.answer = "ok", !.items = shown]

Serve ==
    LET handlers == Matching(HandlersOf[request.service], request.call.method, request.target) IN
    /\ request.stage = "service"
    /\ IF handlers = {} THEN Answer("no handler", {}) /\ UNCHANGED inbox
       ELSE \E handler \in handlers :
            /\ Handle(handler)
            /\ inbox' = IF handler.does # "read notice" THEN inbox
                        ELSE [n \in Notices |->
                                IF n \in Shown("read notice", request.who, request.about)
                                THEN "READ" ELSE inbox[n]]
    /\ UNCHANGED <<events, tickets, session, token, made, ever, always>>

\* The second statement of those that need two.
Read ==
    /\ request.stage = "reading"
    /\ Answer("ok", CASE request.does = "me" -> {request.who}
                      [] request.does = "users" -> People
                      [] request.does = "rows" -> ListEventRegistrations(request.about))
    /\ UNCHANGED <<data, ever, always>>

\* The event service does not answer the registration service: fetchManagedEvent makes
\* nothing of that, so that the event counts as not found.
FetchFails ==
    /\ request.stage = "service"
    /\ \E handler \in Matching(HandlersOf[request.service], request.call.method, request.target) :
            handler.does = "rows"
    /\ Trouble("not found")
    /\ UNCHANGED <<data, ever, always>>

\* The caller has his answer.
Leave ==
    /\ request.stage = "answered"
    /\ request' = Idle /\ ever' = {} /\ always' = {}
    /\ session' = FALSE /\ token' = FALSE
    /\ UNCHANGED <<events, tickets, inbox, made>>

\* The service does not answer the gateway, or not in time (502, 504).
UpstreamFails ==
    /\ request.stage \in {"service", "reading"}
    /\ Trouble("bad gateway")
    /\ UNCHANGED <<data, ever, always>>

Next ==
    \/ \E e \in Events, status \in {"PUBLISHED", "CANCELLED", "DELETED"} : EventChanges(e, status)
    \/ \E r \in Rows, status \in {"WAITLISTED", "PENDING", "ISSUED", "CANCELLED"} :
            TicketChanges(r, status)
    \/ \E n \in Notices : NoticeSent(n)
    \/ SessionEnds \/ TokenExpires
    \/ request.stage = "idle" /\ \E call \in Calls : \E x \in Things(call) :
            \E who \in People \cup {Visitor} : Ask(who, call, x)
    \/ Admit
    \/ Serve
    \/ Read
    \/ FetchFails
    \/ UpstreamFails
    \/ Leave

Spec == Init /\ [][Next]_vars

-----------------------------------------------------------------------------
(***************************************************************************)
(* Properties                                                              *)
(***************************************************************************)

\* The gateway's table and the services' handlers agree: what the gateway lets pass with an
\* id in it, or without any, reaches the handler of its own method and path; with a dot
\* segment for an id it reaches none but a list, above the thing that it seemed to name.
\* Wherever it is led to, the role that satisfied the gateway satisfies the handler too; and
\* there is a route for everything that the frontend asks.
RoutesServed ==
    /\ request.about \notin NoIds =>
        /\ request.served # Idle.served => request.served = request.call
        /\ request.answer \notin {"no handler", "malformed"}
    /\ request.about \in NoIds /\ request.served # Idle.served =>
        request.does \in {"catalog", "drafts"}
    /\ request.answer # "refused"
    /\ request.answer = "no route" => request.call \notin FrontendCalls

\* Without trouble, a caller is shown nothing that he had at no time of the request a right
\* to see, and, if he sent an id where one belongs, is not denied what he had a right to see
\* all the time, whatever changes between the checks on the way and the reading.
AnswersFit ==
    request.stage = "answered" /\ ~request.trouble =>
        always \subseteq request.items /\ request.items \subseteq ever
=============================================================================
