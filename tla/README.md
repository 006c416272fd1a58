# A verification project for the evenements services

This directory holds TLA+ models of the back end of `evenements`: a Node/Express
service per domain, each with its own tables in PostgreSQL. The models follow the
code in `services/`, statement by statement where the order of statements
matters. TLC checks them on small instances and TLAPS proves the most important
properties for instances of every size.

- `PROJECT.json` lists components, runs, findings, hazards, theorems, and for
  every definition the source lines it models.
- `tlc -workers 2 -config X.cfg M` runs a configuration, `tlapm M.tla` checks the
  proofs of a module.

## 1. The system

| part | keeps | operations that change it | talks to |
|---|---|---|---|
| registration-service | `registrations`, `tickets`, `payments`, `notifications` | register, cancel (and promote), open a payment session, take a provider's webhook, notify, mark read | asks the event service for the public event |
| event-management-service | `events`, image files | create, edit, delete a draft, upload and remove its image, publish, schedule, cancel; a sweep every 2 s publishes what is due | tells the registration service of publications and cancellations |
| identity-access-service | `auth_users`, `auth_sessions`, `auth_password_reset_tokens`, audit log | register, log in, refresh, forgot and reset password | - |
| api-gateway | nothing | checks the access token, forwards with a 4 s timeout | all services |
| services/shared | what its host stores for it | some 35 modules: payment reconciliation, delivery of notifications, monitoring, procedures, view models; the services import two of them (`observability.js`, `eventMediaUpload.js`), the others have tests and wait for a host | - |
| frontend | tokens in `localStorage`, a cache of queries per tab | signs in and out, renews tokens, shows and changes registrations | gateway |
| seeds | rows with fixed ids in all three databases | `npm run seed:demo` and the catalogue script | the databases |
| docker-compose | containers | starts, probes and restarts them | the services |
| docs portal, tools | nothing of the system | - | - |

**Where the difficulty lies.** A handler is an `async` function of one Node
process. It runs without interruption to its next `await`; there, every other
handler may run. Almost every handler reads a row with one statement, decides in
JavaScript, and writes with another statement whose `WHERE` clause does not repeat
the decision. Two things are stronger than that: the promotion from the waitlist, a
transaction that locks the row it has selected (`FOR UPDATE SKIP LOCKED`), and two
unique indexes. Few awaits stand in a `try` block, and Express 4 does not look at a
rejected promise: an error thrown after an `await` ends the process with all the handlers it is running, and Docker starts it again
(`restart: unless-stopped`). So crashes between any two statements are part of
normal operation. The payment provider repeats, delays and reorders its webhook
calls.

**What makes each part correct**

- *Registration*: at most `capacity` confirmed registrations; at most one active
  registration per participant; a ticket that says what the row says; nobody waits
  in front of a free seat; first come, first promoted; one promotion per freed seat;
  cancellations are final; every request is answered.
- *Payments*: no valid ticket without a payment, nor on a cancelled registration; a
  success is stored, is final, and leads to a valid ticket although messages are
  repeated and reordered and the service crashes.
- *Events*: public only if asked for, and not early; a cancelled event stays
  cancelled; published content does not change; what is scheduled gets published.
- *Events and registrations*: everybody who holds a registration of a cancelled event
  is told, and of one attempt to cancel once only.
- *Identity*: a reset token works once; a reset ends all earlier sessions; an old
  password opens nothing after a reset; a refresh token is exchanged once; locks of
  logins, refreshes and resets never close a circle.
- *Gateway*: a call with an id in it, or without any, reaches the handler of its own method
  and path, one with a dot segment none but a list, and its caller is shown nothing but what is
  his to see; `/ready` raises no false alarm; a request that
  was answered 504 may be under way all the same.
- *Browser*: nobody is signed out of a good session; one's own change is not hidden by the
  cache; pages fit together; no call and no view hangs for ever, unless a refresh does.
- *Shared libraries*: final statuses stay, a resolution leaves nothing to do, the audit
  trail tells what is; every mail beyond the first has a reason and no recipient is
  forgotten; alerts are raised exactly when what happened warrants them; a procedure
  reported as completed was one.
- *Platform and seeds*: everything is up again after any failures; demonstration data fits
  together in all databases whenever it is written.

The hazards behind these are in `PROJECT.json` with their lines.

## 2. The modules

```
RegistrationTables        the rows and the SQL statements, as operators
  |-- Registration        the handlers, await by await
  |     |-- EventCancellation       with the event service and the gateway
  |     |     `-- MCEventCancellation
  |     |-- RegistrationRefinement -- INSTANCE --> RegistrationDesk
  |     |     `-- MCRegistration
  |     `-- RegistrationProofs      of all of these
  `-- RegistrationDesk    what the service promises: one step per request
Payments                  sessions, webhooks, cancellation on one ticket
  |-- PaymentsProofs, MCPayments
EventLifecycle            the handlers and the sweep for one event
  |-- EventLifecycleProofs, MCEventLifecycle
Identity                  the account of one email, its sessions and reset tokens
  |-- IdentityProofs, MCIdentity
ClientSession             the tabs of a browser and POST /auth/refresh
  |-- ClientSessionProofs, MCClientSession
Browsing                  the pages of "my registrations", from the cache to the SQL
  |-- BrowsingProofs, MCBrowsing
Notifications             worker, retries, replays, reminders
  |-- NotificationsProofs, MCNotifications
TicketDesk                one payment under the four modules that decide on it
  |
Platform                  TicketDesk and, by INSTANCE, the parts it shares nothing with:
  |-- Monitoring          counters and alerts
  |-- Procedures          backup and restore
  |-- Readiness           containers, boot loops, /ready
  |-- Seeding             the demonstration data
  |-- Gateway             a request from the route table to the handler and back
  `-- PlatformProofs, MCPlatform
```

Every module has a `TypeOK`. Where a module has proofs, they begin with it; the runs spend
their time on the other properties.

### Registration

State: `rows` (registrations), `tickets`, `notices` (how often a participant was
told of what), the clock, and for every handler where it is (`pc`) and what it
remembers: `confirmedSeen` and `draft` of a register handler, `target`, `seen` and
`pick` of a cancel handler. A registration is named after the request that creates
it, because the handler draws a new id for every insert.

| action | code |
|---|---|
| `RegisterFetchEvent` | the call to the event service: the event is served, or the answer is 404 |
| `RegisterFindActive`, `RegisterCountConfirmed`, `RegisterCountWaitlisted` | the three reads; the last one is followed by the decision (`Admission`) and the timestamp before the next `await` |
| `RegisterInsert`, `RegisterInsertFails` | the insert, with the ticket in one transaction when confirmed; the unique index; any other error is a 500 |
| `RegisterNotify`, `PromoteNotify` | best effort: the notification is stored or not |
| `CancelFind` | `findById`, the owner check, the status check |
| `CancelRow`, `CancelTicket` | the two UPDATEs, the first of which waits for the lock of a promotion |
| `PromoteSelect`, `PromoteCommit` | the promotion transaction: from its SELECT on it holds the row lock; its effects show at COMMIT |
| `Crash` | the handlers are gone, an open transaction is rolled back, the tables stay |

The event has a fixed capacity and stays public. Payments write the ticket too; they
have their own module, and in this one a confirmed row's ticket is `ISSUED`.

`RegistrationDesk` is the abstract specification: registering is one step, cancelling
and promoting is one step, and a crash may cut one cancellation short.
`RegistrationRefinement` maps the handlers to it. An insert shows at the desk when
it is committed; a cancellation when its handler is through, until when the desk
shows the row as the handler has read it.

### Payments

One registration that was confirmed with its ticket, any number of payment
sessions, the messages of the provider, and requests that cancel the registration.
`ensureTicketForRegistration` is a read and a conditional UPDATE of the ticket. The
provider (external) sends messages about payments that exist, nothing after a
message that closes the payment, and repeats a message until it gets a 200 and as
often as it likes after that. `last` is `last_webhook_id`, the only trace a message
leaves. Not modelled: payments without a registration (they touch no ticket) and
the creation of a missing ticket (a confirmed row has its ticket:
`TicketsMatchRows`).

### EventLifecycle

One event from `createDraft` on. `Read` is what the handlers share up to their UPDATE,
`Write` an UPDATE whose returned row is needed: if the event was deleted in
between, there is no row, `toEventResponse(null)` throws, and the process dies.
`updateCoverImage` and `softDeleteDraft` are called for their effect only. `edits`
stands for the content of the row. The sweep is one statement but two steps: the
common table expression `due` is a snapshot, and after waiting for a concurrent
writer the UPDATE checks again only `event_id` (PostgreSQL, READ COMMITTED). Between
two sweeps the clock may advance; a sweep may fail. Owners and roles are left out:
a request that is refused changes nothing.

### Identity

One email address with its row in `auth_users`, its sessions and its reset tokens. A
password is named after the request that stored it, a session after the login that
opened it. `log`, a history variable, is the list of all passwords stored. For every
handler the model keeps where it is and what it remembers; `since` is the second in
which it made the token that it stores.

| action | code |
|---|---|
| `RegisterFind`, `RegisterInsert`, `RegisterThrows` | the look-up; the INSERT; its failure on the UNIQUE email, which nobody catches and which ends the process |
| `LoginFind`, `LoginInsert`, `LoginTouch` | look-up, comparison and status check; the session; `last_login_at`, whose UPDATE waits for the row of the user |
| `RefreshFind`, `RefreshFindUser`, `RefreshUpdate` | the checks of token and session; the status of the user; the UPDATE of digest and expiry, which asks for nothing but the id |
| `ForgotFind`, `ForgotInsert` | the look-up; the token (the answer is 202 in any case) |
| `ResetSelect` | `SELECT ... FOR UPDATE` and the checks of the token |
| `ResetUpdateUser`, `ResetRevoke`, `ResetConsume`, `ResetCommit` | the statements of the transaction; what they write shows at COMMIT, and the rows are locked until then |
| `ResetFails` | a statement fails: ROLLBACK and 500 |
| `Answer`, `Refuse`, `ProcessEnds` | the answers with their audit record (best effort, read by nothing); the end of the process |

A refresh token carries the user, the session and its times in seconds, and no id of its
own. So the model identifies it by session and second: two tokens signed in one second
are the same token. A refused request leaves nothing behind and may be sent again, as may
one that a crash has ended before it left a trace. The INSERT of a session takes a
key-share lock on the user's row, which the UPDATE of the password does not conflict with:
it does not wait. No handler changes `account_status`; only the seeds create accounts
that are not active, hence `SeedStatuses` (`DISABLED` is treated like `LOCKED`). A COMMIT
whose acknowledgement alone is lost is not modelled. `/auth/me` and `/admin/users` are in `Gateway`.

### EventCancellation

`Registration` as it is, composed with the cancel handler of the event service
(`canceller`), the handler of `POST /notifications/event` that it calls (`teller`), which
inserts one notification after the other (`audience` is what it has still to do), and the
gateway, whose `answer` may come before the handler is through. The event that a
registration looks at is the one that is cancelled. The call between the services is best
effort: it may be lost, either process may die. The client tries again when the gateway
could not tell it how its attempt ended (502, 504), so attempts overlap. Every step of the
composition is a step of `Registration` or leaves its variables alone, which is the theorem
`CompositionRefines`: what is proved of the registration service holds in the composition.

### ClientSession

What the interceptors of the API client do when a call is refused: one refresh per tab that
all refused calls wait for (`refreshPromise`), one retry per call, the token pair in the
`localStorage` that tabs share. `POST /auth/refresh` is two steps (look, rotate). Sign-in,
sign-out and reloads happen at any time, answers get lost, sessions end. A call is answered
401 for a token that lapsed, by the calls that look at the session (`GET /auth/me`) also for
one that has ended, and the forms (`Forms`: login, new password) for what was filled in; the
interceptor tells these apart nowhere. A form may be sent with a good pair stored: the guard of
the public pages shows it when `GET /auth/me` failed otherwise than with 401, and another tab may
have signed in. `overlap` and `switched` record things that do cost a session: two tabs that
refresh at the same time with one token, and a refresh, or a call sent again, whose answer comes
when somebody has signed in or out meanwhile. The third is `FormRefused` (see the findings).

### Browsing

`CountRows` and `ReadRows` are the two statements behind one page. The order is that of the
last change (`updated_at`), so that any change moves a row to the front; the place of a row is
the number of rows that are not older (`Place`), and a page has the rows of certain places.
What is read carries two versions of the list: `at`, when its rows were counted, and `read`,
when they were read. `PagesFit` is about pages *read* one after the other. It does not hold
of pages *counted* one after the other: a reading in the background may count its page, and
read the rows much later, when the next page has been read already; with four pages, one
change then hides two registrations. `Deliver`, `GatewayFails`,
`ClientTimesOut` are the ways a reading ends; `Turn`, `Enter`, `Leave`, `PressCancel`,
`PressRegister` what the participant does; `Age`, `Invalidate` what happens to the cache.
A reading that is refused as its token has lapsed (`Lapsed`) waits for the refresh and is sent
again (`SentAgain`), or the session ends and the page is loaded anew (`SessionEnds`). The ten
seconds of the client (`client.ts:9`) are counted for each time it is sent; nothing counts the
wait between, so `EveryViewSettles` says: a view that never settles waits for a refresh for ever.
React Query is external and modelled as the hooks use it. Cancelling a query that is under
way needs data to be there already, so a first reading that began before one's own change
is answered after it and counts as fresh for 30 seconds (`Overtaken`): "The list will refresh
automatically" (`registration-list.tsx:147`) does not hold of these, and `OwnChangeShown`
excepts them.

### Notifications and TicketDesk

The modules under `services/shared` are functions from what is stored to what shall be
stored; storing is left to a host that does not exist yet. The models add the weakest host
that makes sense: it applies an answer to the rows the function was given, in one
transaction; a broker delivers until it is acknowledged; timers pick up what is due.

In `Notifications`, `Receive`, `Start`, `Accepted`/`Rejected` and the end of a message are
the worker; `processed` (the message ids it remembers) dies with it. `Retry`, `Replay`,
`Remind`, `SimulateSms` and `Moderate` are the other modules. `repeats` counts, for each recipient of a message, the reasons there
are to mail it again: a replay, an answer of the provider that was lost, a request that two
runs have in hand, and at a crash every copy the process knew to be accepted (`Known`). One
per crash would not do: with two copies of a mail, a crash makes both of them due again. In `TicketDesk`, `Report`
(the provider, any status at any time), `Propagate`, `Gate`, `IssueArtifact`, `Withdraw`
and `Order` (five orders of an administrator, with or without the note that some need)
write one payment, registration, ticket and audit trail. `moved` records what changed
without an order, which the trail cannot know.

### Monitoring, Procedures, Readiness, Seeding

`Monitoring` counts what happens to a service as the emitter does and compares the alerts of
the rules with a reference told from `happened` alone. `Procedures` lets an operator skip,
repeat and swap the steps of a plan, knows what the steps do to the platform, and asks
whether the report may say "completed". `Readiness` has the containers of
`docker-compose.backend.yml` with dependencies, health checks and restart policies, the boot
loops, which give up after a number of attempts, and the gateway's `/ready`, which asks
`/ready` and then `/health` of each back end. `Seeding` has the rows of the four scripts by
their references to each other, the transactions that write them, their conflicts
(`ON CONFLICT`), the failures between them, and people who sign up, register, cancel, open
payment sessions and have them reported on before and in between. A payment session makes the
ticket of a confirmed row pending and a failure voids it (`EnsureTicket`, as in the code with
its look by the ticket's id first and by the registration second), and a seed issues it again
under whatever payments there are: what `DemoConnected` says of tickets is therefore relative
to the payments of the row.

### Gateway

`RouteTable` and the tables of handlers are transcribed path by path; a path is a sequence
of segments. The segment in the place of an id need not be one: `NoIds` are `.` and `..`, as
they are or encoded, and one that cannot be decoded, which the gateway answers 500. It decodes
the others, encodes them again (`Sent`), which keeps the dots, and makes a URL of the path,
which takes them out (`Resolved`), so that the service gets another path than the one the route
was found with. `Admit` is the middleware of the gateway (route, token, role), `Serve` and
`Handle` the service (its own table, its own check of the role, the data), `Read` the second
statement of the handlers that need two: `/auth/me` and `/admin/users` after the look at the
session, the lists of an organizer after the call to the event service. Data changes at any
time. `ever` and `always` remember what a right answer would have shown at some time, and at
all times, of the request; what is right is told from the call alone (`Right`), apart from
routes and handlers.

## 3. The runs

`pass` runs must hold. A `violation` run states what a document or a test of the
repository says, and TLC shows that the code does something else.

| run | instance | what it shows |
|---|---|---|
| `RegistrationRaces` | 3 registrations, two of them of one participant, 3 cancellations, 1 seat, all may overlap, 1 crash | `OneActivePerParticipant`, `TicketsMatchRows`, `RevocationUnderWay`, `NoticesTruthful` |
| `RegistrationLive` | 2 and 2, all may overlap, 1 crash, the clock may stand still | `EveryRequestEnds`: no one waits for a row lock for ever |
| `RegistrationSerial` | 4 and 2, one at a time, 1 crash | `NoStrandedSeat`, `ImplementsDesk` |
| `RegistrationOverbooking` | 3 and 2, two at a time | violation of `CapacityRespected`: the documented lock per event is missing |
| `Payments` | 2 sessions, a failed, a successful and a pending report of one payment, a cancellation, 1 crash; one request at a time, or three | `NoTicketWithoutPayment`, `CancellationRevokes`; of requests one at a time `PaidMeansTicket`, `PaymentSettles` |
| `EventCancellation` | 2 registrations, a cancellation, 1 seat, 2 attempts to cancel the event, 1 crash, 1 loss | `ToldOnce`, `EveryoneIsTold` |
| `Events` | an edit, an upload, a removal, a deletion, 2 publications, a cancellation, two at a time, the sweep, 1 crash, times 0 to 2 | `CancellationSticks`, `FrozenAfterDraft`, `DueIsPublished` |
| `Identity` | 2 registrations, a login, 2 refreshes, 2 forgot requests, 2 resets, two at a time, times 0 to 2, 1 failed transaction or crash, the account not there or seeded and locked | `ResetTokenOnce`, `ResetTruthful`, `EarlierSessionsEnd`, `OldPasswordRefused`, `ExchangedOnce`, `NoDeadlock` |
| `ClientSession` | 2 tabs, 2 protected calls and a form, signed in at first or not, 2 sessions, 2 expiring tokens, 1 mishap | `KeptSignedIn`, `EveryCallEnds` |
| `Notifications` | a cancellation to two recipients, one without an address, a reminder by mail and one by text; 2 runs of the worker, 1 retry, 1 replay, 1 trouble | `MailsAccounted`, `NobodyForgotten` |
| `Browsing` | 2 pages of one row, a registration and one that is made, 1 request, 2 changes from elsewhere, any number of tokens that lapse | `PagesFit`, `OwnChangeShown`, `EveryViewSettles` |
| `Platform` | one payment, 3 reports, 4 orders, a trail of 7 entries; 3 bursts of calls; 3 deviations from a plan; all containers, 1 trouble; 2 changes and 2 seeds; a request of each kind by each role with each id, dot segments or one that cannot be decoded, 2 changes | `FinalStaysFinal`, `ResolvedIsSettled`, `TrailIsCurrent`, `TicketFollows`; `AlertsJustified`; `CompletedIsSound`; `PlatformRecovers`, `NotReadyMeansAway`; `DemoConnected`; `RoutesServed`, `AnswersFit` |

**Bounds, and why they are enough.** One seat is the boundary of the capacity: the
race for the last seat and the promotion need nothing more. Three overlapping
registrations and three cancellations allow a duplicate, a waitlisted row, a
promotion and a second promotion at the same time. `MaxInFlight` (`Loads` for the
payments) bounds the requests that the clients keep open, `MaxCrashes` the crashes,
`ClockSteps` what the clock may advance between two reads; `MaxTime` bounds the clock of the
events. The three messages are a failure, a success and a pending report of one payment, in
any order and repeated; the second session can only be superseded. One sweep suffices for
the snapshot hazards; overlapping sweeps are in the theorems. In `Identity` two resets
with two tokens can wait for each other's rows, and two refreshes can present one token;
a session lives two seconds and a reset token one, so that at time 2 both have expired.
Two attempts to cancel an event are one that the gateway gave up on and its repetition.
A call and a form in one tab share a refresh, the call of the other tab overlaps it. Two pages
of one row are the smallest list in which a row crosses a page boundary. The bursts 1, 19 and
30 of calls and the backlogs 15 and 16 lie on both sides of every threshold. Seven entries
of a trail are one more than one order leaves, so that the oldest are given up. Two changes while a
request is answered can make something visible and hide another thing. Symmetry is used where
only invariants or action properties are checked. Deadlock is not checked: when all
requests are answered or all bounds are met, the system rests.

**One run for six parts.** The parts of `Platform` have no variable in common, so that
their product would show nothing that they do not show alone. `focus` is chosen at the
beginning and says which part moves; the others keep their initial state. Their invariants
hold there, and none of their fair actions is enabled (the desk is settled at the beginning,
`InitAs(FALSE)` is a platform nobody starts), so that the fairness of one part says nothing
about a behaviour of another.

**Serial runs.** Some properties hold only while requests do not overlap, and say so
by their run or their premise (`MaxInFlight = 1`, `Serial`): the capacity (`SerialCapacity`)
and the stranded seat, because the code has no lock around reading and inserting, and what
becomes of a success of a payment, whose status is read before the UPDATE. They show that the rules themselves are right
and that concurrency alone breaks them. `CapacityRespected` is then refuted with two
requests at a time, which is the documented claim. By how much it can fail is proved
(`OverbookingAlwaysBounded`): by one request less than overlap, unless a registration is
cancelled twice at once.

**Fairness.** A handler that has started goes on: PostgreSQL answers, Node resumes the
promise. Weak fairness is enough, because the only wait is for a row lock, and the
transaction that holds it ends. Nobody has to send a request. The provider is assumed
to repeat an unacknowledged message until it is served (strong fairness of
`Redeliver`: the service may be busy from time to time). The timer of the sweep is
never stopped and boot starts a new one, so sweeps are weakly fair; that not every
UPDATE of the sweep fails is strong fairness of `SweepUpdate`. A crash is never fair.
In `EventCancellation` the handlers that run go on, and the client repeats an attempt that was
answered 502 or 504. In `ClientSession` and `Notifications` it is enough that somebody always
goes on, as all their work comes to an end; `ClientSession` thereby assumes that a refresh is
answered or fails, which no timer sees to (`interceptors.ts:57`), and `Notifications` assumes of the host that it picks up what is
pending or due. `Browsing` assumes nothing but the timers of the browser; they cover a reading
while it is sent, and the wait for a refresh by none is excepted in the property.
`TicketDesk` assumes that a host carries changes on (`Propagate`, `Gate`), nothing of the
provider and the administrators. `Readiness` assumes that Docker and the boot loops go on
and that the database comes back; how often it fails is bounded. `Identity` needs no
fairness: its handlers have finitely many steps and no loop, so it is enough that one of
those that run can always take a step. `NoDeadlock` says so in two halves: one of those that
run is `Ready`, which is proved, and whoever is `Ready` is ENABLED, which TLC checks.

**Findings.** One is a run: the last seat is given away twice (`RegistrationOverbooking`).
The others were seen in counterexamples or while reading and are excepted, by name, in the
properties they would break:

- *Registration.* Positions on the waitlist are not renumbered, so that a newcomer may be
  promoted first (`docs/services/registration-service-spec.md:358-362` says otherwise). Two
  cancellations of one registration that overlap promote two (`:169`). `event.cancelled`
  cancels no registration (`:373-377`), and a registration inserted while the event is
  cancelled stays, its holder told nothing. `canDownloadTicket` is true for a ticket that is
  pending. An organizer's list answers 404 `Event not found` when the event service is merely
  down (`fetchManagedEvent` catches everything). `PATCH` and lists: `/admin/events` hands
  `from` and `to` to `listManagedEvents`, which reads `fromDate` and `toDate`: its date filter
  is ignored.
- *Payments.* A success reported after the registration was cancelled makes its ticket valid
  again. With overlap, an older report overwrites a success. A session that dies between the
  ticket and its payment leaves the ticket pending for good.
- *Events.* A publication that was under way makes a cancelled event public
  (`docs/services/event-management-service-spec.md:439`). `PATCH` with `startAt` alone is not
  compared with the stored `endAt`, and may empty required fields.
- *Identity.* A change of the password consumes only the token presented
  (`docs/services/identity-access-service-spec.md:287`: all open ones); two refreshes that
  overlap both succeed (`:303`: invalidated atomically).
- *Shared libraries.* The retry policy lets four attempts fail before `FAILED_PERMANENT`, the
  runbook says after three; the delivery log turns `FAILED_PERMANENT` into `FAILED`; the
  message of a reminder lacks the `registrationId` that its template requires; nothing is
  replayed once the event is cancelled. A payment reported after a failure leaves a cancelled
  registration that no order can resolve; a failure after the payment voids the ticket for
  good, and the registration stays confirmed. Alert windows are not used: rates are taken
  over the life of the process, where the runbook matrix asks for a sliding window. A step
  of a backup done again after the platform was opened still counts as completed. The
  export of a histogram adds up buckets that are cumulative already. A list of payments in
  several currencies adds the amounts under the name of the first.
- *Frontend.* A login or a new password that is refused (401) while somebody is signed in signs
  him out of a good session: the interceptor takes every 401 for a token that lapsed, renews
  it, sends the form again and takes the second 401 for the end of the session
  (`interceptors.ts:106-110`; `_skipAuthRefresh` is set by nobody). The refresh has no timeout,
  and all calls of a tab that are refused share it: if it is never answered (the gateway bounds
  the time to the headers only), their views load until the page is loaded anew. It uses `ENDPOINTS.profile`, `ENDPOINTS.notifications.markRead` and
  `ENDPOINTS.tickets.get`, which `endpoints.ts` does not define; the gateway has no route for
  the upload of media.
- *Gateway.* A call whose id is a dot segment is matched with one route and served by the
  handler of another path, or by none: `GET /api/events/drafts/%2e` lists the drafts,
  `GET /api/tickets/%2e/download` looks for a ticket named `download`, which is no id: the
  statement fails and the service ends. The roles are checked by both sides, so nobody is shown
  what is not his. A segment that cannot be decoded is answered 500.
- *Seeds.* A seed issues the ticket of a demonstration row again while a payment of it is open
  or has failed. A row that was promoted and reset to the waitlist names no ticket but has one:
  a report on its payment gives it an id that no ticket has. A demonstration row that was
  promoted waits again after a seed, with a valid ticket, and its next promotion violates
  `UNIQUE(registration_id)` outside any `try`. The registration seed fails if somebody has
  registered again after cancelling a demo row. Somebody who signed up with a demo address
  keeps his id, so the demo registrations belong to nobody he can sign in as. A cancelled
  demo event is public again.
- *Readiness.* `/ready` of the gateway says ready with the database of a service down, as it
  falls back to `/health`.

## 4. The theorems

For every number of requests, sessions, messages, sweeps and crashes, every capacity,
clock and assignment of requests to participants (the ASSUMEs of the modules say only
that the kinds of requests are apart, finite where they are counted, and that bounds
are naturals):

| theorem | says |
|---|---|
| `TypeCorrect` of `RegistrationProofs` | the state keeps its type |
| `TicketsAlwaysMatch`, `OneActiveAlways`, `PromotionsAlwaysDisjoint` | the three table invariants |
| `LifecycleAlwaysForward` | cancellation is final, no seat goes back to the waitlist |
| `RevocationAlwaysUnderWay` | a cancelled registration whose ticket is still valid has a handler about to revoke it, or one a crash has cut off |
| `NoticesAlwaysTruthful` | nobody is told of a seat or a promotion that is not in the tables, nor twice of one |
| `OverbookingAlwaysBounded`, `OverbookingIsOverlap` | an event is overbooked by fewer seats than requests may overlap, and one for each cancellation that is over and has cancelled nothing itself; by fewer seats than requests may overlap while nobody cancels a registration whose cancellation is under way |
| `SerialCapacity`, `SerialWaitlist` | with `MaxInFlight = 1` the capacity is respected and nobody waits in front of a free seat |
| `SerialRefinement` | with `MaxInFlight = 1` the handlers implement the desk, crashes included |
| `PaymentsProofs!TypeCorrect`, `NoTicketBeforePayment`, `CancellationAlwaysRevokes` | no valid ticket without a reported success, and none after a cancellation before one |
| `PaidAlwaysMeansTicket` | when requests do not overlap, a payment that succeeded has its ticket |
| `EventLifecycleProofs!TypeCorrect`, `NeverEarly`, `CancellationFinal` | no early publication, no revival by requests that start later |
| `ContentIsFixed` | once an event is no draft and the edits under way are through, its content stays |
| `IdentityProofs!TypeCorrect`, `TokensAreUsedOnce`, `ResetsAreTruthful` | a reset token changes the password at most once, and the answer to a reset tells what happened |
| `TokensAreExchangedOnce` | a refresh token is not exchanged again after its exchange was stored, unless it was signed again in the same second |
| `ClientSessionProofs!TypeCorrect`, `GoodSessionsAreKept` | the interceptors sign nobody out of a good session, but for the causes `KeptSignedIn` names, for any number of tabs and calls |
| `ResetsEndSessions`, `OldPasswordsAreRefused`, `RegistrationsAreKept` | no earlier session survives a reset, no old password opens a session after it, no registration replaces another |
| `SomebodyIsAlwaysReady` | while requests of the identity service run, one of them at least waits for no row: the half of `NoDeadlock` that needs no ENABLED |
| `CompositionRefines`, `CompositionKeepsTables` | the composition implements `Registration`; so rows and tickets agree and nobody is registered twice while the event is cancelled |
| `ToldAtMostOnce` | nobody is told twice of one attempt, and of several only if the gateway gave up on one |
| `PlatformProofs!TypeCorrect`, `TrailAlwaysCurrent` | the last entry of a trail about a status tells its value, unless it moved since, for every length of the trail |
| `FinalAlwaysFinal`, `ResolvedAlwaysSettled` | voided tickets and ended registrations stay so; a resolution leaves the services nothing to do |
| `ReportsAreSound` | a backup or a restore that is reported as completed was one, for any number of deviations from the plan |
| `NotReadyIsHonest` | the gateway says "not ready" only if a back end was away, or could not be heard, while it asked, for any number of troubles |
| `SeedsFitTogether` | the demonstration data fits together in all databases, whatever people registered, cancelled and paid before and between the seeds, and however many failed; a confirmed row has its ticket, issued unless a payment of the row accounts for it |
| `AlertsAlwaysJustified` | an alert is raised exactly if what has happened in the process warrants it, for any calls, series, counts and restarts, up to 2000 attempts of a kind |
| `RoutesAreServed` | what the gateway lets pass with an id, or without any, reaches the handler of its own method and path; with a dot segment it reaches none but a list; no handler refuses a role that satisfied the gateway, and there is a route for whatever the frontend asks |
| `AnswersAlwaysFit` | an answer shows nothing that its caller had at no time a right to see while he waited, and everything that he had a right to all the time, for any events, registrations, notifications and changes |
| `NotificationsProofs!TypeCorrect`, `EveryMailAccounted` | every mail beyond the first has its reason, and what is logged as sent was sent, for any number of runs of the worker, messages, recipients and copies |
| `SettledForGood` | who was told, or given up, is not pending again, whatever fails, is replayed or delivered twice: the half of `NobodyForgotten` that is safety |
| `OwnChangesAreShown` | what is kept of a page from before a change of one's own is never taken for current, and on the screen it is being read again or an error was shown, but for pages `Overtaken`; for any number of pages, rows and changes |
| `BrowsingProofs!TypeCorrect`, `PagesAlwaysFit` | of pages read one after the other, each change since hides at most one registration and shows at most one twice, for any lists, filters, page sizes and pages |

`PromotionsDisjoint`, `LifecycleIsForward`, `NeverPublishedEarly`, `RegistrationKept` and the
capacity of serial requests are proved for every instance and no longer part of a run.

*The argument for the tables.* None of the three invariants is inductive alone.
`TablesInv` adds what the handlers remember: a request that has not inserted its row
has left nothing in the tables, and its draft is active and has a ticket exactly if it
is confirmed (`DraftsFresh`); a cancel handler works on a row that exists, and is
cancelled and ticketed when its ticket is revoked (`TargetsExist`); the row a promotion
has locked is waitlisted and locked by nobody else (`PicksWaiting`, `PicksDistinct`).
With it, a promotion finds no ticket in its way, and a cancellation that waits for the
lock finds the promoted row and its ticket.

*The argument for the capacity.* `SerialInv` says that at most one handler runs and that
what it has read still holds when it acts on it: a confirmed row is inserted and a
promotion is under way only while a seat is free. `CountAfter` says what changing one row
does to a cardinality.

*The argument for overbooking.* `Seats` are the confirmed rows and those that handlers have in
hand: a registration that has found the event not full, and a cancellation that has a seat to
pass on. A registration takes a seat in hand only while fewer rows than the capacity are
confirmed, and then the others in hand are fewer than the requests in flight (`JoinedSeats`). A
cancellation exchanges the confirmed row for a seat in hand (`CancelRowSeats`, which needs
`SeenHolds`: the row it has read as confirmed is so still, or cancelled), a promotion exchanges
that for a row (`CommitSeats`). Only a cancellation whose registration another one has cancelled
meanwhile adds a seat and takes none, and it is then served without a cancelled row of its own.
The served cancellations less the cancelled rows count these, and also those that were refused
or lost in a crash, for which the bound is not exact. `DistinctInv` is sharper where nobody
cancels what is being cancelled: nothing but a cancellation ends a registration
(`OnlyCancelEnds`), so that no seat is added at all. TLC agreed with the inductive invariant on
instances with two requests at a time, up to four registrations, three cancellations and a
crash, and refuted both a bound one seat lower and the bound without the cancellations in
vain. No run of the project states these bounds: `RegistrationRaces` lets all its
requests overlap, where the bound is the number of requests, and `RegistrationSerial` none,
where it is the capacity.

*The argument for what participants are told.* `NoticeInv` says that a handler about to
tell of a seat or a promotion has brought it about and that nobody was told of it before.
What keeps two handlers from telling of one promotion is that the rows two promotions have
picked differ, and that a promoted row never waits again.

*The argument for the stranded seat.* `StrandInv` says of serial requests that while
somebody waits and the service has not crashed, all seats are taken but the one that the handler under way is passing on
(`SeatPassedOn`), and that a registration about to be put on the waitlist has found the
event full (`WaitersFoundFull`). That such a handler finds somebody to promote needs that a
non-empty set of positions has a least one.

*The argument for the desk.* When requests do not overlap, at most the handler that is
served has a cancellation the desk does not show yet (`Shown`). `DeskInv` says that this one
is the row it has read, that the row it has picked is the first in line (`PickedFirst`), and
that a registration has foreseen what the desk decides (`Foreseen`, `ReadActive`). Each step
then is a step of the desk or shows nothing. The theorem takes `Stamps = Nat`: the desk may
use any time; the runs give it those their bounded clock can reach.

*The argument for tickets and payments.* A ticket becomes valid only in the last step of
a webhook that says `SUCCEEDED`, and the message it works on has been sent; a session
inserts its payment only when it has made the ticket pending, or found it so. For
`PaidMeansTicket`, `LedgerInv` says that a payment has the status its last message gave it,
and `SerialInv` that a success the provider was told of is stored, that no message under way
is older than it (`SuccessKept`), and that the ticket is valid when every payment has
succeeded, also while requests are under way (`PaidSettled`).

*The argument for early publication.* `EarlyInv` says that the schedule in the row was
asked for by some request, and that a sweep about to publish was started when some
request's time had come; requests do not forget, and the clock does not go back.
`ContentIsFixed` needs no invariant but the type: `EditMoves` lists the steps that write
content: UPDATEs of edits, which come so far only while the event is a draft.

*The argument for identity.* `Places` says which statements a handler of each kind can be
at, and what it remembers there. `ResetInv` says that two transactions never hold one
token, because the first of them has locked it, and that it stays open until the COMMIT;
so a second reset finds it consumed. `SessionInv` says that the sessions a reset found when it began
are among those it is about to revoke, or revoked already, and that nothing makes a
session live again; `LogInv` says that no password is stored twice and that the account
has the last one, so that a login that begins after the answer to a reset has compared
with that password or a later one; `AccountInv`, that where there is an open reset token there is an
account. `ResetInv` also shows that the branch of the code for a token found consumed at
the end of the transaction is never taken.

`ExchangeInv` says that a session that was refreshed holds the digest of one of the tokens its
refreshes have stored, so that the token they replaced is refused, unless one of them has
signed it again.

*The argument for deadlocks.* Whoever waits, waits for the user's row or a session, and both are
held by a reset that has written the user's row: the transactions take the token, the user and
the sessions in this order. Such a reset waits for nobody any more (`HoldersGoOn`). The others
are `Ready` by their places, which needs for the INSERTs that no time they have noted is in the
future (`ClockInv`).

*The argument for the browser.* While nothing is lost and nobody interferes (`Calm`, the
causes that `KeptSignedIn` names), `Orderly` holds: at most one tab refreshes, with the pair
that is stored; the stored pair is the one whose digest the session has; no new pair has
lapsed; and a protected call that is sent again carries such a pair, of the session that is
stored and renewed (`SameSession`). So a refresh is refused only when the session has ended,
and so is such a call the second time. That pairs lapse only once
they were issued (`LapsedIssued`) keeps a new pair good.

*The argument for those who are told.* `TellInv` adds to the invariant of the tables which
attempts may have a handler under way (`Answered`, `InTurn`: a new attempt is made only when
the one before was answered by the gateway alone, and one handler at most finds the event
not cancelled yet), and what the loops of the tellers have done (`Loops`): a registration in
the audience has not been told yet, and is taken out of it with the notification.

*The argument for the trail.* `TrailInv` is the type and `Fresh`, which says `TrailIsCurrent`
of any trail and any statuses, so that the lemmas can speak of the trail with the new
entries before the oldest are given up (`FreshJoined`), and of the one that is kept
(`FreshKept`): a suffix of a fresh trail is fresh.

*The argument for reports.* A report looks at the steps an operator has handed in, the model
at what they did. `ProcedureInv` connects the two: what was executed has a first place in the
list of what was handed in (`ExecutedFirst`); between the first closing and the first opening the
platform is closed (`ClosedSince`), so what is handled for the first time there is handled
while nobody writes (`HandledClosed`); and what was handled before the first check is among
what was checked (`CheckedThen`).

*The argument for "not ready".* `away` collects the back ends that are not listening at some
moment of the asking. `AskedInv` says that one that is not listening now is among them, and
that if nothing was heard of one, somebody was away.

*The argument for the seeds.* `SeedInv` says where each number comes from. An account keeps its
id, which is that of the demo user or one given at the sign-up (`SeedAccounts`); demo rows and
those of people do not share a name, and keep their holders (`SeedRows`); a ticket number is
that of one demo row or was given to one row since, and a row with a demo ticket keeps it even
while it waits (`SeedTickets`); the ticket of a confirmed row is issued unless a payment of the
row is pending or has not succeeded (`Accounted`); the unique index holds (`SeedPlaces`). So an upsert of a script
meets the row it wrote before or none, and the references of one database into another lead to
what the other one has, once its own seed has run.

*The argument for mails.* Counting mails alone is not inductive, as a mail is counted before
the worker remembers it. `Counted` counts, for each recipient, what was mailed, what is about
to be, and the copies that were replayed, and says that together they are no more than the
copies that are undertaken (processed, or in the hands of a run) and the reasons; each replayed
copy has brought its reason, so of the undertaken ones only the original is left over. A crash
gives up the undertaken copies for as many reasons (`Known`). `Kept` and `Accepted` say that
what is in hand has an entry if it is a copy, and that what is remembered, answered or logged was mailed.

*The argument for what is settled.* `NobodyForgotten` says that again and again all is settled;
`SettledStays`, that nothing settled is taken back. A late failure could do so if it made an
entry that has failed for good pending again. It does not, as such an entry has used up its
retries (`Exhausted`) and `buildRetryPatch` then fails it again (`PatchesSettle`), and a success
is logged in the same step. Text messages fail for good at their first attempt: nothing works on
their entries any more, because the worker is never given one and a reminder is sent but once
(`TextsApart`). TLC agreed on the instance of the run (365,108 states).

*The argument for one's own changes.* `BrowsingInv` orders versions: a request has the version
of its change, a page the one it was promised after an invalidation, and a reading that has
counted its rows is not older than what its page was promised (`Versions`), because
invalidating asks anew for what was asked before. What it then stores is no older either.

*The argument for the pages.* `PagesInv` says that there is a history `h` of the list: which rows
were the first `k` at each version, for every `k`. A page holds the rows between two such
places at the version when it was read (`Found`, `PageHolds`). A change moves one row to the front, so
that among the first `k` at most one row is new and at most one is missed
(`ChangeShiftsOne`); between two readings, that adds up to the changes in between (`Drift`), and over
all readings to the changes since the first (`TogetherNotMore`). A row that is hidden has crossed
the boundary of two pages towards the back between their readings, one that is shown twice the
other way (`FewAreHidden`, `FewAreRepeated`). Where one would use an induction, the proofs take the
smallest counterexample.

*The argument for the alerts.* The rules look at sums over all series of a metric. The sum is a
fold, a recursive function on the subsets of the labels; `SumsExist` shows from the sizes of the
sets that there is such a function, `SumsAgree` that there is one only, and `SumPlus` that it
grows by what is added to one series. Where a proof would go by induction over sets, it takes a
smallest counterexample instead (`HasSmallest`). `MonitorInv` then says that every sum is what has
happened. A share is rounded to a thousandth of a percent (`toFixed(3)`): `SharesAreExact` proves
that rounding decides nothing as long as no more than 2000 attempts are counted, and
`AlertsJustified` says so (`FewAttempts`). Beyond that it may: 61 failures of 2033 are more than 3
percent, are rounded to 3.000, and raise no alert.

*The argument for the gateway.* Two entries of a table may fit one path, and the first wins; so
the proof is about paths first. A pattern is `Tight` if it fits no `Regular` path (one with a
name where names stand) but itself; all patterns of the tables are, so what `Matching` finds
for a call is an entry for that very call (`Matched`, `SentFits`), and by looking through the
tables every route has its handler (`Routed`), both ask for the roles that `Needed` tells
(`Proper`), and each handler shows those who may call it exactly `Right`, at once or after a
second look (`Honest`). `GatewayInv` carries this through the stages of a request: where it was
led to (`LedOn`), what the first look of a handler with two has established (`LookedFirst`),
and that always `always` is within what is right now, which is within `ever` (`RightKept`).
Where a dot segment is sent for the id, what is left of the path is computed segment by segment
(`DotTaken`), for each of the patterns with a name (`NamedRoutes`): a handler that fits what is
left is the catalogue or the list of drafts, or has another segment in the place of its own id
(`DotsLead`). That an event that is not found has no registrations to show needs that
registrations are of published events (`RowsHaveEvents`). That a table has a first entry that
fits needs that a non-empty set of numbers has a least one (`HasLeast`).

*What stays with TLC*: liveness (`EveryRequestEnds`, `PaymentSettles`, `DueIsPublished`,
`EveryoneIsTold`, `EveryCallEnds`, `NobodyForgotten`, `EveryViewSettles`, `TicketFollows`,
`PlatformRecovers`), because TLAPS has no reasoning about fairness and ENABLED here. So
also the half of `NoDeadlock` which says that the handlers that are `Ready` are those whose
`Step` is ENABLED; that one of them is `Ready` is proved. `RECURSIVE` operators are avoided in
every module that has theorems.

## 5. Not modelled, and the plan

Left out because they keep no state and nothing depends on them: the view models, list
filters and form checks of `services/shared`, log lines and correlation ids, the audit log of
the identity service (written, never read), the histogram and the export format of the
metrics, the layout of tickets and CSV files, the documentation portal, the scripts in
`tools`, and the pages of the frontend other than the one in `Browsing`, which show what the
services answer. `POST /notifications/emit` inserts a row that nothing refers to. Filters and
page numbers of the lists other than the participant's are left out of `Gateway`; so are ids
that are none without being dot segments. `Readiness` has
Docker's probe wait for the answer of the gateway, where it gives up after three seconds and
each of the gateway's own probes may take four: one more way for a probe to fail. Counts below zero, which a caller could hand to the counters, are not in
`Monitoring`.

Next, in this order:

1. An abstract specification of the delivery of notifications, with `Notifications` shown
   to implement it.
2. The creation of a missing ticket in `Payments`, which needs a registration whose
   confirmation and ticket are not one transaction.
