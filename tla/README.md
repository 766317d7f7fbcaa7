# Heritage Hub backend: TLA+ models and proofs

This directory holds TLA+ specifications of the Heritage Hub backend (NestJS, Prisma on
PostgreSQL, BullMQ on Redis), the TLC configurations that check them and the proofs TLAPS
checks. Paths below are relative to the repository root, which is `src/` here: the service's
code is `src/src/modules/...`, its documents `src/doc/...`, its schema `src/prisma/schema.prisma`.

The one fact that shapes every model: **the service never opens a database transaction.**
Each `await prisma....` is one statement; between two of them the handlers of other requests
run, the process may stop, and what was read may no longer be true. An action of a model is
therefore the code from one awaited call to the next, and the locals that live across an
`await` are state.

## 1. Inventory

| Component | State | Operations | Talks to | What is hard | What makes it correct |
|---|---|---|---|---|---|
| auth (`modules/auth`, `shared/guards`) | tables `user`, `session` (family, revokedAt, expiresAt); access tokens at the clients | register, login, refresh, logout, logout-all; the JWT guard before every other handler | database only; every other module through the access token | overlapping refreshes, refresh against purge and logout-all, crash between revoke and create, duplicate registration, access tokens that outlive their session | rotation retires the old token, revocation is final, reuse ends a family, a family is one user's, one account per e-mail, nobody who is signed out everywhere comes back without the password |
| interactions (`modules/interactions`) | table `user_interaction`, queue `interactions-ingest`, limiter map in memory | submit a batch; worker | Redis/BullMQ, database | lost or repeated commands, retries, stalled jobs, restarts, Redis outages, window boundary | accepted means stored or kept in the queue; no event twice; rate bound; every request answered once outages end |
| recommendations (`modules/recommendations`) | table `recommendation_snapshot`, queue `recommendations-refresh` | enqueue (called by favourites and quiz), worker, home feed | AI service, Redis/BullMQ, database | slow AI calls overtaken by newer ones, torn reads, retries, fallback inside a request | acknowledged writes reach a snapshot; home never goes back; AI outage hidden |
| feedback (`modules/feedback`) | tables `report`, `rating`, `favorite` | create report, upsert rating, add/remove/list favourites | explore tables (target look-up), recommendations | check-then-insert on the daily limit, midnight | at most three reports a day, one row per target |
| personality (`modules/personality`) | table `personality_profile` | quiz, submit, read | recommendations | ties in the score | result is the arg-max with the documented priority |
| ai-chat (`modules/ai-chat`) | tables `chat_session`, `chat_message` | sessions CRUD, send message | AI service | reply lost to a crash, overlapping messages | a reply follows its question, sessions are their owner's |
| explore (`modules/explore`) | catalogue tables, read-only | lists, details, children, search, suggestions | database | rows that change between two pages or two queries, a search over three tables, cuts before the merge | pages neither skip nor repeat; what is answered was published; a suggestion is missing for a reason |
| AI stub (`recommendations/clients/ai-service.stub.ts`) | none | recommendations, canned chat | catalogue tables | favourites that vanish between its queries | it finds something where there is something |
| notifications | table `notification` | list, mark one read, mark all read | database | a read and an update by id with other requests between them | each is counted once, nobody else's is touched |
| users | columns of `user` | read and update the profile | database | nothing: one statement each | - |
| core, shared, bootstrap, health, seed | none | filters, throttling, start-up | - | - | - |

Interactions between components: favourites and quiz call `RecommendationRefreshService.enqueue`
after their own write; the two queues are shared with workers in the same process; the refresh
reads what personality, feedback and interactions wrote; all else is joined by the database only.

The hazards, each at its line and with the properties that cover it, are in `PROJECT.json`.

## 2. Modules and how they correspond to the code

| Module | Models | EXTENDS / uses |
|---|---|---|
| `AuthSessions` | `auth.service.ts`, all operations | `SessionLedger` by INSTANCE |
| `SessionLedger` | abstract specification: what the session table promises | |
| `AccessTokens` | `jwt.strategy.ts` and the guards, in front of the operations of `AuthSessions` | `AuthSessions` |
| `UnracedFamilies` | the same service, with a history of the families whose handlers overlapped; the promises to the others | `AccessTokens` |
| `AuthSessionsProofs` | theorems about these three modules | `UnracedFamilies`, TLAPS |
| `InteractionIngest` | `interactions.service.ts`, ingest worker, limiter | `EventDelivery` by INSTANCE |
| `EventDelivery` | abstract specification: what becomes of an event | |
| `InteractionIngestProofs` | theorems about `InteractionIngest` and `EventDelivery` | `InteractionIngest`, TLAPS |
| `RecommendationRefresh` | `recommendation-refresh.service.ts`, its worker, `refreshSnapshotForUser` | |
| `RecommendationRefreshProofs` | theorems about `RecommendationRefresh` | `RecommendationRefresh`, TLAPS |
| `DailyReports` | `reports.service.ts` createReport | |
| `UserRequests` | `notifications.service.ts` markRead and markAllRead, beside the reports of the same user | `DailyReports` |
| `UserRequestsProofs` | theorems about `DailyReports` and `UserRequests` | `UserRequests`, TLAPS |
| `CursorPaging` | `cursor-pagination.ts`, the list endpoints, `search.service.ts` search | |
| `Catalogue` | suggestions, details and children of `explore`, the picks of `ai-service.stub.ts` | `CursorPaging` |
| `CatalogueProofs` | theorems about `CursorPaging` and `Catalogue` | `Catalogue`, TLAPS |
| `ChatSessions` | `ai-chat.service.ts` createSession and sendMessage, the assistant's client | |
| `ChatSessionsProofs` | theorems about `ChatSessions` | `ChatSessions`, TLAPS |
| `HomeFeed` | `recommendations.service.ts` getHome and all it calls | |
| `HomeFeedProofs` | theorems about `HomeFeed` | `HomeFeed`, TLAPS |
| `PersonalityQuiz` | `personality-scoring.ts`, the weights of `personality-quiz.data.ts` | |
| `PersonalityQuizProofs` | theorems about `PersonalityQuiz` | `PersonalityQuiz`, TLAPS |
| `MC...` | symmetry sets, inputs and views for TLC | the module they are named after |

**AuthSessions.** `account[e]` is the number of user rows of a lower-cased e-mail, `session` the
session table by id, `expired` the ids past `expiresAt`. `pc[r]`/`ctx[r]` are the call a handler
awaits and the locals it keeps. `RefreshRead` is lines 67-109 of `auth.service.ts`, `RefreshPurge`
the deletion of a reused family, `RefreshRevoke` the update of line 111 (which does not look at
`revokedAt` again and rejects if the row is gone), `IssueTokenPair` the insert of line 155;
the rest is named after its method. `parent`, `uses`, `reused` and `ended` are history.
`bcrypt` is the Boolean `tokenValid`; a token without a session id is `NoOne`, answered 401, or 500 when
what stands for the id is no uuid. `uses[s]` becomes 1 when the secret of `s` is shown to a refresh in
time or to a logout, or a logout-all revokes it, and 2 when a refresh names the id after that, with
whatever secret: line 88 tests `revokedAt` before line 103 compares the secret.

`SessionLedger` is the abstract view: sessions are opened, retired, given a successor, purged,
each in one step. A successor needs a predecessor that is already retired; it may come at any
later time, because the code keeps nothing between the two calls. `ImplementsLedger` is the
refinement, with the identity on `session`.

**AccessTokens.** An access token names its user and no session; it is called here by the session
it was signed with. `lapsed` are those past their `exp`, `gate[r]` is `request.user` between the
guard (`Authenticate`) and the end of the handler behind it (`Serve`, or `LogoutAllOf`, which
revokes the sessions of the user the guard admitted). The operations of `AuthSessions` that are
`@Public()` begin without the guard; logout-all, one action there, is two steps here. `UnracedFamilies` adds the history
`raced`: a family is in it once two handlers work on it at the same time, or a logout-all of its
user is answered while a refresh of it is under way.

**InteractionIngest.** One user. `rows[e]` counts the rows of an event id, `jobs` is the queue,
`stamps` the limiter's list: the k-th request of one time is `<<time, k>>`. Queue actions are external and allow what the options in the code
allow: three attempts, completed jobs removed, failed jobs kept, one redelivery of a stalled
job, and a command that waits as long as Redis is unreachable (`maxRetriesPerRequest: null`) and
may be sent twice when its reply is lost. A database call that fails may have been committed.
`Crash` stops the process: handlers vanish, the limiter forgets, the worker's job stalls.

`EventDelivery` is the abstract view: an event is queued, stored, and leaves the queue only once it
is stored; a 202 goes with a step that queues or stores it. Storing leaves an event with one row,
however often it happens. There are no requests, jobs, attempts, outages or crashes.
`ImplementsDelivery` is the refinement, with the identity on `rows`; `queued` is what a job keeps, those
of the failed set included.

**RecommendationRefresh.** One user. A signal source is a version counter; a snapshot is the
version of each source that the AI service was asked about, so "how fresh" is a comparison of
versions. `run[x]` is the `refreshSnapshotForUser` executed by a handler (fallback) or a job:
the reads of `Promise.all` in any order, the AI call, the insert with the `generatedAt` taken
when the AI answered. `newest` is the row `getValidSnapshot` finds; expiry of snapshots is left out. Each
favourite that is added counts as a new version, also one that was there (the upsert changes nothing
then, the code enqueues all the same).

**DailyReports.** One user. A handler takes `startOfDay`, counts, looks the target up, inserts.
`filed[d]` is the number of reports dated on day `d`.

**UserRequests.** The same handlers also mark notifications: `markRead` reads the row (`MarkRead`)
and updates it by its id alone (`MarkReadUpdate`), `markAllRead` is one statement whose count is the
answer. Notifications of all users arrive at any time; nothing in the repository creates them.

**CursorPaging.** One walk of one client through a result. A row is the place of its id in the
order of ids; `row` and `createdAt` are the table. `Request`, `Read(t)` and `Answer` are one page:
a list reads one table, a search three, each by its own query, so rows may change between the
reads. `Behind` is the filter of the cursor, `First(limit)` the page, `HasNext` the test for the
row beyond it. A request may fail and be sent again. Rows are created (also with the time of the
millisecond before, when their insert is slow), removed, and published again. `times`, `steady`
and `disturbed` are history.

**Catalogue.** One request of several queries beside the walks and changes of `CursorPaging`:
`pending` are the queries it still has to make, `found` the rows they returned. Suggestions make
three prefix queries side by side, each cut to `SUGGESTION_MAX_LIMIT` by name, and merge them newest
first; a detail is one query; the children of a monument are read after it was found published; the
stub takes the favourites that are published, or else the newest rows, table after table. `Selections`
is what an ordered query with a `take` may return when the order has ties.

**ChatSessions.** One user. A turn is one `sendMessage`; `pc[t]` is the call it waits for,
`log[s]` the messages of a session in the order of their inserts. The assistant answers, fails
(caught: the fallback text) or answers a body without `answer`, which Prisma refuses to store.

**HomeFeed.** One `GET /v1/home`, one query a step, with the locals of `getHome`, `enrichItems`,
`padItems` and `buildFallbackItems` as variables. Content changes its status, ratings are upserted,
the quiz is taken and a snapshot is saved in between. An item is an id, its texts are left out; a
monument is its place in the order of `createdAt`; `kind` is left out. `mergeUnique` and `padItems`
append what `NewPlaces` selects: the first place of each id that the list does not have yet. The sum
of a monument's ratings (`Total`) counts the stars. `RecommendationRefresh` says
which snapshot is the newest, this module what is made of it.

**PersonalityQuiz.** `ValidateAnswers` is the sequence of early returns of the code (`Fault` of the
first offending answer), a score counts the points that the answers give a persona (`Points`),
`ResolveWinner` is the loop over the four personas, step by step, and `PERSONALITY_QUIZ_QUESTIONS`
the table of weights. The reference is written differently: a list is complete, and the winner is
the persona whose own two questions got the most.

Small liberties, which no property depends on: `Fault` leaves out `Number.isInteger` (the DTO's `IsInt`
stands before it); `UpsertRating` takes the published check and the upsert in one step, since `FindRated`
filters by status again; `FindSuited` leaves out the filter by kind, which can only widen it; in
`ChatSessions` an update of `lastActiveAt` that is committed and then rejected ends like one that succeeds;
in `InteractionIngest` a job stalls by a crash only, and not by a lock lost in an outage while its worker lives.

Definitions named after a mistake (`StolenNever`, `InsertAll`, ...) stand before the definition
they spoil. They are used by the mutations of `PROJECT.json` only: each property of each passing
run is shown to fail when the code has that mistake.

## 3. Runs, bounds, and what they show

| Run | Instance | Shows |
|---|---|---|
| `auth_concurrent` | 2 e-mails, 4 sessions, 2 handlers, failing calls | a family is deleted only if a spent token's id was named, the bound on forks, a dead family stays dead, the inductive invariant `IInv` (which has the type, one account per e-mail, the lineage and the ownership of families among its parts), the refinement of `SessionLedger` |
| `auth_access` | 2 e-mails, 3 sessions, 2 handlers, failing calls; logout-all behind the guard | rotation, reuse detection and logout-all keep their promise for every family that was not raced; who is signed out everywhere stays out |
| `auth_liveness` | 3 sessions, 2 handlers; register, refresh, logout; no failures | a detected reuse is completed, an accepted refresh issues a session |
| `ingest` | 2 events, 2 handlers, 2 jobs, batches of 1, limit 1 in a window of 2, clock 0..2, 1 outage that ends, failures, any number of crashes | the refinement of `EventDelivery` (one row for each event, removed from the queue once stored); accepted means stored or kept; the rate bound in every window of a process's life; requests are answered when the outage ends, accepted events settle |
| `refresh_queue` | 2 sources, 2 handlers, 2 jobs, 1 write a source, 2 crashes, `queue.add` that resolves or rejects, failures | acknowledged writes are covered and reach home; home never goes back as long as no handler fell back |
| `catalogue` | 4 rows in 2 tables, limits 1 and 3 capped at 2, 3 milliseconds; suggestions cut at 2, favourites {2} or {1, 3}; single requests before the walk begins | no page repeats or skips a row, `has_next` is kept; answers were published while the request ran; suggestions and the stub's picks miss nothing without a reason |
| `chat` | 2 turns, 2 sessions, 3 milliseconds, rejecting queries, crashes | a reply stands behind its question and belongs to it, outages of the assistant do not show, `lastActiveAt` keeps up without overlap, questions get replies |
| `home_feed` | 3 monuments, 1 city, 2 raters, 3 snapshots, a minimum of 2 items, 2 changes during the request | the feed is long enough, repeats nothing, shows nothing that was never published, ranks by average |
| `quiz` | all 78125 complete lists of answers, about 300 that deviate | exactly the complete lists are accepted, the winner is the favourite |
| `user_requests` | limit 3, 3 handlers, 3 days, 3 notifications of which the user owns 2 | an overshoot of at most two, each notification counted once, only what was asked for is read |

Two runs expect a violation, of a sentence of the documents (quoted in "Disagreements with the documents"):

| Run | Instance | Sentence refuted |
|---|---|---|
| `auth_reuse_race` | 1 e-mail, 3 sessions, 2 handlers | a reuse ends the family (`ReuseEndsFamily`) |
| `ingest_outage` | as `ingest` without the limiter, an outage that need not end | without Redis the events are stored at once (`DegradedInsert`) |

Why the bounds are enough: the races need two handlers and the rows they touch. Four sessions
are a token with one successor more than two handlers can give it, so that `ForkBound` could fail,
or a chain of rotations with a second family beside it; the liveness run does with a token, its
successor and a fork, `auth_access` with a rotation and another family or user. `auth_concurrent` compares states by `Relevant`, a VIEW without what no later
step and none of its properties reads: `reply`, the histories of the serial promises, the expiry of
rows that are not live. `auth_access` and `catalogue` have such a VIEW too, explained where it is
defined. Two jobs let one be worked on while the other
waits, stalls or has failed; a lost reply spends one on a command whose caller retries. Two sources
make a torn read possible: a refresh that sees the new value of one and the old value of the other.
A window of two in a clock of three has windows that begin, overlap and end inside the run; batches of
two events are refused as too large. The invariants and the refinement of `ingest` are
proved for any batch, limit and window.
A handler stays "in flight" for as long as the instance likes, so two of them cover any number of
requests of which two overlap. In `home_feed` a minimum of two and three monuments have every cut that three and more have: a
suited list that is short, rated monuments beyond the limit, rated ones that are taken off. With a
snapshot only one rater has rated at first, since averages are compared without one. In `catalogue`
two tables suffice for a search, as each is read once; four rows are two pages of two or four of one,
and a table of three is cut at two names. Its single requests are made before the walk begins: the
two share nothing but the rows, which change beside both. Three handlers in `user_requests` are the
fewest whose reports overshoot by two, or of which one marks while two mark all. Where a proof stands
beside a run (section 5) it removes the bounds.

`refresh_queue`, `chat`, `home_feed` and `quiz` do not check deadlock: when the writes are spent
and the jobs settled, the turns used or the request answered, nothing is left to happen.

`NewestIsFreshest` is conditional on purpose. With one worker, refreshes run one after the other,
so the latest `generatedAt` belongs to the latest reading. A refresh in the request runs beside
the worker, can read first and be stamped last, and home then serves the older reading;
`fellBack` records that one happened.

`RateBound` is about one process's life: the timestamps are in memory, so a restart (or a second
instance) begins with empty windows and twice the limit may pass in one window.

### Disagreements with the documents

* "Reusing an old refresh token immediately invalidates the entire token family"
  (`doc/phases/phase-2-auth.md:61`): a refresh between revoke and create adds a session after the
  purge (`auth_reuse_race`). The same window lets two overlapping refreshes of one token both succeed,
  and lets a session be created after a logout-all. In `auth_access` the promises are stated for the
  families that are not `raced`: no two handlers were at work on one at the same time, and none when a
  logout-all of its user was answered.
* "BullMQ unavailable -> degraded sync insert succeeds" (`doc/plans/interaction-telemetry.md:260`): with
  `maxRetriesPerRequest: null` the command waits while Redis is unreachable, `queue.add` does not reject
  and the insert is not reached (`ingest_outage`). `BatchAnswered` holds under `RecoveringSpec`, which
  says that outages end, and not under `Spec`.

More were met while modelling, without a run of their own. Part of the models are:

* a taken e-mail typed in mixed case passes the look-up and ends in the unique index, a 500 and
  not `EMAIL_ALREADY_EXISTS` (409) (`doc/frontend-integration-handoff.md:127`): `RegisterLookup`
  finds nothing, `RegisterCreate` answers "error";
* "Never return HTTP 5xx solely because FastAPI is unavailable"
  (`doc/phases/phase-6-recommendations-proxy.md:236`): when `queue.add` rejects, as it always does with
  Redis disabled, the refresh runs in the request, and its failure is the request's 500, the answer "aiError" of `RecommendationRefresh`;
* "Max 3 reports per user per day" (`doc/phases/phase-4-user-interactions.md:52`): overlapping requests
  pass the count together. What holds is `OvershootBound`, and the limit itself (`MaxPerDay`) for one
  handler (`SerialLimitIsExact`);
* suggestions are cut by name in each table and ranked by date after that, so the newest match can
  be missing: `SuggestionsMissOnlyCutRows` says when;
* after a logout-all an access token admits requests until it lapses: `LockedOutStaysOut` counts its
  holder as signed in.

No document speaks of these, and they are worth knowing:

* whoever names the id of a revoked session, with a wrong secret too, has its family deleted;
  `DeletionHasCause` says that naming a spent token is the only cause;
* a refresh whose insert fails has retired the client's token without a successor: the client must log
  in again, and trying again deletes the family. `AcceptedRefreshReplaces` is checked without failing calls.

Of parts that are not modelled:

* the throttler named `auth` is not tied to a route, so its 10 requests a minute bind every route
  and not login and registration alone ("General routes: 60 requests / minute",
  `doc/frontend-integration-handoff.md:167`), and `@SkipThrottle()` skips `default` only;
* `JWT_ACCESS_EXPIRES` (`doc/frontend-integration-handoff.md:136`) has no effect, since
  `issueTokenPair` passes the constant of `auth.constants.ts` to the signer.

The passing runs state what is true instead: the successors of a token are bounded by the
handlers in flight, a family without live sessions and without a rotation under way stays dead,
the overshoot of the report limit is bounded.

## 4. Fairness

* `AuthSessions`: weak fairness of `Resume(r)`: Node continues a handler when its awaited call
  has settled, and a call to a live database settles. `Abort` has none. The liveness run has
  no failing calls; with them both properties are false for the trivial reason.
* `InteractionIngest`: weak fairness of a handler's continuation and of the worker. `Spec` says
  nothing about Redis coming back, `RecoveringSpec` adds it: without it a request may wait for
  ever, so `ingest` assumes that outages end, which no code ensures; `ingest_outage` does
  not assume it and finds the request that waits. `Crash`, failures and outages are never fair.
* `ChatSessions`: weak fairness of each turn's next call: queries settle, and the client of the
  assistant gives up after its timeout. `Reject` and `Crash` have none.
* `AccessTokens`, `CursorPaging`, `Catalogue`, `DailyReports`, `UserRequests`, `HomeFeed`,
  `PersonalityQuiz`: no fairness, safety only.
* `RecommendationRefresh`: weak fairness of refreshes (the AI client has a 5 s timeout) and of
  enqueueing; strong fairness of `Take`, since a waiting job is disabled whenever another is
  worked on, and BullMQ hands waiting jobs out in order.

## 5. Proofs

`AuthSessionsProofs` (all theorems for every value of the constants, from `AuthAssumption`: the
null value is no e-mail or id, and finitely many requests are in flight):
the inductive invariant is `IInv = TypeOK /\ UniqueAccount /\ LineageOK /\ LocalsOK /\ UsesOK /\
DeletionHasCause`. The safety properties alone are not inductive: what a handler will write
depends on what it remembers, so `LocalsOK` says that the locals of a handler still describe the
session it read (its user and family do not change, and once retired it stays retired), and
`LineageOK` says that the family of a row was opened by a session of the same user and that
its predecessor is retired. `UsesOK` says that a retired token was used, and that a handler about to
purge has seen a spent one named, which makes `DeletionHasCause` inductive. Each action either advances states of rows or adds one row
(`IssueTokenPair`); the lemmas follow that split. From `IInv` follow the invariants, the action
properties `NeverRevived` and `DeadStaysDead`, and the refinement `HandlersImplementLedger`,
whose step maps each handler step to a step of the ledger or to a stutter.

`ForksAreBounded` is the true form of "a refresh token is exchanged once": successors that exist
plus rotations under way never exceed the handlers. A rotation begins only while the token is live,
and then it has no successor yet (`RotationBegins`, with `LineageOK`); an insert turns a rotation
under way into a successor (`RotationEnds`); every other step loses rotations or leaves both alone.

`UserRequestsProofs`, the reports (from `ReportsAssumption`: finitely many handlers, a positive limit): the
invariant is `Reserved`: reports of today plus handlers past the check stay below the limit plus
the handlers. A handler past the check holds a place that its insert uses, a check passes only
below the limit, and midnight empties the count. `OvershootIsBounded` follows, and for one handler
the exact limit, `SerialLimitIsExact`.

`CatalogueProofs`, the walks (from `PagingAssumption`: finitely many rows, whose ids are ordered):
`IInv` says that as long as the walk goes on no row behind the cursor was shown and every steady row
that is not behind it was (`Frontier`), and that a request has found all steady rows behind the cursor
in the tables it has read (`Found`). The heart is the answer: `Before` is a strict total order, a page
is a prefix of what was found (`PageIsPrefix`), and all of it if it fits (`LastPageIsAll`), both by
comparing cardinalities; so the new cursor separates again (`AnswerFrontier`), and a walk that ends
has shown everything (`AnswerNoSkips`). `HInv` adds the row that bears out `has_next`.

`HInv` is not run by itself: `NoEmptyPage`, which follows from it, is.

`CatalogueProofs`, the single requests (from `CatalogueAssumption`: `Order` reads each table once, a
take is positive): `Watched` says that the two histories frame what a query can see, from which
`AnswersArePublished` follows; the children of a monument need that the monument was found before.
`NamesAreCut` says of each row that was there throughout that it is found, that its table is still to
be read, or that a full cut of names stands before it; at the last table this is
`SuggestionsAreComplete`. `StubAdvances` says that the tables before the one being read have given
something if they had anything throughout: a table whose favourites vanish goes on to its newest rows
before the next table is read. `CatalogueImplementsWalks` maps every step to one of `CursorPaging` or a
stutter, and carries the theorems of the walks over.

`AuthSessionsProofs`, the guarded service: `AccessInvariance` carries `IInv` over; a step of
`AccessTokens` is a step of `AuthSessions`, a logout-all of an admitted user, or leaves the sessions alone. `LockedOutUsersStayOut`
looks at where a user's presence in the next state can come from: a row that was there before (rows
only advance, `AdvanceKeeps`), a row just created (`IssueKeeps`, its user was entering), a handler
that gets to an entering call (`EnterStep`, by a live session or a password), or the guard, which
admits whom an unexpired token names.

`AuthSessionsProofs`, the promises of the documents (`RotationsAreExclusive`, `ReusesAreFinal`,
`LogoutAllsAreFinal`): of a family that is not raced, `UnracedInv` says that one handler at most is at
work on it (`OneHandler`), that this handler's token is the only live one while it is to be revoked and
that none is live while its successor is to be inserted (`AliveOnly`), so that one is live at most; and
that a family whose reuse or logout-all was answered is dead, with no handler left to insert into it.
These hold with failing calls, expiry, and any number of handlers at work on other families.

`InteractionIngestProofs`: the invariant adds to the types that what a job has saved has rows
(`SavedIsStored`), that a job still to be tried has an attempt left (`AttemptsLeft`) and that no event
has two rows (`NoDuplicateRows`); without the first a removal could lose an event, without the second the
failed set could be bypassed, and with the third an insert is the abstract `Store`, after which each event has one row.
`IngestImplementsDelivery` maps each step to one of `EventDelivery` or a stutter, and
`AcceptedNotLost` is then carried over from the abstract `NothingLost`.
For `LimiterBoundsEveryWindow` the list alone says nothing of a window that begins in the past, since it
forgets: `ListIsRecent` says that it holds exactly the admitted requests of the window that ends now, and
`AreNumbered` that the requests of one time are numbered without a gap. A window that an admission
enlarges lies within the one that ends now, and that one had room.

`RecommendationRefreshProofs` (from `RefreshAssumption`): for `SpecAckedIsCovered` the invariant says that
a handler and a job know a write that was made (`CausesAreMade`), and that a refresh on their behalf has
seen that write in the sources it has read (`ReadsSeeCause`); at the insert every source is read, so the
snapshot covers the write, and a job is removed after its insert only (`RemovedIsCovered`). A failed job
keeps its write: that is where the property stops short of "reaches a snapshot". `SpecNewestIsFreshest`
and `SpecHomeNeverGoesBack` assume `Concurrency = 1`, which is what the code starts, and speak of runs in
which no request refreshed by itself: `FreshInv` says that at most one job is active (`OneWorks`), that its
refresh has read at least what the best snapshot has (`ReadsSeeBest`), and that its date, taken when the
AI answered, is later than all snapshots (`InsertIsLatest`).

`UserRequestsProofs`, the notifications (from `NotesAssumption`): a handler holds only notifications of its user that it
was asked to mark, and a count is of rows that were unread, so the sum of the counts never exceeds the
number of rows read. `RequestsFileReports` shows that the composition implements `DailyReports`, from
which `OvershootBound` carries over.

`ChatSessionsProofs`: the properties speak of the log and not of the call a turn waits for, so they are
not inductive. `PlacesOK` says which messages of a turn the log has at each call, `MessagesOK` that a
message belongs to a turn of its session that has got that far; a step that stores nothing keeps both by
`MovesPlaces`, the two that store add one place each (`StorePlaces`). For `ActivityIsRecent`,
`NeighboursOK` says that two turns under way in one session are noted as overlapping, so that without
overlap nobody stores a message while a date is held, and `StampOK` that such a date is not behind the log.

`HomeFeedProofs` (from `HomeAssumption`: monuments are numbers, raters and cities finite): the lists
are built without induction. `Nth(P, k)` is the member of `P` with k - 1 smaller ones, and counting
numbers a finite set without a gap (`NthFacts`: the rank is an injection into as many places, hence a
bijection); a sublist, a merge or a cut is then a function of ranks (`SublistFacts` and what follows
it). The invariant `HomeInv` says that all lists hold rows seen published (`FromCatalogue`), that the
fallback list repeats nothing and is handed over as soon as it is long enough (`FeedGrows`), and that of
the first k items of the snapshot those found come from k different places (`LooksUp`: an injection), so
that looking up repeats no more than the snapshot does. `FeedsAreLongEnough` then compares cardinalities
at each `padItems`: the rows the last query returns are either all there are or enough. `Ranks` follows
the best rated ones from the averages to the answer; averages are compared as products of totals
and counts, as fractions without a division (`QuotientOrder`).

`PersonalityQuizProofs`: `CompleteListsAreAccepted` speaks of lists of any length and any integers: seven
places and seven questions make "each once" a surjection that must be injective. For
`WinnersAreFavourites` the points of a persona are counted by question (a bijection, since each question
has one answer), and the weights give each answer once to every persona and a second time to the personas
the question is about, so that comparing scores is comparing those second times. The winner follows from the four values.

Only model-checked: the liveness properties (`DetectedReusePurged`, `AcceptedRefreshReplaces`,
`BatchAnswered`, `AcceptedSettles`, `AckedReachesHome`, `QuestionIsAnswered`), because reasoning about
fairness needs ENABLED, which is beyond the prover. `ReuseEndsFamily` and `DegradedInsert` are false. Every invariant
and every action property that a passing run checks is stated by a theorem.

## 6. Not modelled, and the plan

Not modelled:

* the user profile: one statement on the user's own row each, with no state between two calls;
* signing, hashing, validation pipes, the exception filter, throttling (the `@nestjs/throttler`
  library), configuration, health, logging: stateless or external;
* the mappers of `explore`, which copy columns; the wording of the AI stub;
* the seed script, which is run by hand against an idle database;
* who creates notifications: nothing in the repository does.

`RecommendationRefresh` assumes one process with one worker, as the code starts it; several
instances would need the overlapping refreshes that `fellBack` excludes. Snapshots do not expire in it.

What the plan has left, in order:

1. The parts of `AuthSessions` in terms of an abstract session that knows users and families, so that
   the promises to families that are not raced are inherited by refinement.
2. An abstract snapshot table that `RecommendationRefresh` implements, and `HomeFeed` on top of it.
3. The steps that the liveness properties rest on, as safety theorems: which call a handler is at can
   only be left forwards, so that finitely many calls remain.
4. The user profile and the throttler, if they gain state that lives across an `await`.
