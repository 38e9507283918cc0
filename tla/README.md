# Living Craft backend: verification project

TLA+ models, model-checking runs and machine-checked proofs about the reservation and back-office
backend in
`src/` (NestJS 11, TypeORM 0.3 on PostgreSQL, NCP Object Storage for photos, two PM2 cluster
workers). Paths below are relative to `src/src/` unless they start with `src/`.

Every HTTP handler is an `async` function. It loses control at every `await`, so two requests
interleave between any two database or storage calls, also inside one process, and PM2 runs two
processes over the same database (`src/ecosystem.config.js:6-7`). Almost no handler opens a
transaction. What keeps the data right is the order of the statements in each
handler, the unique indexes, and how `Repository.save()` decides what to write. That is what the
project models.

## 1. Inventory

| Component | State | Operations | What makes it correct |
|---|---|---|---|
| Reservation status (`modules/reservations`, `modules/admin/reservations`) | `reservations.status`, `confirmed_at`, `cancelled_at` | customer cancel, validated status update, admin status update, admin cancel | only valid transitions; times belong to the request that caused them; a request that nobody disturbed does exactly what it computed |
| Reservation booking (`reservations.service.ts` `create`) | `reservations` rows, reservation numbers, photo objects | check service, upload, number, insert, roll back | numbers unique and without gaps; rows and objects agree; the answer is true |
| Photo storage (`modules/files`, `common/services/ncp-storage.service.ts`) | objects in the bucket | put, delete | a reported URL exists; a failed put or delete is visible to its caller or explained |
| Availability (`reservations.service.ts` `getAvailableTimes`, `getAvailableDates`) | reads reservations, holidays, settings, schedule | two queries | what stood while they read is not overlooked; the two queries agree |
| Reviews (`modules/reviews`, `modules/admin/reviews`) | `reviews` rows, image objects | create, lists, admin delete | one review per completed reservation; rows and objects agree |
| Customers (`modules/customers`) | `customers` rows, the one stored refresh token | login, refresh, logout, me | at most one live refresh token, the one last handed out; logout ends the session |
| Request pipeline (`app.module.ts`, `common/guards`, `modules/admin/auth`) | none | global JWT guard, roles guard, customer guard, route precedence | a request reaches its handler only with the right identity, as the account is at that moment |
| Service catalogue (`modules/services`, `modules/admin/services`) | services, their regions and schedule, order | create, update, delete and toggle, by a transactional and by a non-transactional writer; grouping of regions by province | a service's regions are those of one request; a new service comes last; the fees shown are the stored ones |
| Settings (`modules/settings`) | operating settings, holidays | upsert, add and delete holiday | one row per type and per date |
| Promotions (`modules/promotions`) | rows, order, click counter | create, update, toggle, delete, reorder, click | no click is lost; a toggle and an order stand; a deleted promotion stays deleted |
| Icons (`modules/icons`) | rows with a unique name | create, update | a name that was given stands |
| Portfolios (`modules/portfolios`, `modules/admin/portfolios`) | rows, image objects | create, update with replacement, soft delete | a row's images exist; a hidden portfolio stays hidden |
| Film optimizer (`modules/film-optimizer`) | films, cutting projects, pieces | create, update and delete of each, add pieces, toggle | a project has a film; piece orders are distinct; only a cut piece has a fixed position; nothing is lost that nobody deleted |
| Admin users and login (`modules/admin/users`, `modules/admin/auth`) | the administrators' accounts | login, the guards, create, update, delete | unique e-mail and name; a deactivated account is served no more; a deleted one stays deleted |
| Districts (`modules/admin/districts`) | district tree | parse, convert, import | not modelled: see section 8 |
| Admin customers (`modules/admin/customers`) | none of its own | lists | not modelled |
| Address, dashboard, health, filters, pipes, seeds | none of their own | stateless | not modelled: see section 8 |

**How they interact.** Booking and reviews call the files service, which calls the object store.
Booking reads the service catalogue. Availability reads settings, schedule and reservations. Reviews
read the reservation status that the status handlers write. Promotions and services refer to icons,
services to districts; the administrators' requests pass the guards, which read the sender's account.
Every interaction is a call inside one
handler or a row that two handlers share: there are no queues, events, timers or caches.

**Where it is hard.** A value read before an `await` and used after it (the status a cancel checked, the
list of numbers, the refresh token); a `save()` that writes back columns the handler never touched; objects
in the store and rows in the table with no common transaction; a connection lost after the commit; a worker
killed at its memory limit; uploads that settle after their request was answered; rows that a `save()`
brings back after they were deleted. `PROJECT.json` lists each at its line under `hazards`.

## 2. Modules

| Module | Models | From |
|---|---|---|
| `OrmSave` | what `Repository.save()` writes: columns that differ from the row it re-read | TypeORM (external) |
| `ReservationStatus` | the four status handlers as interleaved database steps | `reservations.service.ts:165-197, 465-514`, `admin-reservations.service.ts:109-156` |
| `ReservationLifecycle` | abstract specification: a status moves along an edge of a graph | the promise of `validTransitions` |
| `PhotoUploads` | puts and deletes in flight, the bucket | `files.service.ts`, `ncp-storage.service.ts`, `cleanupUploadedFiles` |
| `UploadThenSave` | the frame both `create()` handlers share: check, upload, insert, roll back, crash; EXTENDS `PhotoUploads` | the same lines of both services |
| `ReservationBooking` | booking, in several processes; EXTENDS `UploadThenSave` | `reservations.service.ts:59-136`, `reservation-code.util.ts` |
| `ReviewPublishing` | writing and deleting reviews; EXTENDS `UploadThenSave`, runs beside an INSTANCE of `ReservationStatus` | `reviews.service.ts:33-112`, `admin-reviews.service.ts:67-77` |
| `CustomerSession` | login, refresh and logout over the one stored refresh token | `customers.service.ts:79-171, 195-228`, `customer.entity.ts`, `customer-jwt-auth.guard.ts` |
| `OpeningRules` | the rules both availability queries compute from what they read, and the slot generator | `reservations.service.ts:252-402, 445-460, 570-701` |
| `BusinessCalendar` | the handlers that write operating hours, holidays and a service's holidays and schedule; EXTENDS `OpeningRules`, `OrmSave` | `settings.service.ts:78-177`, `services.service.ts:512-636` |
| `Availability` | the two queries, read by read, beside those writers, bookings and midnight; EXTENDS `BusinessCalendar` | `reservations.service.ts:239-440, 561-709` |
| `HttpRequests` | the frame of the back office: requests handled statement by statement, what they hold, what they are told, which of them overlapped | every handler below |
| `FilmOptimizer` | films, cutting projects and pieces with their cascades | `film-optimizer.service.ts`, the entities' foreign keys |
| `Promotions` | promotions, their order and their clicks | `promotions.service.ts` |
| `PortfolioImages` | portfolios and the images they name in the bucket | `admin-portfolios.service.ts` |
| `ServiceCatalog` | services, regions and schedules, their transactional and their non-transactional writer; the grouping of regions | `services.service.ts`, `admin-services.service.ts` |
| `Icons` | icons and their unique names | `icons.service.ts` |
| `AdminAccounts` | accounts, login, the guards | `users.service.ts`, `auth.service.ts`, `jwt.strategy.ts`, `roles.guard.ts` |
| `BackOffice` | these six areas in one service; EXTENDS all of them | |
| `ReservationStatusProofs`, `UploadThenSaveProofs`, `ReservationBookingProofs`, `ReviewPublishingProofs`, `CustomerSessionProofs`, `BusinessCalendarProofs`, `BackOfficeAreas`, `BackOfficeProofs` | theorems and proofs | |
| `MCReservationStatus`, `MCReservationBooking`, `MCReviewPublishing`, `MCCustomerSession`, `MCBusinessCalendar`, `MCAvailability`, `MCBackOffice`, `MCPortfolioImages` | constants for TLC | |

Names ending in `_Something` (`Taken_NotUnique`, `RollBack_NoCleanup`, ...) that stand before a
definition are mutated forms of it, plausible bugs. No specification uses them: `PROJECT.json`
pairs each with the property that catches it.

### ReservationStatus and OrmSave

State: `reservations` is the table reduced to the three columns these handlers may write. For every
request, `pc` is where its handler is, `entity` the row object it holds, `dirty` the columns `save()`
found to differ, `answer` what its caller is told. `undisturbed` is a history variable.

A handler is three atomic steps, because it sends three statements:

1. `findOne`, the checks and the change in memory (`Cancel`, `UpdateStatus`, `AdminUpdateStatus`,
   `AdminCancel`). There is no `await` between the result of the query and the call of `save()`.
2. `SaveLoad`: `save()` re-reads the row by its id and compares it with the entity (`Dirty`).
3. `SaveWrite`: an `UPDATE ... WHERE id` sets the columns that differed (`Merge`).

Step 2 is why overlap is subtle. If another request changed a column after step 1, the entity's
old value differs from the table's new one, and the old value is written back. If it changes after
step 2, it survives. So a row can end as a mixture of several requests.

`Exposed` selects the handlers requests may reach. HTTP reaches `cancel`, the admin update and the
admin cancel: the validated `updateStatus` has the same path as the admin one
(`POST admin/reservations/:id/status`), and `AdminModule` is imported first (`app.module.ts:53-58`).
`Serial` forbids overlap; with it the validated handlers are shown to implement
`ReservationLifecycle`. The guards are not modelled: the global `JwtAuthGuard` also stands before the
customers' routes, which are not marked `@Public()`, so that `cancel` is reached by whom both
guards let through (by everyone in `NODE_ENV=development`). What the runs show is shown of the handlers.

### PhotoUploads, UploadThenSave and ReservationBooking

`pc` follows `create()`: `uploading` (waiting on `Promise.all`), `saving` (number computed, INSERT
sent), `committed` (row in the table, acknowledgement under way), `cleaning` (roll-back deletes in
flight), `answered`, `dead` (its worker was killed). `ConnectionLost` is a failure of `save()` as the
handler sees it: before the row took effect, or after the commit. `number` is the reservation
number as a date and a sequence: `generate` and `extractSequence` are inverse on valid numbers, so
the string form adds nothing. A number counts as used on a date when a row found by `estimateDate`
carries a number that starts with that date.

`upload[r][p]` is what the process knows of a photo, `blobs` what the bucket really holds; the two
differ when an answer is lost. Photos settle on their own, also after their request was answered or
its worker died.

`UploadThenSave` is this frame without the table: `saved` is the set of requests whose row was
committed. What is special to booking is the number, between the uploads and the insert (`TakeNumber`,
`ReadFails`), and the unique index on it (`Taken`).

### ReviewPublishing

The same frame with two queries before the uploads: the reservation (`FindReservation`: it exists, is
the customer's, is completed) and a review of it (`FindReview`). Between them, and until the insert,
nothing is locked or looked at again. `target` is the reservation and customer of a request, `reviews`
the table; the unique index on `reservation_id` is `Rejected`. An administrator may delete any review
at any time (`Delete`). The reservations are not an environment made up for this module: they are the
variables of an instance of `ReservationStatus`, whose handlers take their steps in between
(`StatusStep`).

### CustomerSession

`customers` is the table of accounts, `stored` its `refresh_token` column. `pc` is where a handler is:
`insert` (a first login whose query found nobody), `compare` (a refresh whose token has verified),
`sign` (the row has been read), `update` (the UPDATE of the token is next), `stored`, `answered`. A
token is its account and its time of issue, in ticks: `generateTokens` signs nothing else that differs
between two calls, so two tokens of one account and one second are equal. `verify()` accepts a token
that was handed out and has not expired. `Users` are the values of `toss_user_id` (login derives it
from the first ten characters of the code). `Logout` may name any account: in production it is the one
of the access token, in development the one `findDevCustomer` picks. `Fail` stands for a query that
fails, an answer that is lost and a worker that dies: what was written stays.

Two history variables: `alone[r]`, no other request has written r's account since r last read or wrote
it; `ended[i]`, a logout of i took effect with no login or refresh of i under way.

### OpeningRules, BusinessCalendar and Availability

`config` holds the rows written by find-or-create and `save()`: the setting of each type and the
schedule of one service; a key outside its domain has no row. `holidays` and `serviceHolidays` are the
two tables of holidays; a row is known by the request that inserted it (its id). A handler is its
check (`AddHoliday`, `DeleteHoliday`), then its statement (`InsertHoliday`, `RemoveHoliday`), then the
list it reads for its answer (`Reply`). `save()` is `Find`, `Load`, `Write` as in `ReservationStatus`,
or `Create` when the query found no row. The holidays of a service are written in one statement each.
`Fail` stands for a failed query and for a worker that dies.

A query (`Ask`) reads the schedule, the holidays, the service's holidays, the setting and, for times,
the bookings of the date, each in a step of its own; `seen` is what it has read, `open` and `free` what
it answers. A query of times stops at the first reason it finds. History: `stood`, the holidays that
have been there ever since a request came, and `bookedBefore`.

A row is `IsRow` and a body `IsForm`: filled with the values the columns hold, and naming what its class
declares as required. `UpdateOperatingHoursDto` declares its nested objects without class-validator
decorators, so that nothing in the code rejects a body with other values in them; the model takes
clients to send what the class declares.

A date is a day number and a booking period a number of dates: months and time zones are left out.
The day view compares `new Date(date)`, midnight in UTC, with the server's clock; the model takes the
server's zone to be UTC or east of it, where both are the same calendar day. No handler writes
`construction_date`, so `Booked` is empty for that type.

### HttpRequests and the back office

`HttpRequests` has one record of control for each request: `pc`, the statement its handler issues next;
`job`, the operation and its arguments; `held`, what it keeps between two statements; `answer`; and
`earlier`, the requests that were answered when it arrived, from which `Overlap` follows. A step is one
database statement and the code up to the next `await`. `Begin` and `Serve` are a first statement,
after which there are more or not; `Continue` and `Answer` are a later one. Any statement may fail
(`StatementFails`): the handler throws. A row is named by the request that inserted it, `Nobody` for
those of the seed, so that an id never comes back by accident. Each area has the set of its jobs
(`FilmJobs`, `ServiceJobs`, ...): what the routes and the DTOs let through, with the data the
properties do not tell apart left out.

The areas EXTEND it with their tables and handlers. What they share is TypeORM's `save()` of an entity
that was read before, by now with one more fact than `ReservationStatus` needs:

- If `save()` does not find the row when it loads it, it *inserts* it, under the old id. That brings
  back rows another request deleted (`WriteFilm`, `WriteProject`, `WritePiece`, `WritePromotion`,
  `WriteUser`). An account's password column is not selected (`user.entity.ts`), so that an account
  comes back only if the update brings a password.
- If the entity was read with a relation, the relation wins over the id column beside it:
  `filmId` of a project or `iconId` of a promotion is checked and then not written.
- If it was read with a list of children, a child that is in the table and not in the list is to lose
  its parent. The columns are NOT NULL, so that the save fails (`WriteFilm`, `WriteService`).

`FilmOptimizer`: projects go with their film and pieces with their project (`DropProjects`, ON DELETE
CASCADE). The order of new pieces follows the highest one that was read (`NextOrder`), one INSERT for
all of them. `Promotions`: a click is one atomic `UPDATE ... + 1`; a `reorder` sends an UPDATE for
every promotion at once, which arrive one by one (`reorders` is what is on its way), also after
`Promise.all` was rejected by one of them, and update nothing where the promotion is gone or never was. The
orders it brings have no lower bound, unlike those of a create or an update
(`reorder-promotions.dto.ts:23-29`), so that an order is an `Int`, and the one after the last may be below
zero too. `PortfolioImages`: the uploads of one request settle in one
step here (`PhotoUploads` has them one by one), and a COMMIT may have been made although `save()`
rejects. `ServiceCatalog`: a transaction's writes are in `txn` until it commits; the others see what
is committed (READ COMMITTED). A DELETE first finds its rows (`FindRegions`), then waits for a
transaction that is deleting some of them (`DeleteRegions`); an UPDATE waits for the row; an INSERT for
an equal key in doubt. `create` of `ServicesService` is one step, because nobody can see or wait for a
row it has not committed. `AdminAccounts`: the guards are registered globally and again on the
controller, so that the sender's account is read twice before the handler runs.

`BackOffice` puts the six together. No handler writes a table of another area, and what it reads there
only lets a request in; that choice comes with the request as an input (the icon exists or not, and no
icon is ever deleted). A behaviour therefore concerns one area, chosen at the start, and the others'
tables stay empty; theorem `BackOfficeIsItsArea` says that it is then a behaviour of that area's own
specification, and what is shown of the one holds of the other.

## 3. Runs

| Run | Question | Bounds |
|---|---|---|
| `status_overlap` | What survives any overlap of any status handlers? | 3 requests, 1 row in any of the 4 statuses, 1 unknown id, 2 customers |
| `status_serial` | Do the validated handlers implement the life cycle? | 3 requests in sequence, 2 rows |
| `late_cancel` | Can a customer cancel a completed reservation? (violated) | 2 overlapping requests |
| `admin_final` | Does a final status stay final over HTTP? (violated) | 2 requests in sequence |
| `booking` | Do numbers, rows, objects and answers agree? | 2 requests in 2 workers, up to 2 photos each, 2 dates, seeded numbers 3 and 0 |
| `reviews` | Do reviews, objects, answers and the reservations' statuses agree? | 2 reviews of 1 reservation in 2 workers, up to 1 image each; 2 overlapping status requests over HTTP's handlers |
| `session` | What do overlapping logins, refreshes and logouts leave of a session? | 3 requests, one customer with an account and one without, clock 0 to 3, tokens live 2 ticks |
| `calendar` | What do overlapping administrators keep true of the holidays? | 3 requests, 2 dates, one of them possibly a holiday from the start |
| `availability` | Do the two queries agree, and see what stood while they read? | 2 requests, a Friday and a Saturday, schedules of every mode, today and tomorrow, a period of 3, 1 or 2 dates, 1 bookable time |
| `double_booking` | Is double booking prevented? (violated) | 2 requests, 1 photo, 1 time |
| `back_office` | What do overlapping requests to an area lose, and by whose overlap? | 3 requests to one of the six areas (2 to the services), 1 seeded row of each kind, up to 2 pieces, 0 or 2 images per request, 5 districts of three levels, 2 names, e-mails and user names |
| `failed_upload` | Does a portfolio keep its images when an upload fails? (violated) | 2 requests, 0 to 2 images |

Why the bounds are enough. The status hazards need a reader, a writer between its read and its
re-read, and a writer between its re-read and its UPDATE: three requests on one row give every such
order, and rows do not influence each other. In booking, two requests give every race for a number
(a third only repeats the race for the next one); two photos give partial success of the uploads
and of the deletes; two dates and two workers let a crash or a number concern one request and not
the other. Numbers seeded at 3 and 0 exercise the maximum and the edge at zero. The proofs remove
the bounds for every safety property of the modules proved about. In `reviews`, two authors' requests race for
the one review, and two status requests give every overlap that could mix a stale status back in; the
frame with two photos is already explored by `booking`. In `session` a lost update needs two
requests; the third sees what they left, or logs out between them. The clock passes the life of a token,
so a token can be replaced by a younger one, meet an older one or expire. In `calendar` a stale delete
needs three requests: it looks, another deletes, a third adds the date again. In `availability` a query
races one writer, and bookings and midnight in any number; the two dates differ in every set of days
a mode gives except `everyday`, and lie inside and outside the shortest period.

In `back_office` (3.6 million distinct states) the hazards need a save, a write that it misses, and a third
request that sees or undoes the result: three requests. The services have the longest handlers and the third
request to one of them would only repeat a race of two, as their properties are about one service and two
lists of regions; two requests give a transaction against each of the two writers and two writers without
one. Two images let some of them be deleted and others not; two pieces let one request leave a gap. The
districts have two provinces, with a city each and one district of the lowest level, and the lists name a
province, its city, both cities, or a district that does not exist.

What the violated runs show:

- `late_cancel`: cancel reads `confirmed`; an administrator completes the reservation; the cancel's
  `save()` overwrites `completed` with `cancelled`. `ERROR_MESSAGES.RESERVATION.CANNOT_CANCEL_COMPLETED`
  promises the opposite.
- `admin_final`: the admin service sets any status from any status; the route with the transition
  check is shadowed.
- `double_booking`: `create()` does not look at other reservations of the hour. `src/README.md:446-449`
  says double booking is prevented, by checking in real time and in a transaction.
- `failed_upload`: `update()` copies the array of old images and later tells "new" from "old" by
  identity, so that its catch always takes `portfolio.images` for the new ones. When the upload fails
  they are the old ones, and are deleted. The comment at `admin-portfolios.service.ts:152` says that only new
  images are cleaned up.

## 4. Properties

*ReservationStatus.* `NeverBackToPending`: however stale the columns written back, no reservation
returns to `pending`, since every handler replaces the status in memory. `StampsAreOwned`: a
confirmation or cancellation time found in a row was taken by a request that was to confirm or
cancel that row and has been answered. `UndisturbedIsFaithful`: a request whose row nobody else wrote
in between leaves what it computed, and a validated handler then moves along `validTransitions`.
`ImplementsLifecycle`: without overlap the validated handlers follow the abstract life cycle.

What does **not** hold, and is therefore not claimed: with overlap, `confirmed_at` of a confirmed
row can be erased by a stale null, and a cancelled row can lack `cancelled_at` or a live one can
have it. `updateStatus` never sets `cancelled_at`.

*ReservationBooking.* `NumbersAreConsecutive`: a row enters with a number of its date, one more than the
highest at that moment or the first, stated without the handler's own operators, although the list it was computed from may be old: the unique index
rejects a number taken in between, and none in between means the list is still right.
`PhotosOfRowsAreStored`: a row's photo is in the bucket, unless its own request set out to delete it
(a commit whose acknowledgement was lost). `OrphansAreExplained` lists the only ways an object can
stay without a row; two are paths out of `create()` with no roll-back (a failed sibling upload, and
the number query, which stands before the `try`). `AnswersAreTrue`: "ok" means exactly one row, as
asked, all photos stored; a failure before the save means no row. `EveryBookingEnds`.

*ReviewPublishing.* `OrphansAreExplained` and `AnswersAreTrue` as above, with the administrator's
delete as a further cause, and with at most one review per reservation. `ReviewedIsNotPending`: the
status a review was allowed on is stale at the insert, and a review of a cancelled or re-confirmed
reservation does come about; but none of a pending one, by any order of the handlers of both services.
Stronger statements ("a reviewed reservation is completed") do not hold and are not claimed.

*CustomerSession.* `EndedStaysEnded`: a logout that no login or refresh overlapped ends the session for
good; of all the tokens handed out before, none brings it back. `OkIsUsable`: who is told "ok" holds
the token that the next refresh accepts, until someone else writes the account. `AloneIsFaithful`:
overlap is the only way to lose a session, since a login or refresh that saw no other write
never replaces a token by an older one, and a refresh replaces the very token presented to it. `TypeOK`
says in addition that concurrent first logins leave one account (the unique index on `toss_user_id`,
not the query before the insert) and that an account stores only tokens of its own.

What does **not** hold: a logout between the comparison and the UPDATE of a refresh is undone by that
UPDATE; of two overlapping refreshes with one token both succeed, and the caller answered first may
hold a token that is dead already; the token stored can go back to an older one; within one second a
refresh hands out the token it was given.

*BusinessCalendar.* `AnswersAreTrue`: an added holiday is in the table until a delete that found it; a
deleted row never comes back, though the same date may. `LeavesByItsFinder`: a delete that looked
before a date was added again leaves the new row alone, because `remove()` deletes by id.
`CalendarTypeOK` says in addition that every row of hours and schedule keeps values its columns can hold,
whatever saves overlap, and that a date has one row of each kind, which the check before the insert
does not ensure and the unique indexes do.

*Availability.* `QueriesAgree`: the day view and the month view, two copies of the rules, open the same
dates from today on, on every calendar the handlers produce. `SlotsTile`: the slots start at opening,
follow each other at the slot's length, and end with one that begins before closing (it may end
after it). `StandingIsSeen`: a query is not a snapshot, yet a holiday that stood from its first read to
its answer closes its date, and a time booked before it came is not offered.

What does **not** hold: without a schedule the day view has no limit of the period, the month view
has (`reservations.service.ts:252, 571`); the day view never checks the past; a cancelled reservation
keeps its time from being offered (the query at line 412 does not look at the status); overlapping saves
of hours or of a schedule can leave the columns of one beside those of the other.

*BackOffice.* The handlers promise little when they overlap; what can be said is that nothing is lost,
undone or mixed up *unless* a listed overlap or failure happened, and that list is the content of the
properties. `LostClicksAreExplained`: the count of a promotion is the number of successful clicks, unless a
save of the promotion overlapped a click on it (no reorder, delete or create disturbs it).
`BrokenImagesAreExplained`: a portfolio names a missing image only after a replacement that failed or is
under way, an overlap of a replacement with another save, or an insert that was committed and reported as
failed. `LostRowsAreExplained`: a film, project or piece that was made with success is lost only to a
request that asked for its deletion, or for that of its project or film when this overlapped the project's
creation. `DeletedStaysDeleted`: what was deleted comes back only by a `save()` that overlapped the
deletion. `EqualOrdersOverlap`: pieces of a project share an order only if the requests that added them
overlapped, or if one of the two was brought back by a save that overlapped the deletion of the piece, of its
project or of its film. `RegionsAreExplained`: a service's regions are the list of one request, the last one that
succeeded, unless two replacing requests overlapped or one without a transaction stopped half way.
`LaterServicesComeLater`: a service with no order of its own comes after all that were there before, so that
two such services share an order only if their creations overlapped or an update gave one of them an order.
`ShownFeesAreStored`: grouping by province, which leaves out a city's fee when it equals the province's,
loses no fee of a row and invents none, on any rows the writers leave. `WritesStand`: toggles count modulo
two, a reorder stands, a piece that is not cut has no fixed position, an icon keeps its name, a deactivated
account is served no more, and the last login stays recorded, each until a later or an overlapping write.
`BackOfficeTypeOK` has the foreign and unique keys besides the types.

What does **not** hold: two toggles at once count as one; overlapping updates of a service in two
transactions leave the regions of both, or fail; an update of a film fails when a project was added
meanwhile; a piece that is set back to "not cut" by `updatePiece` keeps its fixed position; a deletion
can be undone, and a deactivation overwritten, by an update that was under way.

## 5. Fairness

Only booking has a liveness property: it is the one handler whose error path waits for calls that may
themselves fail. `WF` on each started handler's next step: a promise of the database driver or of the SDK
settles, with a value or an error, and the event loop runs the continuation. `WF` on puts and deletes in
flight. No fairness on the arrival of requests, on failures or on crashes. A connection that stays silent
for ever is outside the model.

## 6. Proofs

`tlapm` checks the theorems for every value of the constants (any number of requests, rows, photos,
workers and dates). Every safety property that a run checks, the refinement of the life cycle
included, is stated by a theorem.

- `ReservationStatusProofs`. `IInv` strengthens the invariants with: a request in progress holds an
  entity whose status is its goal, never `pending`, and whose times are its own or owned by others
  already (`Holds`); an undisturbed request still sees the row it read (`Faithful`); a request that
  has not started has left no trace (`Tidy`); when `Serial`, at most one is in progress (`Alone`).
  `StampsAreOwned` alone is not inductive: a write merges columns
  of an entity, so what entities hold must be owned too. From `IInv` follow `TypeCorrect`,
  `StampsOwned`, `NeverBack`, `Undisturbed` and, with the refinement mapping,
  `SerialServiceImplementsLifecycle`.
- `UploadThenSaveProofs`. `FrameInv` ties a request's phase, commit and answer to each other (`FlowInv`)
  and a photo's state to them and to the bucket (`PhotoInv`). `FrameKeepsInv`: every step of the frame
  keeps it. `UnsavedOrphans`: under it, an object is explained unless its request was answered "ok".
- `ReservationBookingProofs`. Booking's steps are steps of the frame (`BookingIsFramed`), so `FrameInv`
  holds. `NumberingInv`: each date's sequences have a highest element, and the number a saving request
  holds is *taken already or exactly the next one*. That disjunction is the heart of the argument: it
  survives inserts by others, and the index excludes its first half at the insert. `TableInv`: one row
  for each request that committed, the one it asked for. From them follow `TypeCorrect`,
  `NumbersConsecutive`, `PhotosStored`, `OrphansExplained`, `AnswersTrue`.
- `ReviewPublishingProofs`. Each step is a step of the frame, of the status handlers, or of neither
  (`PartsStep`), so both components' invariants hold with no new argument. `ReviewInv`: whoever is past
  the first check names a reservation of its customer that has left `pending`; it is inductive because
  no status step goes back (`StepNeverBack`, from `ReservationStatusProofs`). From them follow
  `TypeCorrect`, `OrphansExplained`, `AnswersTrue`, `NoPendingReviewed`.

- `CustomerSessionProofs`. `ReqInv`: what a request holds is its own account's, and while it is `alone`
  the stored token is still the one presented (refresh), not younger than the one signed, or the one
  written. `IdInv`: an ended session stores nothing *and nobody is about to write to it*; the second
  half makes it inductive, as no refresh can start on an account that stores nothing. `AccountsStarted`
  (only a login under way can create an account) gives the freshness that the uniqueness of accounts
  needs. From them follow `TypeCorrect`, `LogoutEnds`, `AnswersUsable`, `AloneFaithful`.

- `BusinessCalendarProofs`. `Flow` ties a phase to the request and to the row in memory. `HolidayInv`:
  every holiday in the table, and every row a delete has found, is of a request that cannot insert again
  (`Settled`); that is why a row once deleted stays so, and it is what `AnswersAreTrue` lacks to be
  inductive. Each step is an insert, a removal, a find, a reply or none of the holidays' business
  (`StepKinds`). From them follow `TypeCorrect`, `AnswersTrue`, `LeavesByFinder`.

  `AInv` adds the queries. The handlers do not know of them and keep it (`CalendarKeeps`), and a
  query writes no table (`StaysAQuery`). `Standing` says, read by read, where a holiday
  that has stood since the query came is by now: still in a table that is to be read, or among the
  dates found closed. It makes `StandingIsSeen` inductive, which speaks only of the answer. From `AInv`
  follow `AvailabilityTypeCorrect`, `StandingIsAlwaysSeen` and, as every row is typed, `QueriesAlwaysAgree`:
  the two copies of the rules come to the same days (`SameDays`) from any typed rows. `SlotsAlwaysTile` is about
  the loop of `generateTimeSlots`, a recursive function. Its closed form (`SlotsAreVisited`: the times
  the loop visits before closing) is shown by a least counterexample: among the times at which function and
  closed form part, the one nearest to closing has a next turn (`OneTurn`) nearer still. The least
  element is from `WFMin`, which takes a set where the induction theorems take an operator.

- `BackOfficeAreas`. `HttpInv` is the frame's own invariant; whatever the handlers do, a step
  starts a request or goes on with one (`Starts`, `Goes`), and overlaps are decided when the later of
  two arrives: a newcomer overlaps exactly those in progress (`StartOverlaps`), later steps decide nothing
  (`GoOverlaps`), and two that are in progress overlap (`InProgressOverlap`). So an excuse, once there,
  stands, and every argument below has one shape: *unless excused*, the row agrees with what was asked,
  and so does whatever a request holds that it may yet write. The second half is what the properties
  lack to be inductive. Each area has first its types (`FilmInv`, `ServiceInv`, ...), then a summary of what an
  arriving request and a later step may change (`FilmStarted`, `FilmWent`, ...), then a lemma for each
  part and kind of step.
  - *Films* (`FilmHistory`). `Lineage`: rows were inserted by the request they are named after, and a
    project stays with its film. `DeletedFilmRows`: a deleted row is there, *or in the hands of a save*, only for an
    overlapping save. `LostFilmRows`: a row that is gone was asked to go, and so was every project a
    film's DELETE is about to find. `PieceOrders`: a batch about to be inserted starts above every piece of
    its project that did not overlap it or come back. `Positions`: a piece or a copy of
    one has a fixed position without being cut only for a listed reason.
  - *Services* (`ServiceHistory`). The types include what open transactions have written: if one
    committed now the unique key of the regions would hold (`After`), and no two of them have inserted an equal
    key (`Apart`). `OrdersHeld`:
    who holds a row whose order nobody was asked to change holds the order it has. `OrdersAscend`:
    the order a creation is about to insert is higher than that of every service there before it, by
    `MaxOrderIsHighest`. `RegionsFollowed`: while nothing disturbs a service's regions, whoever is replacing
    them has got exactly as far as its phase says (`RegionsInHand`), and when no writer without
    a transaction is at work they are those of the last list. The fees need no history: by
    `ServiceInvShowsFees` the grouping keeps them on any rows of the types.
  - *Icons* (`IconHistory`): a name given is in the row and in every copy an update holds (`NamesAgree`).
  - *Accounts* (`AccountHistory`). `StatusesAgree`, `ServedAreExcused` and `LoginsAgree` follow a status, and a
    login time, from the request that wrote it into the row and into the copies; `EmailsKept` is what makes a
    login with an account's e-mail one of this account; `DeletedAccounts` follows the copies that
    carry a password, which alone can bring an account back.
- `BackOfficeProofs`. *Clicks.* `PromotionInv`: on a promotion no save of which has overlapped a click
  (`Clean`), the row counts the successful clicks, *and so does every copy a save in progress holds*
  (`Exact`). `Clean` can only be lost, and while it lasts no click takes effect beside a save.
  Rows that a save inserts again are exact for the same reason. *Images.* `PortfolioInv`: while nothing
  has happened to a portfolio that would excuse a missing image (`Trusted`), its images are stored or a
  replacement whose images are stored is about to be saved, and every other save holds the images the
  row has (`Sound`). It is inductive because every image has one portfolio (`OwnerOf`), so that
  requests to others delete nothing of it, and because in a trusted portfolio a replacement in progress is alone
  (`ReplacesAlone`). *Their history.* `PromotionHistory`: a promotion's state is that of the toggles counted,
  and a save under way holds it or its inverse (`TogglesAgree`); an order is in the row and in the copies
  once the reorder's UPDATE has come to it (`ReordersAgree`). `PortfolioHistory`: what was hidden stays so
  (`DeletedPortfolios`).

  `BackOfficeIsItsArea` then carries everything from an area's specification to the whole's, the
  tables of the other areas being empty: `BackOfficeTypeCorrect`, `LostClicksExplained`,
  `BrokenImagesExplained`, `EqualOrdersExplained`, `LostRowsExplained`, `RegionsStayExplained`,
  `ServicesStayInOrder`, `FeesShownAreStored`, and `DeletionsStand` and `SavesStand`, which are about several areas
  each.

One property was wrong, and its proof showed it: `EqualOrdersOverlap` once excused a piece that was brought back
only by an overlap with its own deletion. The invariant could not be kept when the piece went with its project or
film and the save brought it back; the counterexample takes four requests, one more than `back_office` has,
and TLC confirmed it on an instance made for it. The property now names all three deletions
(`RemovalsOfPiece`).

Assumptions: `WorkersAssigned`, `StatusConstants`, `BookingConstants`, `ReviewConstants`,
`SessionConstants`, `CalendarConstants`, `RequestConstants`, `FilmConstants`,
`PromotionConstants`, `PortfolioConstants`, `CatalogConstants`, `IconConstants`, `AccountConstants` and
`ArrivalsAssumption` (kinds of the constants), `DaysAreCounted` (dates are numbers), `PeriodIsPositive` (the
default period is some months), `SeedsBounded` (the seeded numbers of a date have a highest
one, true of every finite seed), and that the value `Nothing` is none of the things it stands for the lack of
(`NothingIsNoNumber`, `NothingIsNoTransaction`, `NothingIsNoFilmJob` and its like in every area).
TLC evaluates them in the passing runs.

Only model-checked: `EveryBookingEnds`, as fairness and `ENABLED` are out of the prover's reach.

## 7. Plan

The modules of the first plan are written: service catalogue, portfolios, film optimizer, promotions,
icons and accounts, and their safety properties are proved. What is left, in this order:

1. The stand-alone upload routes of the files controller, over `PhotoUploads`.
2. The overlap of two saves of the operating hours (`settings.service.ts:118`), for which no property is
   stated: what can be said is of which requests the columns of a row come.

## 8. Not modelled, and why

- Failures of the database in the status handlers: their only write is one UPDATE, so a failure is
  the same as a request that never came, with another answer.
- A statement that takes effect although its answer is lost: modelled for the inserts of bookings, reviews
  and portfolios, where files depend on it. In the other handlers a statement that fails
  has had no effect (`StatementFails`), so that a caller told "error" may have been served after all, and what
  is said of counts and lists (`LostClicksAreExplained`, `RegionsAreExplained`) is said of
  connections that do not break between a statement and its answer.
- Text: messages, formatting, Swagger metadata, logging. Validation of request bodies is in the sets
  the inputs range over. `create-reservation.dto.ts` lets through dates that do not exist; the query
  then fails after the uploads (`ReadFails`).
- Equal object keys: `generateUniqueFilename` joins a millisecond and six random characters; keys are
  taken to be distinct.
- Image processing (`sharp`): it succeeds or rejects, as part of `PutSettles`.
- Address search (external API), dashboard (fixed data), health, phone formatting (unit-tested string
  functions), the unused transaction interceptor, seeds beyond the reservations they leave.
- Read-only lists.
- Districts. `importFromFile` empties the table before it inserts (`districts.service.ts:216`), by
  `clear()`, which TypeORM sends as TRUNCATE. PostgreSQL refuses to truncate a table that
  `service_regions` references, so that an import on this schema ends there and changes nothing. The
  rest is the conversion of a file's columns and lists.
- `POST admin/services/update-order`: it stands behind `POST admin/services/:id`
  (`admin-services.controller.ts:67, 90`), which takes the request and rejects "update-order" as an id.
- `NODE_ENV=development`, in which guards let everyone pass; the customer guard, which only lets a
  request in; guards in front of the areas other than the accounts.
- Columns no other handler reads: titles, sizes, colours, links, the stored packing of a film, the period
  of a promotion. Two requests that write different ones of them do not disturb each other, as `save()`
  writes columns (`OrmSave`), and what happens to those that are kept happens to them too.
- Deadlocks between transactions: PostgreSQL ends one of them with an error, which is among the failures
  (`Violation`) of every step in progress.
