# Verification of the laboratory booking server

TLA+ modules, TLC configurations and TLAPS proofs for the booking server in
`src/` (C, SQLite, CivetWeb): reservations, waitlist, credit, the
administrator's operations, the sweeper thread, request receipts and
notifications, accounts with their credentials and limits, and equipment.

## 1. Inventory

The server is one process. CivetWeb worker threads handle requests, one
background thread sweeps, one makes backups. They share nothing but a SQLite
database in WAL mode; each thread has its own connection. A handler that
changes bookings opens `BEGIN IMMEDIATE`, so the database runs these handlers
one at a time. The exceptions are what is interesting: the first half of a
sweep runs outside a transaction, lists are read before the transaction that
uses them, and the session is looked up before the handler's transaction.

| component | state | operations | correct when |
|---|---|---|---|
| bookings and waitlist (`booking.c`) | `reservations`, `waitlist` | reserve (with eviction and promotion), wait, cancel, withdraw, checkin, checkout, confirm, reschedule, batch, approve/reject, force-complete/force-cancel, `promote_fill` | no slot oversold, nobody in two places at once, queue served in order and never overtaken, freed seats offered, attendance never undone, finished rows never changed |
| credit (`token.c`) | `users.credit`, `credit_ledger` | `credit_apply`, `credit_weekly_topup`, grant | balance within 0..CREDIT_BASE, ledger explains it |
| sweeper (`service.c`, thread in `http.c`) | none of its own, remembers lists across transactions | expire overdue holds and offer their seats; release no-shows | nothing released early, nothing confirmed or attended undone, everything overdue released in the end |
| slots and laboratories (`asset.c`, `http.c`, `db.c`) | `slots`, `labs` | `slot_update`, laboratory update, publish | capacity never below the seats taken |
| user administration (`service.c`) | `users.enabled`, `sessions`, `api_tokens` | disable, enable, reset-password | a disabled account gets no seat and keeps no credential |
| request receipts (`booking.c`) | `request_receipts` | written with the result of a request, replayed on a retry | a retry has no second effect and the first answer |
| assets (`asset.c`, `booking.c`) | `assets`, `asset_claims`, `asset_windows`, `asset_maintenance`, `qualifications` | claim with a reservation, re-check on reschedule and approve, maintenance | no asset claimed beyond its total in overlapping hours |
| sessions and login (`http.c`, `token.c`) | `sessions`, `api_tokens` | register, login, logout, password change, tokens | a revoked credential is never accepted |
| notifications (`service.c`) | `notifications`, `outbox` | notify in the transaction, dispatch after it, remind | what `notify()` writes in a transaction is sent at least once |
| database layer (`db.c`) | connections, statement cache | open, migrate, check, backup, restore | transactions are whole or not at all |
| rate limiter (`ratelimit.c`) | token buckets, login failures | gate, allow | limits hold under concurrency |
| statistics, metrics, log, utilities, start-up | counters, text | read | - |

Interactions: every operation that frees a seat calls `promote_fill` for the
slot in the same transaction; reserve calls it before it takes a seat itself;
the sweeper calls it twice, once outside a transaction. `booking()` reads
credit, strikes and quota before it grants; attendance, eviction and no-show
change credit. An administrator's capacity change, laboratory switch and
account switch change what the next request and the next promotion see.

What is hard to test here: long legal sequences across these operations
(promote, then move, then check), requests between two statements of the
sweeper, sweeps cut short, boundaries of windows and deadlines, the order of a
queue whose rows are passed over and come back; replies lost after a commit and
retries of what was done; an account disabled while one of its requests
verifies a password; two administrators at one asset. `PROJECT.json` lists each
hazard at its line.

## 2. Plan

Written, in this order:

1. `LabState` - the tables, the queries on them, the credit rules and the
   promotion, in one expression and as the loop of the code, as operators on the
   rows they read. No actions: every component that runs transactions on these
   tables extends it.
2. `Booking` - the requests as actions, and the properties of the tables.
3. `MCBooking` - instances for TLC.
4. `Sweeper`, `MCSweeper` - the sweeper's statements interleaved with the requests.
5. `LabStateProofs`, `BookingProofs`, `QueueProofs`, `SweeperProofs` - lemmas on
   the promotion; the theorems on the tables and on what may become of a row;
   those on the queue and on where a user may be; those on the sweeper beside
   the requests.
6. `FirstResult`, the abstract promise of the receipts, and `Receipts`, the
   requests with their receipt table, lost replies and crashes, shown to
   implement it; `ReceiptsProofs`.
7. `Outbox` - notifications, their outbox rows and the dispatch.
8. `Delivery` composes 6 and 7 and states what is eventually delivered;
   `MCDelivery`, `DeliveryProofs`.
9. `RateLimit`, the table of guards and buckets as operators, and `Accounts`,
   which extends it with accounts, sessions, tokens and the workers that serve
   their requests; `MCAccounts`, `AccountsProofs`.
10. `Assets` extends `Booking` with equipment, claims and maintenance; `MCAssets`,
    `AssetsProofs`.

How they are composed:

    LabState <- Booking <- Assets <- MCAssets
                        <- Sweeper <- MCSweeper
                        <- MCBooking
    FirstResult <= Receipts <- Delivery <- MCDelivery       (<= is implemented by)
                   Outbox   <-
    RateLimit <- Accounts <- MCAccounts

Next, most important first:

11. An abstract `Slot` (seats and a queue, without tables) that `Booking`
    implements under a refinement mapping.

## 3. The model and the code

**Tables.** `resv` and `waits` are sequences whose index is the AUTOINCREMENT
id; rows are never deleted within the time the model covers. The other tables
are functions from the key. The columns kept are the ones a guard or a property
reads; notes, notifications, events and JSON answers are left out. A deadline
that is NULL is 0. `created_at` of a reservation is read only of promoted rows
and is 0 in the others. The ledger is reduced to `toppedUp`: whether it has a
WEEKLY row of this week.

**Time** is `now`. A handler reads the clock a few times within milliseconds of
its transaction; the model reads it once. `Tick` lets time pass between
transactions, and forgets the WEEKLY rows when a week begins.

**Requests.** One action per handler. A handler that refuses before it changes
anything leaves no trace in these tables and is not a step. One that refuses
later still commits (label `save` of `booking()`): a refused reserve may have
topped up the balance, promoted waiters or evicted somebody, and that is what
`Reserve`, `Admit` and `TakeOver` do. A failed batch rolls back. The approval
of several bookings in one transaction is a sequence of `Approve` or `Reject`
steps, whose order with other requests the properties do not tell apart.
Whether a request that refuses or repeats also commits matters in `Receipts`.

**Promotion.** `promote_fill` promotes one waiter at a time until the slot is
full or nobody can come. `PromoteFill` gives its result in one expression: the
first `Free` rows of the executable part of the queue, in scan order. This is
right because a user waits at most once for a slot, so promoting one waiter
never changes whether another one clashes. `LabState` also writes the loop
itself (`Scan`, `Promote`, `Loop`), and `FillIsTheLoop` says that the two agree in
every state, and in those a transaction goes through when a row has given up its
seat. The runs check it for the executable and the weighted strategy,
`PromotionIsTheLoop` proves it for all.

**Sweeper.** `ListHolds`, one `Expire` per listed hold, then `Pick`, `Grant` and
`Link` for each promotion: the statements the code runs in autocommit mode.
The queries of `promote` are one step (`Pick`); the two writes that use their
result come later, after any number of requests. `ListNoShows` reads the due
list before the transaction, `Release` is that transaction: it goes through the
list row by row (`ReleaseOne`, `Released`), in any order, as the query has none.
`Fail` ends a sweep anywhere, for an SQL error, `SQLITE_BUSY` or the death of the process; a
transaction that has not ended is undone. The next sweep starts from the lists
again.

**Administration.** `SlotUpdate` takes the new capacity and switch together: a
request that names only one of them is the case where the other stays.
`CreditGrant`, `LabUpdate`, `Disable` and `Enable` are as in the code; what
`Disable` does to session and token rows is in `Accounts`.

**Receipts.** There are three kinds of handlers. `booking()` looks its receipt
up first and repeats it (`Replayed`; `Replay`). `checkout`, `reschedule` and the
approvals only insert one (`Written`): a second request with the id does its
work, meets the primary key and is rolled back and answered 500 (`Collide`).
The others keep none, announcements among them. A transaction is one step: `Act` commits effect and
receipt together, `Fail` nothing. What is around it is apart: a request waits in
`inbox`, its reply in `replies`, a client sends again what was not answered
(`Retry`), and takes neither a failure nor a refused session for the answer
(`TryAgain`: `mutation` of `web/app.js` keeps the request and its id on 0, 500,
503 and 401). `Lose` drops a reply, `CrashReceipts` everything that is not in the
database. What a request does in `Booking` is reduced to two outcomes, and the
rows its result quotes to `version`, the count of effects so far: two runs of
one request at different moments give different results, so a replay that
recomputed its result would be noticed.

**Notifications.** `Notify` is `notify()` in the transaction of its caller.
`NoticeHold` and `QueueHold` are the same function where `sweep_once` calls it
outside a transaction, for an expired hold and for the promotion after it, as two
commits; the second INSERT may fail. `Announce` is `admin_notify()`, which writes
`notifications` itself, for all its recipients in one transaction, and nothing to
`outbox`. `outbox_dispatch` reads a batch of unsent
rows (`ListUnsent`), then appends each to the file (`Send`) and updates its row
(`Mark`). The batch is the set of their ids; since the query orders by id, the
next row is the least that is left. The append may be reported to fail with the line written or not,
since `fclose` may be what fails. `Delivery` lets the transaction that does
the work of a request write its notifications too (`Commit`, `Tell`), and lets a crash
take the workers, the connections and the dispatch at once.

**Accounts.** A worker holds what it has read. `LoginBegin` is the gate and the
SELECT, `LoginRight` or `LoginWrong` the end of the verification, `OpenSession`
the INSERT; `RegisterBegin` and `Register` are the two halves of a registration;
`Accept` is what `dispatch` does before any handler, and the handlers are one
step each but for the password change, which verifies (`VerifyOld`) before its
transaction (`Change`). `era`, and the fields `read` and `era` of a row, are
history: how many revocations an account has seen, at the insertion of the row
and when its request read the account. The limits are those of `RateLimit`. The
level of a bucket counts seconds where the code has a fraction of a token, so
nothing is rounded. The table has `TableSize` entries for guards and buckets
together; whoever finds no room is let pass, as in the code.

**Equipment.** `ReserveClaiming` is `Reserve` of `Booking` together with its
claims, which the code tests last. `TurnedAway` is the request that is refused
at that point: its eviction and promotions are committed. `RescheduleClaiming`
and `ApproveClaiming` look at the number of copies again, and at nothing else,
as the code does. The maintenance requests look for an open order before their
transaction begins (`LookToOpen`, `LookToClose`, what is found stays on a
`desk`) and write later (`OpenOrder`, `CloseOrder`). `disturbed` is history:
assets whose status was written over an open order, or whose maintenance
requests overlapped.

### Abstractions and bounds

| name | stands for | why it is enough |
|---|---|---|
| `MaxTime` | the clock stops | time passes the start and the end of slots, deadlines and windows: slots start at 1 and 2 and windows are 1 long |
| `MaxReservations`, `MaxWaits` | rows of the two tables | 2 or 3 of each: a seat, its successor and a competitor; a request that would exceed them is not taken. Promotions of the sweeper may exceed the first |
| `MaxCapacity` | 200 in the code | 2 distinguishes full, one free and more than one free |
| `MaxBatch` | 8 in the code | 1 in the runs (a batch of one has all the interactions with others), any number in the proofs |
| `InitialCapacity` | `slots.capacity` at the start | 1 as in `db_seed`; `assets` begins with one slot of 2 instead of spending a step on it |
| `MaxFailures` | sweeps cut short | 1: liveness needs failures to end, safety needs one at each place |
| `MaxCopies` | copies of one request under way, replies included | 2: an old copy beside the retry |
| `MaxVersion` | effects committed | 2: the effect of a request and one that comes between it and its replay |
| `MaxFaults` | failed transactions, refused sessions, lost replies, misused ids, crashes | 1 in the run, any number in the proofs |
| `MaxNotes`, `Batch`, `MaxSlips` | notifications, rows of a dispatch (100), steps of the sweeper thread that go wrong | 2 notifications with batches of 1, so that one waits for the next dispatch; 1 slip, as for sweeps |
| `TableSize` | 1024 | 2 with three keys that want an entry: the table is full and somebody is let pass |
| `MaxFails`, `Lockout`, `Burst`, `Refill`, `Ttl` | 5, 900, 30 (or 20), 1 (or 30), 7200 | 1 or 2: a lock, an empty bucket and an expired session are reached within `MaxTime` |
| `MaxIds`, `MaxEra` | sessions and tokens inserted, revocations of an account | 3 and 2: the seeded session, a session or token each from before and after a revocation; a second revocation |
| `Visitors`, `Requests` (of `Accounts`) | who logs in, what sessions ask for | one visitor beside the administrator, who asks for everything of each kind |
| `MaxTotal`, `MaxWindows`, `MaxClaims`, `MaxOrders` | copies of an asset (999), windows, claims of a reservation (5), maintenance orders | 2 copies: one, the last and one too many; 2 orders: two open at once |
| `MaxWork` | rows and edits of a behaviour of `Assets` | 4: an asset, a claim, and two steps that disturb it |
| `CreditBase`, `Aging` | 5 and 60 log2(1 + hours) | the clamp and the comparisons of scores |

The tables begin empty with capacity 1, as `db_seed` leaves them.
`InitialCredit` lets an account begin with a balance of the past (a strike
before the modelled slots), `InitialApproval` names laboratories whose switch
an administrator has set before. `Requests` is the set of requests clients
send: a run leaves out requests that its properties are not about, or that a
violation run shows to break them (`reschedule` and `batch` in `booking`).

## 4. What the runs show

Every action is taken in some passing run; each property has a mutant of the
code that breaks it (`PROJECT.json`).

| run | instance | properties |
|---|---|---|
| `booking` | administrator and two users, two laboratories at the same hour, capacity 1, executable strategy, no holds | `TypeOK`, `NoDoubleBooking`, `PromotedLink`, `WaitersUnseated`, `AttendanceStands`, `FillIsTheLoop`, `NoQueueJumping`, `EvictionKeepsSeatTaken` |
| `capacity` | three users, two consecutive slots of one laboratory, capacities 1 and 2, bookings move | `SeatsWithinCapacity`, `FreedSeatOffered`, `PromotedInOrder` |
| `approval` | administrator and two users, one slot with approval, held promotions, weighted strategy, accounts switched off and on | `SeatsWithinCapacity`, `FillIsTheLoop`, `HistoryFrozen` |
| `sweeper` | two users, one slot that outlasts its check-in window, held promotions, one failed sweep, three rows so that the slot can be oversold | `AttendanceStands`, `HoldExpiresLate`, `OversoldOnlyByGrant`, `OverdueHoldReleased`, `NoShowReleased` |
| `delivery` | one request id, three kinds of requests: one notifies, one announces, one does neither; one fault, one slip of the sweeper thread | `ReceiptTypeOK`, `AtMostOnce`, `DoneIsDurable`, `OutboxTypeOK`, `SentIsWritten`, `CopiesExplained`, `NotesQueued`, `ReturnsFirstResult` (refinement), `AskersAnswered`, `NotesDelivered` (liveness) |
| `accounts` | an administrator, a visitor, two workers, two passwords, a table of two entries | `AccountsTypeOK`, `RevocationComplete`, `StaleOnlyIfRaced`, `MissesBounded`, `BurstsBounded`, `PasswordChangeRevokes` |
| `assets` | administrator and two users, two hours of one laboratory (with approval) and one of another, a microscope with up to two copies, two desks | `AssetsTypeOK`, `ClaimsInLab`, `MaintenanceHolds`, `QuotaRespected`, `FreedSeatOffered` |

Users without a role are symmetric except in `sweeper`, whose liveness
properties rule symmetry out. `CHECK_DEADLOCK FALSE` is set because the clock
and the tables are bounded: a run may come to an end where the server would
go on.

**Fairness.** Only the sweeper is fair: `WF_allVars(Sweep)`. Its thread loops
until the server stops and sweeps every `--sweep-interval` seconds, and each of
its steps is enabled until it is taken. Nothing is assumed of users,
administrators or the clock. Failures are bounded, since a sweep that always
fails releases nothing. `OverdueHoldReleased` and `NoShowReleased` therefore say
that a failed sweep loses no overdue row, not that failures stop.

`DeliverySpec` is fair to the workers (each waiting request is served: CivetWeb
has a thread for it), to the connections (each reply arrives unless it is lost,
and an answer that settles a request is not for ever behind its failures), to
the sweeper thread, and to clients that keep asking: the page remembers an
unanswered request with its id and offers to send it again (`web/app.js`), and a
503 asks for that. A client that gives up is outside `AskersAnswered`. `AskersAnswered` is stated for
`booking()` alone; a retry of the other handlers is never told a result
(below). Faults are bounded, for the reason given above.

**Violations.** Five runs check something the documents or the code assert and
TLC shows that the program does otherwise:

| run | statement | what happens |
|---|---|---|
| `oversell` | capacity is guarded within one writer transaction (`docs/CONTRACT.md:46`, `:112`) | the sweeper counts a free seat, a reserve takes it, the sweeper grants it as well (`service.c:221`) |
| `noshow` | a promoted booking must not be overdue before its window ends (`docs/CONTRACT.md:42`) | the sweeper counts from the promotion even when the slot starts later (`service.c:227` against `booking.c:154`) |
| `batch` | a batch checks overlaps (`docs/CONTRACT.md:87`) | bookings within the hours of the batch are left out, in other laboratories too (`booking.c:618`) |
| `reschedule` | a promoted waitlist row leads to a reservation of its slot (`db.c:317`) | a promoted booking is moved, the row is not (`booking.c:472`) |
| `leadtime` | the lead time closes reservations and waits (`docs/CONTRACT.md:90`) | it closes check-in as well (`booking.c:166`) |

The violation runs use the same modules; only requests and switches differ.

**Other disagreements** that the models contain and the passing runs state
around; each is a hazard of `PROJECT.json`:

- `db_check` and `docs/CONTRACT.md:129` say that a disabled account has no API
  token left. `token_create` inserts after the account was found enabled, so a
  disabling in between leaves one (`token.c:32`). `StaleOnlyIfRaced` says that
  this race is the only way.
- `docs/CONTRACT.md:47` says that the same id and arguments return the original
  result. A retry of checkout, reschedule or an approval is answered 500
  (`booking.c:419`). `ReturnsFirstResult` says that a result, when there is one,
  is the original; `AtMostOnce` that nothing happens twice.
- A reserve request of an administrator that is refused for a claim has evicted
  somebody nevertheless, and keeps that (`booking.c:252`). `FreedSeatOffered`
  says that the queue is offered the seat.
- An update of an asset that names no status makes it AVAILABLE, also under
  maintenance (`asset.c:77`), and two maintenance requests at one time can leave
  an order open on an asset that is AVAILABLE (`asset.c:127`).
  `MaintenanceHolds` says that these are the only ways.
- The outbox is described as the channel that notifications are sent by
  (`db.c:290` and line 93 of the repository's `README.md`). `admin_notify()`
  inserts into `notifications` without it (`service.c:129`, `:139`), so
  announcements are never in the notify file. `NotesQueued` says so, and that nothing else written in a transaction is
  left out.
- By `docs/CONTRACT.md:60` a user cannot hold two bookings that overlap. An
  approval does not test for it again (`booking.c:527`): a user who waits for an
  approval and is booked elsewhere meanwhile ends with both. `NoDoubleBooking` is
  checked and proved without approvals.
- With the strict strategy a waiter who stands behind one that cannot come may
  reserve the idle seat directly. The WAITING row stays (`booking.c:269`), and
  `db_check` rejects a user who waits for a slot and is confirmed in it
  (`db.c:316`). `WaitersUnseated` is checked with the executable strategy; with
  `Strategy = "strict"` in `booking.cfg` TLC finds this in seven steps.

**Read with care.** The weekly quota, the daily limit of waits, the lead time
and the strict strategy are in the model and in the proofs, but switched off in
the passing runs. `NoQueueJumping` and `WaitersUnseated` hold for reserve, wait
and promotion; batch, reschedule and approve give out seats without asking the
queue, and the contract does not say they should. `EvictionKeepsSeatTaken` is
about laboratories without approval: with it, the evictor's row is PENDING and
holds no seat. The run of `PromotedInOrder` has neither an administrator nor
overlapping slots: that priorities are obeyed, and that only those are passed
over who may not come, rests on the theorem `PromotionsInOrder`. `MissesBounded` and `BurstsBounded` are about keys that have an
entry in the table; the rest is let pass. `NotesDelivered` is about what
`notify()` wrote in a transaction: announcements never reach the file, and a
notice that the sweeper writes on a hold, or on the promotion after it, may lose
its outbox row to a crash or a failed INSERT, which `NotesQueued` counts.

## 5. What is proved

For all values of the constants, every size of the tables and any number of
requests, clients, workers and faults:

| module | theorem | statement |
|---|---|---|
| `BookingProofs` | `TypeCorrect`, `NeverOversold` | `Spec => []TypeOK`, `Spec => []SeatsWithinCapacity` |
| | `AttendanceHolds`, `HistoryHolds` | `Spec => []AttendanceStands`, `Spec => HistoryFrozen` |
| | `LinkHolds` | `Spec => []PromotedLink`, if no request moves a booking |
| `QueueProofs` | `NowhereTwice` | `Spec => []NoDoubleBooking`, without approvals and batches |
| | `NobodyWaitsSeated` | `Spec => []WaitersUnseated`, without approvals, batches and moves, unless strict |
| | `QueueComesFirst` | `Spec => NoQueueJumping`, without batches, unless strict |
| | `FreedSeatsOffered` | `Spec => FreedSeatOffered`, unless strict |
| | `PromotionsInOrder` | `Spec => PromotedInOrder`, unless weighted |
| | `EvictionsMoveSeats` | `Spec => EvictionKeepsSeatTaken`, if no laboratory asks for approval |
| | `PromotionIsTheLoop` | `Spec => []FillIsTheLoop` |
| `SweeperProofs` | `SweptTyped`, `SweptAttendance` | `SweepSpec => []TypeOK`, `SweepSpec => []AttendanceStands` |
| | `HoldsExpireLate` | `SweepSpec => HoldExpiresLate` |
| | `OversellingExplained` | `SweepSpec => OversoldOnlyByGrant` |
| | `OversoldByOne` | `SweepSpec => [](\A s \in Slots : Free(resv, s) >= -1)` |
| | `SweptLinks` | `SweepSpec => []PromotedLink`, if no request moves a booking |
| `AssetsProofs` | `AssetsTyped`, `ClaimsStay`, `MaintenanceStands` | `AssetsSpec => []AssetsTypeOK`, `[]ClaimsInLab`, `[]MaintenanceHolds` |
| | `SeatsWithClaims` | `AssetsSpec => [](SeatsWithinCapacity /\ AttendanceStands)` |
| | `QuotasHold` | `AssetsSpec => QuotaRespected` |
| `ReceiptsProofs` | `ReceiptsTyped` | `ReceiptSpec => []ReceiptTypeOK` |
| | `OnceOnly`, `DoneStays` | `ReceiptSpec => []AtMostOnce`, `ReceiptSpec => []DoneIsDurable` |
| | `ReceiptsImplementFirstResult` | `ReceiptSpec => ReturnsFirstResult` |
| `DeliveryProofs` | `DeliveryOnceOnly`, `DeliveryDoneStays`, `DeliveryReturnsFirstResult` | the same of `DeliverySpec` |
| | `OutboxTyped`, `SentOnlyWhenWritten` | `DeliverySpec => []OutboxTypeOK`, `[]SentIsWritten` |
| | `CopiesAreSlips`, `NotesHaveRows` | `DeliverySpec => []CopiesExplained`, `[]NotesQueued` |
| `AccountsProofs` | `RevocationHolds`, `StaleHolds`, `PasswordHolds` | `AccountsSpec => []RevocationComplete`, `[]StaleOnlyIfRaced`, `PasswordChangeRevokes` |
| | `AccountsTyped` | `AccountsSpec => []AccountsTypeOK` |
| | `MissesAreBounded`, `BurstsAreBounded` | `AccountsSpec => []MissesBounded`, `[]BurstsBounded` |

**Assumptions**: those named in the modules - finitely many users and workers,
the ranges of the configuration, a positive slot length, disjoint kinds of
requests. Where a theorem speaks of some requests or some strategies only, its
statement says so, and the reason is given below.

### Bookings

`IInv == TypeOK /\ SeatsWithinCapacity` is inductive. The second half is not so
alone: the promotion fills a slot correctly only if the tables it reads are typed
(ranks of waiters count finite sets, balances are numbers). The first half is, and
that matters beside the sweeper, which oversells: every lemma is therefore stated
as `Sound`: a request keeps `TypeOK` and leaves no slot oversold, or at least
not more than it was before (`NoFuller`), from which the capacity follows where
it was kept before (`SoundSafe`). A transaction is several statements, so the
proof follows the successive states of the tables: `Good(r, w, a)` says that
tables `r`, `w`, `a` are typed and no slot is oversold in them, or not more than
at the beginning, `GoodCommit` that committing them is sound, and one lemma per
kind of statement that it keeps `Good`:

- `LeaveGood`, a row gives up its seat; `GoodRow`, a row keeps its place or
  takes a free one; `GoodAppend`, a row is added to a free seat;
- `GoodFill`, a promotion. It rests on `LabStateProofs`: the scan order is a
  strict total order under every strategy (`ScanOrder`), so ranks number the
  queue without gaps (`RankGrows`, `RankNumbers`, `NthRow`), so no more waiters
  are chosen than seats are free (`ChosenBound`), so the filled slot is within
  its capacity (`FillSeats`).

Each request is then a few of these lemmas (`ReserveKeeps`, `CancelKeeps`,
`BatchKeeps`, ...) and `NextKeeps` puts them together. `NeverOversold` is about
requests alone; the run `oversell` shows that the sweeper is outside it, and
`OversoldByOne` below bounds what it can do.

`AttendanceStands` is not inductive. A cancellation or a move does not look at
the attendance; it only asks that the slot has not started. `AttInv` adds that
the slot of whoever is checked in has started, which time cannot undo. The proof
says what a statement may make of a row (`Succeeds`: attendance stays, what ended
stays, no request makes a row a hold or changes one but to end it) and of the
table (`Grown`), which is transitive, so that a transaction is followed through its statements.
The same lemmas give `HistoryHolds` - a row that ended is not touched - and
`LinkHolds`, which assumes that nobody sends a reschedule: the run `reschedule`
shows that the assumption is needed.

### The queue

`QueueProofs` first says what a promotion owes the queue. If a slot is filled, as
many of the executable waiters are taken as there are seats (`ChosenFill`), each
of them once (`FillTakes`); if a seat is still free then, nobody who could take
it is left (`FillServes`); and nobody is taken past a waiter ahead of them
(`FillOrder`). These rest on the numbering of the queue in `LabStateProofs`.

The promotion takes everybody who clashes with nobody booked *before* it. That
two of those it takes may not clash with each other is not obvious: both are in
one slot. They are different users because a user waits once for a slot
(`OneWait`), so `Apart` (nobody booked in two places at one time) is inductive
only together with `OneWait`, and `Unseated` (nobody waits for a slot in which
they have a seat) with both. The requests fall into three kinds (`Kinds`):
they leave the seats as they are (`Plain`), add a waiter who has no seat
(`Joins`), or fill a slot and perhaps give a seat to their user (`Offers`).

Each hypothesis is needed:

- An approval and a batch do not make the test for overlaps that reserve and
  reschedule make; the run `batch` shows the second.
- `WaitersUnseated` fails if a booking is moved into the slot its user waits
  for, since reschedule does not close the waitlist row.
- The strict strategy stops at the first waiter who clashes: whoever stands
  behind is `Servable`, and stays. The weighted one orders by score, so role and
  arrival do not say who comes first.
- A batch takes seats without asking the queue.
- Where a laboratory asks for approval, the administrator who evicts somebody
  gets a pending row, and the seat is empty until it is approved.

`EvictionsMoveSeats` needs `SeatsWithinCapacity`: only because the slot was
exactly full does the eviction leave one seat, which a waiter or the
administrator takes (`TakeOverFull`).

`PromotionIsTheLoop` compares the promotion in one expression with `Loop`, an
iterated function, by induction on the rounds. A round serves the first waiter
who can come or finds nothing to do (`RoundTakesOne`). If it serves one, what is
left to promote is the same as before without that row (`FillTakesFirst`): the
others keep their order (`RanksMoveUp`), and whether they clash does not depend
on the new booking, since each of them is another user (`OneWait`) - here the
strict strategy, which stops at the first who clashes, needs the argument as much
as the others. So `n` rounds and a promotion of what is left give the promotion
of the whole (`FillIsLoop`), and after one round more than there are waiters nothing is left
(`Settled`). The induction is `UpTo`, which rests on well-foundedness of `<`
(`LeastNumber`); that the iterated function exists is `Iterated`.

### The sweeper

`SInv` is `TypeOK`, `AttInv`, and what the sweeper remembers: its list names rows
that exist (`SweepTyped`; rows are never deleted, so requests cannot change that),
and those of them that are holds are as overdue as when they were listed
(`Overdue`). The latter is what `HoldExpiresLate` needs and does not say: it holds
because no request renews a hold, so that looking at the status again, as
`Expire` does, is enough. Capacity is not part of `SInv`, since the sweeper
oversells (run `oversell`); `SweptTyped` and `SweptAttendance` do not depend on it.

How far it oversells is proved as well. `Sound` speaks of every request, also of
one that finds a slot oversold, and the release of the no-shows keeps `Good` along
its list; `ExpireFrees` gives seats back. That leaves `Grant`, which takes one
seat (`GrantTakesOne`). `Pick` has found the slot with a seat free, and no request
oversells it in between, so that it is full at worst when `Grant` comes
(`PickedFits`). Hence a slot that is not oversold becomes so only by `Grant`, by
one seat, and `Pick` passes over it until that seat is free again.

The transaction on the no-shows goes through a list of any length. What it keeps
(`Onward`) is proved along the list by induction (`UpTo`, as above), with
`ReleaseOnward` for one row. The function that `Released` chooses exists since
`<` on the numbers is well-founded (`CourseExists`).

`SweptLinks` needs `LinkDue` as well: between `Grant` and `Link` the row that was
granted is one the waiter may be linked to, whatever requests do meanwhile.
A withdrawn waiter is linked all the same; `PromotedLink` allows that.

### Equipment

Every request of `Assets` on the reservations is one of `Booking` with a further
test, and its invariants carry over; the exception, a reservation turned away for
a claim after it evicted or promoted somebody, has a lemma of its own
(`TurnedAwayKeeps`). `ClaimsStay` needs that the rows a reservation adds are of
its slot (`ReserveSlot`) and that no request moves a row to another laboratory
(`Grown`). `MaintenanceHolds` is not inductive, since a worker writes what it
decided from an earlier reading: `Watched` says that, of an asset nobody
disturbed, at most one worker has read the orders and what it read is still so.

`QuotaRespected` speaks of the sum of claims over all reservations that count at
one hour, and of steps in which this sum grows. The code tests one reservation
against it. The proof is that a step makes at most one row count that did not
count before: all others keep their slot or stop counting (`Wanes`), as those
do that a promotion, an eviction or a cancellation touches, and the rows that a
promotion adds have no claims. If that one row found a copy left, the sum is
within the total (`WaneFits`, `FitsQuota`). Claims are of existing rows and each
asset has its laboratory, so the sum is finite (`ClaimsFinite`).

### Receipts and their composition

`AtMostOnce` is not inductive: nothing in it rules out an effect without a
receipt, after which a retry would act again. The invariant of `ReceiptsProofs`
ties the tables together in both directions (`EffectsReceipted`: an effect of a
handler with receipts has its receipt; `ReceiptsEffective`: a receipt that says
"done" has its effect) and both to every reply on its way or heard
(`ToldTruthfully`). A step changes the tables (`ActKeeps`), tells what they say
(`TakenKeeps`) or drops something (`SameTables`). For the refinement, a step that
commits a receipt is `Decide` of `FirstResult`, hearing a result is `Tell`, and
everything else stutters; `ToldTruthfully` is what makes the told result the
decided one. A step of `Delivery` is a step of `Receipts` or leaves its variables
alone (`StepProjects`), so the three theorems carry over to the composition.

The invariant of the outbox (`OInv`) is about what the dispatcher holds. A row
that is appended but not marked will be appended again unless the next step
marks it: `CopiesPaid` counts such rows (`Again`) as copies already, so that the
slip is paid when it happens and the second append costs nothing. The one row
between its append and its mark (`Landing`) is exempt. `NotesQueued` is, in other words, `LostExplained` (what should have a
row and has none is the sweeper's, and paid for) and `Unannounced`. For it one has
to know that the dispatcher, where it is about to add the row of a notice, holds
one that should have a row and has none yet (`HeldLost`): the added row is never an
announcement's.

### Accounts

The tables alone are not inductive: what a login will insert depends on the row
its worker read long before. The invariant therefore speaks of workers as it does
of rows (`JobOK`): a worker that read the account in the present era
(`Fresh`) holds an enabled account and its present password; one that read it
earlier may hold anything, but then its row will be marked as raced. The steps
that leave the tables alone are one lemma (`JobKeeps`); for the others one shows
that the worker's new state is right and that what every other worker holds stays
right or becomes out of date (`TablesKeep`). A revocation moves the era, so all
that was read before is out of date at once (`Moved`, `RevocationKeeps`).
`PasswordHolds` follows with the invariant: a registration never writes to a name
that is taken.

The limits have an invariant of their own (`LInv`), since the lock stops nobody
who has passed the gate. `MissesOf` says that the misses of a round are at most
the failures counted, and that those of a locked name and the workers still
verifying it (`Verifying`) add up to at most the bound: a late miss is paid by
the worker it leaves idle. `GrantsOf` says the same of a bucket: its level, at
the time of its last use, is what the burst and the time passed leave after the
grants. `AccountsTyped` needs that sessions and tokens have distinct ids
(`IdsDistinct`).

**Only model-checked**: the liveness properties `AskersAnswered`,
`NotesDelivered`, `OverdueHoldReleased` and `NoShowReleased`, which need fairness
and ENABLED.

## 6. What is not modelled

SQLite itself, the statement cache, migration, backup and restore are taken for
what they promise: one writer at a time, a transaction whole or not at all.
Suggestions, statistics, calendar export, metrics and logs only read, and so do
most GET requests. The reminder's choice of recipients adds what `notify()` writes
in a transaction and nothing else: `Notify` is what it does to the outbox. Marking
a notification as read, `last_used_at` of a token, and the rows of
`operation_events` are written and never decide anything. The sweeper's clean-up
deletes waitlist rows and receipts of slots that ended 30 days ago; nothing
modelled reads them by then, and no client waits so long to retry. Publishing
slots adds empty rows that no property relates to others: the set of slots is a
constant. A clock that is set back is left out everywhere.
