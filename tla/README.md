# Verification of Dispatch API

TLA+ models of the order-processing backend in `src/`, the TLC runs that check
them on small instances, and TLAPS proofs of their main properties for every
instance. Paths below are relative to the repository (`src/modules/...` means
`src/src/modules/...` as `PROJECT.json` spells it).

## 1. The system

A NestJS API over PostgreSQL (TypeORM, READ COMMITTED), Redis (cache, Redlock,
BullMQ queues) and Stripe. Several instances may run; each runs the HTTP
controllers, the outbox cron and the queue workers.

| Component | State it keeps | Operations | What makes it hard | What makes it correct |
|---|---|---|---|---|
| **Order transition policy** `orders/helpers/order-transition-policy.ts` | none | `canTransition(current, target)` | nothing by itself | the table is the status machine of the README |
| **Orders service** `orders/orders.service.ts` | `orders`, `order_items` rows | `publicCreate`, `adminUpdate`, `adminRemove`, `ship`, `deliver`, `cancel`, `refund`, `markPaymentAsSucceeded`, `markPaymentAsFailed`, lists | handlers of one order race under a Redlock key; webhooks repeat and arrive late; the administrator's override ignores the policy | nothing moves unpaid; a checked status stays true until the commit |
| **Order jobs** `orders/providers/strategies/*` | the same rows, stock, `refunds` | process, cancel, refund; compensation after the last attempt | read without the lock, lock given up before the commit, side effects outside the transaction, retries | refund once and only what was paid; CANCELED is restocked; REFUNDED is backed |
| **Transactional outbox** `shared/modules/outbox/*` | `outbox` rows, `isProcessing`, `isShuttingDown` | `add`, `process` (cron and `setImmediate`), `onModuleDestroy` | PostgreSQL and Redis commit apart; several instances; crashes between the two | an accepted message is delivered, as one job, and nothing else is |
| **Job execution** `shared/providers/processors/base.processor.ts`, the four processors, `config/bullmq.config.ts` | BullMQ job state, lock `job-execute:<id>`, the idempotency marker | fetch, execute, mark, retry, stall, failed handler | stalled jobs run twice, workers die holding lock and marker, leases and markers lapse, calls of the cache fail | no second effect that the marker could have told of, compensation only after the last attempt, every job ends |
| **Database guard** `shared/modules/db-guard/*` | the transaction of the async context, Redlock keys | `lock`, `transaction`, `lockAndTransaction` | leases that nothing extends; nested calls open a second connection | lock outlives transaction; no starvation of the pool |
| **Order creation** `orders.service.ts` `_publicCreate`, `cache/idempotency.service.ts` | idempotency results in Redis | `getOrExecute`, order, stock, payment | the result is cached before the commit; stock is decremented in transactions of its own | one order per key; stock never lost, never negative |
| **Items and stock** `items/items.service.ts` | `items` rows, catalogue cache | `adminCreate/Update/Remove`, `decrementStock`, `incrementStock`, cached lists | the stock is compared before the lock; the cache is invalidated before the commit, by KEYS and then DEL; cursors have milliseconds, rows microseconds | stock is conserved; an edit leaves nothing that was cached before it; a walk over the pages sees all, once |
| **Payments and gateway** `payments/*` | `customers`, `payments`, `refunds` rows, Stripe objects | `createPayment`, `createRefund`, `createCustomer`, `updateCustomer`, `deleteCustomer` | Stripe and the database commit apart | idempotency keys make retries harmless |
| **Users and customer jobs** `users/users.service.ts`, `payments/providers/strategies/*`, `users/providers/strategies/*` | `users` rows, `customerId` | create, update, remove; four jobs | jobs of one user run in any order and on retry after later ones; update, removal and the jobs have different locks; `save()` writes old values back | emails stay apart; one customer at the gateway; the customer follows the user, and the link stays |
| **Authentication** `auth/auth.service.ts` | hashed refresh token, token blacklist | login, refresh, logout | three different locks over one token, whose own lock ends before the commit; tokens, blacklist and roles age apart | a refresh token is exchanged once; a logged out token stays out; a lost role is not claimed for long |
| **Notifications** `notifications/*`, `effects/*` | `notifications` rows | notify-user job | at-least-once | at most one per job run |
| **Cache** `shared/modules/cache/*` | Redis keys | get, set, delete, deleteBulk, TTL | expiry; a pattern is found first and deleted then | what its callers need: see Items, Order creation, Authentication |
| Controllers, DTOs, guards, bootstrap, configuration, i18n, logging, seed data | none | routing, validation of shapes | — | — |

How they interact: a controller calls a service; a service method runs under
`lockAndTransaction`, writes rows and adds outbox rows in its transaction; the
outbox turns committed rows into BullMQ jobs whose id is the row's id; a
processor runs the job under its own lock and marker; a strategy calls services
and the gateway back, and may add outbox rows again (notifications, compensating
jobs). The order of an order's jobs and handlers is not fixed by anything but
the `order-update` lock, the row locks of PostgreSQL and the policy.

## 2. Modules

| Module | What it is |
|---|---|
| `OrderTransitionPolicy` | the statuses and the table, as a function |
| `OrderLedger` | the abstract promise of orders: payments, refunds and returned stock are recorded for ever, and a status is entered only when the record covers it |
| `OrderLifecycle` | one or more orders, the seven handlers, `adminRemove`, the three jobs; `Ledger == INSTANCE OrderLedger WITH ...` is the refinement mapping |
| `OrderLifecycleProofs` | its inductive invariants and theorems, and that it implements `OrderLedger` |
| `ReliableDelivery` | the abstract promise of the outbox: what is accepted is delivered, nothing else is |
| `Outbox` | the outbox as it is coded; `Delivery == INSTANCE ReliableDelivery WITH ...` is the refinement mapping |
| `OutboxProofs` | its invariants, and that it implements `ReliableDelivery` |
| `JobExecution` | BullMQ as the code uses it, `BaseProcessor`, marker and lock |
| `JobExecutionProofs` | its inductive invariant and theorems |
| `Checkout` | order creation with its idempotency key, the decrements of its lines, and an administrator's edit of an item |
| `CheckoutProofs` | its three inductive invariants and theorems |
| `Sessions` | the session of one account: login, refresh, logout, the blacklist, the clock, and the profile's updates of the same row |
| `SessionsProofs` | its inductive invariant and theorems |
| `Accounts` | creations, updates and removals of users, the customers that mirror them, and the four jobs between |
| `AccountsProofs` | its inductive invariant and theorems |
| `Catalogue` | the items behind their cache: queries, walks over the pages, edits and what they evict |
| `CatalogueProofs` | its inductive invariant and theorems |
| `MCOrderLifecycle`, `MCOutbox`, `MCJobExecution`, `MCCheckout`, `MCSessions`, `MCAccounts`, `MCCatalogue` | constants and symmetry for TLC |

Operators whose comment begins "A bug" are mutated forms of the definition next
to them; no behaviour of the specifications uses them. `PROJECT.json` pairs each
with the property that tells it from the code.

### OrderLifecycle

A handler is a record `req[r]` that walks through `lockAndTransaction`:
`RequestLock` (Redlock key `order-update:<id>`), `RequestRead`/`RequestReject`
(`getOrderOrThrow` and the precondition), `RequestSave` (TypeORM's `save`, which
issues no UPDATE when no column changed), `RequestCommit`, `RequestUnlock`; any
statement may throw (`RequestFail`). `Accepts`, `Saves` and `Enqueues` say what
each of the seven handlers checks, writes and enqueues; the two webhook handlers
and `adminUpdate` check nothing, as in the code.

A job is a record `job[j]`: `JobValidate`/`JobSkip` read without the lock,
`JobRelease` puts stock back line by line in transactions of its own,
`JobGatewayRefund` and `JobRecordRefund` are `createRefund`, `JobLock`,
`JobWrite`, `JobUnlock` are `updateOrderWithLock`, `JobCommit` ends the
transaction. `Rollback` says what an attempt that throws leaves behind, and
whether the job waits for its next attempt, is compensated or has failed.
`JobCompensate` and `JobEnqueueCompensation` are the process job's compensation,
whose own errors are swallowed (`JobCompensationLost`).

PostgreSQL: `status` holds committed values, `writer[o]` is the transaction with
an uncommitted UPDATE of the row; reads see `status`, an UPDATE waits for
`writer[o]`. The unique `gatewayRefundId` is `refundRow[o]`: free, held by an
inserter, committed. `LockExpires` ends a lease under its holder.

`OrderLedger` is what is left of an order for those outside: its status, whether a
payment or an override was committed (`Paid`, `Overridden`, from the history `did`),
what the gateway has given back, the committed rows of `refunds` (`Booked`) and the
lines put back (`Restocked`). Locks, row locks, transactions, jobs, attempts and
rows that may be rolled back are not in it, so a step that works on those must
stutter there.

Abstracted: payloads, dates, prices, shipping data; the notification rows;
outbox and BullMQ (a row of a committed transaction *is* a waiting job; Outbox
and JobExecution justify that, and their residual loss, finding 3, is the only
thing it hides). `JobFail` covers every call of an attempt that may throw, the job's
lock, its marker and its first read included; `Retried` is what BullMQ makes of an
attempt that threw. `JobCommit` may leave the job to be tried again, or compensated,
although its transaction is committed: that is a failing `set(COMPLETED)`.
RequestSave evaluates whether the UPDATE is needed when the row lock is free,
which over-approximates TypeORM's select followed by the wait. Left out: a handler
whose `save()` reads the row again after an `adminRemove` writes the old, empty
`deletedAt` back; here `removed` only grows. `JobGatewayRefund` is a call that may
succeed: `payments.service.ts:188` passes the payment's id of the database as
`payment_intent` (`stripe.adapter.ts:245`), which a live gateway would refuse, and
then every attempt is a `JobFail`.

### Outbox

Rows go none → uncommitted → present or rolledBack → deleted. A run of
`process()` is `Start` (flags), `FindAndLockBatch` (`FOR UPDATE SKIP LOCKED`,
oldest first, at most `Limit`), one `Dispatch` per queue (`addBulk` is atomic;
`sent` counts the calls that brought a message, and BullMQ ignores a repeated job id
while it holds the first), `Dispatched`, `DeleteBulk` (which gives `isProcessing`
back), `Commit`. `Fails` is the `catch` that swallows the error and gives the
flag back; `CommitFails`, `Crash`, `ShutDown`, `Exit` are the rest of its life.
A failing `setImmediate(process())` is an unhandled rejection and may end the
process: that is `Crash`. `faults` counts crashes and failing calls, `shutdowns` the
shutdowns, and `MaxFaults` bounds both together. Not modelled: the skipped runs that open and close an
empty transaction; `removeOnFail` after 24 hours, after which BullMQ forgets a
failed job's id; the unknown-type branch of the dispatcher, which no service
reaches.

### JobExecution

`Fetch`, `Stall` and `Settle` are BullMQ with the options of the code (3
attempts, `maxStalledCount` 1; a failed handler runs outside the job's BullMQ
lock). `executeJob` is `Acquire`/`AcquireFails` (Redlock gives up on a key that is
taken, or on a Redis that does not answer), then four calls of the cache and the
strategy between them, each with its failures:

| Code | Succeeds | Fails |
|---|---|---|
| get, line 82 | `GetMarker`: a marker other than FAILED ends the run as a success | `GetMarkerFails`: it throws, or is answered with nothing |
| set(IN_PROGRESS), line 86 | `SetInProgress` | `SetInProgressFails`: it throws, written or not, or is lost silently |
| execute, executeAfterFail | `Execute`, committed | `ExecuteFails`, rolled back |
| set(COMPLETED), line 102 | `SetCompleted` | `SetCompletedFails`: it throws, written or not, and the catch goes on to FAILED though the strategy committed; or is lost silently |
| set(FAILED), line 104 | `SetFailed` | `SetFailedFails`: the marker stays what it was |

and `Release`. Silent failures are modelled because the client behind the cache may
be set to answer an error with nothing. `Stall` may hit a live worker, which then
goes on beside the next one. `Crash` leaves lock and marker behind; a dead holder's
lease ends by itself. `LeaseExpires` and `MarkerExpires` may also strike a live run.
The history variable `faults` remembers which of these hit a job, and each property
names the faults it does not survive, and no other. Left out: the branch of a job
whose type no handler knows (lines 91-94, which leaves IN_PROGRESS behind), since no
service enqueues one. One model serves the four processors: they differ in their
factory and in the key, which contains the job's id.

### Checkout

A call of `publicCreate` is a record `call[c]` that walks through
`lockAndTransaction(order-create:<key>)`: `LockCreate`, `Lookup` (`getOrExecute`
finds a result, or nothing), `Validate` (the catalogue is read without a lock and
the order inserted), `StartDecrements`, `Decremented` (`Promise.all`),
`CreatePayment`, `SaveResult` (the result is cached before the commit), `Commit`,
`Unlock`. `Fails` is any of its statements throwing.

Each line of its order is a decrement of its own, `line[l]`: `LockLine` takes
`item-update:<id>`, `DecrementStock` is the UPDATE with its commit, `DecrementFails`
a lock or a transaction that fails. `StartDecrements` starts them as `map` does: the
first line whose copy of the stock is too small throws at once, the lines before it
go on. A call that failed does not wait for its decrements; they may commit after
the client was answered. `LockEdit`, `ReadItem`, `SaveItem` are `adminUpdate`,
which takes the same lock and saves the whole item as it read it.

`Crash` leaves both kinds of lock to their leases, `CreateLockExpires`,
`ItemLockExpires` and `CacheExpires` may also strike live holders: the history
variable `lapsed` remembers for which key or item. `due` is the history of what
the stock should be. Abstracted: prices, users, the payment's row and the
notification, which are part of the call's transaction; an order is named by the
call that creates it.

### Sessions

One account, whose row holds the hash of one refresh token and a role. A token
stands for the pair that one `generateTokens` signs; its claims (`issued`) are the
minute it was signed and the role it carries. `row` is committed, `pending` what
the transaction of `owner` makes of it. A request is a record `call[c]`:

- `Login`, `Store`, `LoginCommit`: the key `auth-login`, the row read and signed
  (`Sign`), `updateRefreshToken` under `user-update`, the commit with the
  notification's outbox row;
- `RefreshEnter` (JwtRefreshStrategy admits the token), `Refresh` or
  `RefreshRefused`, `Store`, `RefreshCommit`; a refused refresh logs the account
  out in a transaction of its own, but with no token stored the comparison throws
  (`auth.service.ts:96`) and the call only fails;
- `LogoutEnter` (JwtStrategy), `Logout`, `Store`, `Blacklist`, `LogoutCommit`;
- `UpdateRead`, `UpdateSave`, `UpdateCommit`: `publicUpdate` and `adminUpdate`,
  which hold `user-update` to the end but save an entity read before. TypeORM's
  `save` reads the row again and writes what differs, so a token that a login
  committed between the two reads is overwritten with the old one: `UpdateSave`
  may do either, and `restored` counts it.

`Fail` is any step that throws, a lock that is not had included. `Tick` is the
clock, in minutes. The key in `Store` is free when the step is taken and is not
held after it, as `updateRefreshToken` gives it back before the commit; what
keeps two stores apart is the row's `owner`. Abstracted: passwords, the email
(the accounts here do not change theirs, so each keeps its lock keys), the
language. `AccessTTL <= BlacklistTTL` is an assumption: with
`JWT_ACCESS_EXPIRES_IN` set above 15 minutes it does not hold, nor does
`AccessEndsAtLogout`.

### Accounts

A call of UsersService is `call[c]`: `Create`, `Update`, `Remove` (the lock is had,
the row read, the email looked up), `CreateSave`, `UpdateSave`, `SoftDelete`
(written, not committed), `Commit` with its outbox row, or `CallFails`.
`publicRemove` has no write: `assertWriteAccess` asks for a role level above the
account's own, which nobody has over himself. `IndexAdmits` is the unique index on
the email, soft-deleted rows included.

`job[c]` is the payment job of the call: `CreateCustomerAtGateway` (the gateway
answers a repeated idempotency key with the customer it made), `InsertCustomer`
(unique `userId`), `UpdateCustomerAtGateway`, `UpdateCustomerRow`,
`DeleteCustomerAtGateway`, `SoftDeleteCustomer`, `AddLink` (the user job's outbox
row). `JobFails` ends an attempt wherever it is, and what it did stays. `link[c]` is
the user job: `FindUser`, `LinkUser` under `user-update`, `LinkFails`.

The email stands for all that a customer copies. `gateway[u].made` counts what the
gateway created. Left out: the idempotency key of a creation, which is Checkout's
mechanism over again, the `23503` branch of the creation's job, since users are
only soft-deleted, and the second run of a job that was done and whose
`set(COMPLETED)` failed (JobExecution): a creation's or a removal's fails at the
unique `userId` or at the gateway, an update's copies its email again.

### Catalogue

`history` is the sequence of the sets of live items, one for each commit; an answer
is the number of the state it was read from (each query is one statement). A key
of the cache is an item (`findOne`) or a cursor (`findAll`, one query's pages). A
reader does `FindOne`, `FindFirstPage`, `FindNextPage`, each a `CacheHit` or a
`Load` with a later `Fill` or `FillFails`; its record remembers what the walk has
seen, seen again, and is owed. `Page`, `HasMore`, `NextCursors` are
`ItemRepository.filter` and `encodeCursor`: a cursor is a creation time without its
microseconds.

An edit goes `AdminCreate`/`AdminUpdate`/`AdminRemove`/`ChangeStock` (lock and
read), `Write`, `Evict` (DEL of the item's key, KEYS of the pages), `EvictPages`
(DEL of what KEYS found), `Commit`; `Abort` anywhere. The eviction comes before the
commit, as in the code; a change of the stock evicts nothing. `Outcomes` has the
two results of `save()` when a removal was committed between its reads. `Lapse` is
the entry's TTL. `since` is history: which edits had begun to delete a key when it
was cached.

The cache does not promise freshness, and no property says it does. `src/README.md:91`
has it that "After any Product modification the cache is invalidated"; the code keeps
less. A change of the stock (`items.service.ts:262` and `:268`) evicts nothing, so the
cached stock is wrong until the TTL ends (`Commit` of a "stock" edit needs no
eviction), and a query that read before a commit may cache its answer after the
eviction (`Load`, `Evict`, `EvictPages`, `Commit`, `Fill`). EditsEvict states what the
eviction does achieve, and the two walk properties hold over whatever stale pages are
left.

Abstracted: what items contain, since an answer is dated by its state; filters by
name and description, which are keys apart; the limit of the first page, which
`encodeCursor` forgets; the `getOrExecute` around `adminCreate`, which is Checkout's
mechanism over again. `Following` compares instants: `item.repository.ts:46` compares
the cursor's UTC string with a timestamp without time zone, which is the same only
where Node and the database run in UTC, as is assumed. KEYS is taken to match the keys that the cache writes:
`createKeyv` is called without a namespace in `config/redis.config.ts`.

In Sessions, Accounts and Catalogue calls are taken to end before the leases of
their locks do; OrderLifecycle, JobExecution and Checkout have leases that end
under live holders.

## 3. Runs

| Run | Instance | What it shows |
|---|---|---|
| `OrderLifecycle` | 1 order, 1 line, 1 handler at a time (all but the override and the delivery), 3 jobs, 2 attempts, leases expire, symmetry | GoodsArePaidFor, RefundsArePaidFor, RefundedOnce, RefundedIsBacked, CanceledIsRestocked, KeepsLedger (refinement of `OrderLedger`): the policy table, the idempotency key and the order of side effects protect money and stock even when the lock does not |
| `OrderLifecycle_handlers` | 2 handlers of every kind, 1 job, 2 attempts, no lease expires, fairness | ReadStaysFresh and HandlersFollowPolicy: between handlers the lock does its work, so what they commit the policy allows from the status of that moment unless a job wrote it; JobsSettle: a job ends whatever they do |
| `OrderLifecycle_jobs_follow_policy` | violation | finding 1 |
| `OrderLifecycle_webhooks_never_rewind` | violation | finding 2 |
| `Outbox` | 3 messages of 2 ages in 2 queues, 2 instances, 3 runs, batches of 2, 1 fault, fairness | RowsAreHeld, SentAgainOnlyAfterFault (overlapping runs and shutdowns send nothing twice, a failure at most once more), OneRunAtATime, DeliversReliably (refinement of `ReliableDelivery`), DeliversEventually, ShutdownEnds |
| `JobExecution` | 1 job, 2 workers, 3 attempts, 1 stall, 2 crashes, leases and markers lapse, every call of the cache may fail, fairness | NeverTwiceAtOnce, CompensationExcludesExecution, LostOnlyAfterStall, JobsSettle |
| `JobExecution_lost_job` | violation | finding 3 |
| `Checkout` | 2 calls with one key, 2 lines of 1 item, 1 administrator, 1 crash, leases and cache lapse | OneOrderPerKey, OrdersAreBacked, StockIsAccounted |
| `Checkout_failed_calls` | violation | finding 4 |
| `Sessions` | 2 requests at a time, 5 in all, 3 token pairs, 2 roles, 3 minutes, lives of 1, 2 and 1 minutes, symmetry | RotatedOnce, AccessEndsAtLogout, RolesGoStale |
| `Accounts` | 3 calls, 2 accounts, 2 emails, 2 attempts, symmetry | UniqueEmails, OneGatewayCustomer, SerialJobsMirror, CreatedIsLinked |
| `Catalogue` | 1 reader, 2 edits, 2 items, 2 milliseconds, 3 cached answers, pages of 1 | WalkSeesOnce, WalkSeesAll, EditsEvict |

Every passing run but `OrderLifecycle_handlers`, whose module the first run has,
checks its module's `TypeOK` too.

Why the bounds are enough. Orders share nothing but ids, so one order shows what
two would. Three jobs let a process job, its compensation and a second job of
the order meet; two attempts are one that is retried and one that is the last. The
delivery, which follows `ship` as `ship` follows a job, is in the handlers' run, with
the override.
Two runs in one instance test the flag, a third in another instance tests the
row locks; three messages exceed a batch of two. Two workers are a stalled one
and its successor; two crashes let both die. Two queues stand for four:
`dispatch` serves them one after the other. One fault is enough for the outbox
because its runs share nothing that a fault leaves behind but rows and jobs; the
proofs hold for any number. In Checkout keys share nothing but items, so a call
and its repetition on one key, whose decrements outlive the call, already contend
for the item as calls with two keys would; two lines are one that is taken and one
that fails. In Sessions a race has two requests; five of them are a login, two
refreshes of one token, a logout and an update, and three token pairs let a
refreshed token be refreshed again; three minutes are a moment in the life of a
token, the moment it ends, and one after. In Accounts three calls are a creation
with an update and a removal, or two creations that race for an email and an
update; one retry is enough because an attempt starts from the beginning whatever
its number. In Catalogue two items on pages of one are a page, its successor and
the tie of one millisecond; two edits are one that evicts and one that makes the
evicted answer come back; three cached answers are an item and two pages; a reader races edits, not readers, because a second
reader can only do what the first one's cached answers already do. The proofs lift
these bounds for the safety properties they cover (section 5).

Deadlock is checked except in JobExecution, where all jobs end, in Sessions,
Accounts and Catalogue, where the requests, calls and edits of the instance run out,
and in the violation runs.

### Findings

1. `JobsFollowPolicy`: `validateAndRetrieveOrder` reads without the lock and
   `updateOrderWithLock` releases it before the commit, so a job overwrites a
   status that was committed after its check (CANCELED becomes PROCESSED).
2. `WebhooksNeverRewind`: `_markPaymentAsSucceeded` has no precondition; a
   redelivered success takes a processed or shipped order back to PAID.
3. `CompletedIsExecuted`: a worker dies between IN_PROGRESS and the outcome; the
   next run finds IN_PROGRESS, returns as a success, and the job's effect is lost.
   `LostOnlyAfterStall` bounds it: a job that BullMQ never took from a worker is
   completed only with its effect, unless set(IN_PROGRESS) threw and was written all
   the same, or set(FAILED) failed; both leave the same IN_PROGRESS behind.
4. `FailedCallsTakeNothing`: the decrements of an order's lines commit apart from
   the order, so a creation that throws rolls the order back and keeps the stock.

## 4. Fairness

- Handlers and workers: weak fairness of each one's own steps, i.e. Node keeps
  running what is runnable. No fairness for clients, failures, expiry.
- Checkout, Sessions, Accounts and Catalogue have none: their properties are safety.
- Outbox: weak fairness of `Start` per instance (the five-second cron), of each
  run's steps, and of `Exit`. Crashes, failing calls and shutdowns are bounded by
  `MaxFaults`: delivery is promised once failures cease.
- Job execution: weak fairness of `Fetch` per job, of each worker's steps, and of
  `Stall` for a job without a live worker (BullMQ's stalled check). Lease and
  marker expiry need no fairness: Redlock gives up after its retries, so a
  waiting worker is never blocked.

## 5. Proofs

All proofs are for any number of orders, lines, handlers, jobs, messages, queues,
instances, runs, workers, attempts, faults, requests, tokens, accounts, items and
readers, and for any page size, from the named assumptions of each
module (ids of different kinds differ, bounds are natural numbers).

**OrderLifecycleProofs.** `Invariant` = `TypeOK`, `HandlerWrites`, `PaymentInv`,
`RefundInv`, `RestockInv`. None of the safety properties is inductive alone: a
job acts on what it read some steps ago, so the invariant says for every program
counter of a job what it may rely on. `PaymentInv`: past its check a process or
refund job, and past its check `ship` or `deliver`, stand on a payment, and `did`
only grows. `RefundInv`: past `gateway` the refund is made, past `record` the row
is this job's, so a commit of REFUNDED is backed; keys are orders, so equal
orders mean equal refunds. `RestockInv`: lines not in `todo` are back.
`HandlerWrites`: a handler's commit writes the target it was granted.
From it: `GoodsArePaidForHolds`, `RefundsArePaidForHolds`, `RefundedOnceHolds`,
`RefundedIsBackedHolds`, `CanceledIsRestockedHolds`. They hold whether or not
leases expire. `RefundRowIsBackedHolds` is a conjunct of `RefundInv`.

`OwnersAtWorkHolds`: a Redlock key, a row lock, an uncommitted refund row and a
reserved outbox row have an owner that is at work on that order, with the step that
gives them up ahead, whatever failed, timed out or expired before. It is inductive
on top of the invariant, owner by owner (`ReqOwns`, `JobOwns`): a step of one actor
touches only what is free or its own. It is also why a commit of the process or the
cancel job books no refund.

`KeepsLedgerHolds` is the refinement, step by step, under both invariants:
`RequestCommit` is `Pay`, `Override` or `HandOver` by its operation, `JobRelease` is
`PutBack`, `JobGatewayRefund` is `GiveBack`, or a stutter when the key's refund
exists; `JobCommit` is `HandOver`, `Refund` or `Cancel` by its kind. Everything else
stutters, `Rollback` and `JobRecordRefund` because an uncommitted row is not booked.
The guards of `HandOver` and `GiveBack` come from `PaymentInv`, that of `Refund` from
`RefundInv`, that of `Cancel` from `RestockInv`.

**OutboxProofs.** `RunInv` says where a run's messages stand (the queues before
`next` hold theirs, and `deletes` means all do); with `RowsAreHeld` it is
inductive. `SentAgainOnlyAfterFaultHolds` needs more than a count: `SentInv` says
that a message sent more often than there were faults is deleted, or in the batch of
a run that goes on to its delete (`Served`). A row that a run can take is neither, so
whoever sends it still has a fault to account for it.
`DeliversReliablyHolds` maps `Accepted` and `Enqueued` to the abstract
variables: `Dispatch` is `Deliver`, `TransactionCommits` is `Accept`, everything
else stutters, `Commit` because the deleted rows' jobs exist.

**JobExecutionProofs.** `LockInv` (inside the lock the worker owns it unless a
lease of the job ran out under it), `MarkerInv` and `AttemptsInv` are inductive
together; they give `NeverTwiceAtOnce` and `CompensationExcludesExecution`.
`MarkerInv` holds while none of the faults in `MayRepeat` has hit the job: what was
read of the marker stays true because only the owner changes it, a strategy runs only
before any effect, and an effect leaves IN_PROGRESS or COMPLETED. A set(FAILED) that
fails is not among those faults, because what it leaves behind only makes later runs
return. `LostOnlyAfterStall` needs three more: `HeldIsRun` (the worker that BullMQ
takes to hold a job runs it), hence a job that never stalled has one run at a time
(`OneRun`), and `StallFreeInv`, which says for each step of that run what the marker
is and whether the job was executed: short of the faults in `MayLose` an attempt that
throws leaves no IN_PROGRESS behind, so a run never finds one. `FaultsGrow`: a fault
is never forgotten. `SettledForGoodHolds`: what a worker still does after its job was
taken from it changes nothing of a settled job.

**CheckoutProofs.** Three inductive invariants, each with `TypeOK`.
`CreateLockInv` and `CacheInv`: from its lock to its release a call owns the key,
so what it found in the cache is still so when it saves and commits; a key with an
order or an answer has it cached. `BackedInv`: past `Decremented` all lines are
taken and stay so (`TakenStays`; a line is only reset by `StartDecrements`, which a
call passes once), past `CreatePayment` the payment is made, and no call finds its
own order in the cache, so a commit adds only an order that is backed.
`ItemLockInv`: who is between taking an item's lock and giving it up owns it, so the
stock an administrator read is the stock he saves over. From them:
`OneOrderPerKeyHolds`, `OrdersAreBackedHolds`, `StockIsAccountedHolds`.

**SessionsProofs.** `Inv` = `TypeOK`, `SignInv`, `StepInv`, `ExchangeInv`,
`RotatedOnce`, `ClaimsInv`, `EndedInv`. The stored token is not protected by one
lock, so RotatedOnce is not inductive. `SignInv`: a token that a call
has signed is not issued yet and is no other call's. `StepInv` says for each step
of a call which locks it holds, when it owns the row and what `pending` then is.
`ExchangeInv`: a refresh in progress holds `auth-refresh`, and neither its token
nor the stored one has been exchanged more often than it was written back.
`ClaimsInv`: the role a token claims was the account's when it was signed, or was
lost after it; `EndedInv`: a blacklist entry is not older than its token.
AccessEndsAtLogout then needs `AccessTTL <= BlacklistTTL` and nothing else.

**AccountsProofs.** `Inv` = `TypeOK`, `CallInv`, `EmailInv`, `UniqueEmails`,
`MirrorInv`, `LinkInv`, `CreatedIsLinked`. `EmailInv`: rows written and not
committed are apart from committed ones and from each other, which is what the
index adds to `existsBy`. `MirrorInv`: past `called` the gateway has the customer.
`LinkInv` is why a link stays: an account has one creation, it is live unless a
removal was committed, and an update that is under way while the link exists has
read it, because `LinkUser` waits for `user-update`.

`SerialJobsMirrorHolds` compares the end of several jobs with the account, so its
invariant `SerialInv` carries what stands between them. Nobody else works on an
account before its creation is committed (`CreateAlone`), one transaction at a time
has written its row, with what its call is for (`RowExclusive`, `WrittenRow`), and an
account without overlapping jobs has one unsettled job at most (`OneActive`).
`MirrorFollows` is then the step-by-step claim for accounts without overlap or failed
job: with no job left the customer is as the account is (`Mirrored`); with one left,
`Progress` says by its operation and its step what the customer already has of it.

**CatalogueProofs.** `Inv` = `TypeOK`, `AnswerInv`, `EditInv`, `EvictInv`,
`WalkInv`. `EvictInv`: what KEYS found is there until DEL, what is there after it
came since. `WalkInv`: all that a walk has seen was created no earlier than its
cursor, and what it is owed strictly before it; the page that follows takes the
newest of those, so what it leaves out is again before its last item. The proof is
for any page size; it uses that a finite set of items has a last one in the order
of the query.

**The lock between handlers, in OrderLifecycleProofs.** `ReadStaysFreshHolds` rests on
`HoldsLock`: while no lease expires a handler owns its order's lock from its first
step to its last, so no other handler commits in between; a job takes no lock from
a handler, and writes a status only with its kind in `did` (`JobLocks`). `ReadAccepted` adds
that what such a handler read the policy accepts, and `HandlersFollowPolicyHolds`
follows: the status it commits over is the one it read, or a job's.

Only model-checked: liveness (`JobsSettle` twice, `DeliversEventually`,
`ShutdownEnds`). Fairness and ENABLED are out of the proof
system's reach. Every safety property that a passing run checks has its theorem.

## 6. What is left

Not modelled, and why:

- the connections that nested transactions take: the pool, its size and its queue
  are the driver's;
- that stock does not fall below zero, that a cached answer belongs to a committed
  order, that a removed account or item stays removed: the code does not keep them
  (`items.service.ts:257`, `idempotency.service.ts:24`, and `save()` beside a removal
  under another lock) and no line of the documentation promises them. Checkout,
  Accounts and Catalogue take these steps as the code does (OrderLifecycle leaves the
  one of orders out, section 2); the hazards name them;
- notifications: an INSERT per run of a job, whose number of runs is JobExecution's;
- `processWebhook` of the Stripe adapter, which has no effect yet;
- an account's change of email as a session sees it (the lock keys of `auth-*` are
  emails), the role guard, passwords, addresses; the pages of users, orders and
  payments, which repeat `ItemRepository.filter` without a cache;
- DTO validation, i18n, logging, bootstrap, seed data: no state of their own.

What would come next: an abstract job specification that JobExecution implements
and OrderLifecycle and Accounts assume; Checkout's stock and Catalogue composed.

Runs that ask about one module are kept together: a new question is a property of
an existing run where the instance allows it.
