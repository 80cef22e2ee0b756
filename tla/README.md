# Verification of Hisab (split-bill-app)

TLA+ specifications of Hisab, an application that records shared expenses and the
settlements that pay them back: of its backend, and of the session of its mobile
client; with the configurations that
model-check them (TLC) and machine-checked proofs (TLAPS). Paths below are
relative to `src/backend/src/` unless they start with `src/`.

## 1. The system and its state

| Component | State | Operations | What makes it hard |
|---|---|---|---|
| Settlement creation (`modules/settlements`) | PostgreSQL: `Settlement`, `ActivityEvent` | `createSettlement` | retries, two requests with one key, statements of concurrent transactions |
| Idempotency records (`modules/idempotency`) | PostgreSQL: `IdempotencyRecord`, unique `key`, `expiresAt` | `reconcileIdempotencyRecord` | expiry between read and use, reuse by others |
| Distributed lock (`redis/distributedLock.ts`) | Redis: one key per group with a token and a TTL | `acquire`, `release`, `withLock` | TTL expiry under a holder, errors reported for executed commands, crashes |
| Balances (`settlements/balance.util.ts`) | none; three reads | `getGroupBalances` | reads at different times, members that left |
| Expenses (`modules/expenses`) | PostgreSQL: `Expense`, `ExpenseSplit` | `createExpense`, `updateExpense`, `deleteExpense` | read-then-write without a lock, rounding |
| Groups (`modules/groups`) | PostgreSQL: `Group`, `GroupMember` | create, update, delete, add and remove member | removal while the member is being used |
| Group cache (`groups/group.cache.ts`) | Redis, 300 s | read-through, invalidate | a read miss racing a write |
| Activity feed (`modules/activity`) | PostgreSQL: `ActivityEvent` | list | page and count are two reads |
| Job queue and worker (`queues/`) | Redis: schedule, data, lease keys | enqueue, claim, complete, retry, discard | leases that expire, separate commands, crashes |
| Group summaries (`modules/summary`) | PostgreSQL: `GroupSummary` | request, recompute | duplicate deliveries, late writers |
| Authentication (`modules/auth`) | PostgreSQL: `User`, `RefreshToken`, `AuthToken` | register, login, refresh, logout, verify, reset | rotation races, token outliving the fact it proves |
| API processes (`server.ts`, `app.ts`, `redis/redisClient.ts`) | connections, where the limiters count | start, serve, shut down | a shutdown with requests in progress and Redis lost |
| Rate limiting (`redis/rateLimitStore.ts`, `middleware/rateLimiter.ts`) | Redis counters, or counters in memory | increment | several processes and limiters, Redis outage |
| Metrics (`metrics/`) | counters and histograms of a process | increment, observe, render | buckets, which responses are counted, labels |
| E-mail (`modules/email`) | none | send a link | a failure is swallowed, the address changes meanwhile |
| Mobile session (`src/frontend/lib/core/network`, `features/auth`) | keychain: two tokens; status, shared refresh | attach, refresh, retry, sign in and out, restore | 401s of parallel requests, logout in flight, restart |
| Settle sheet of the app, configuration, API docs, user interface | pending key, widgets | | not modelled (section 8) |

Handlers are `async` functions on one event loop per process and several
processes run behind one PostgreSQL (Read Committed, Prisma) and one Redis. A
handler can be interrupted at every `await`, and that is where actions end in the
models. Components interact through the database rows, through Redis keys and by
direct calls: `createSettlement` calls `withLock`, whose operation runs one
Prisma transaction that uses the idempotency records and writes the settlement
and its activity event.

What each component has to guarantee:

* Settlement creation: one settlement per key lifetime; what a reply says is what
  is recorded; a refusal records nothing; each request is answered.
* Lock: exclusion up to the TTL, a call never frees the lock of another one, a
  lock whose holder died goes away.
* Balances and expenses: splits add up to the amount; the balances of a group add
  up to zero while a Number holds each of them; a change is not lost.
* Feed: it tells which expenses and members there are, and what an expense amounts to
  as far as the times of its events allow.
* Queue and summaries: a job that was enqueued is eventually performed or given up
  on, and is gone afterwards; the summary ends up equal to the data.
* Cache: what is served is not older than the last invalidation.
* Authentication: a refresh token is used once, a reset ends the sessions that were
  there before it (not those that an overlapping login or rotation inserts, section 5),
  a verification token proves the current address.
* Processes: a limiter lets no more through than its limit, metrics tell the
  responses, a shutdown ends unless a client stalls in the middle of its request.
* Client: a refresh token that was rotated is presented again only if its successor
  never reached the keychain, what is stored can be used, requests end, and a session
  is expired only when it cannot be refreshed.

## 2. Modules

| Module | Models | Used by |
|---|---|---|
| `DistributedLock` | `redis/distributedLock.ts` and the part of Redis it uses | `Settlements` (instance `L`) |
| `Idempotency` | `reconcileIdempotencyRecord` as a pure operator | `Settlements` |
| `Settlements` | `createSettlement` from controller to repository, with the concurrent group operations | |
| `IdempotentLedger` | the abstract specification of settlement creation | `Settlements` (instance `Ledger`) |
| `Money` | `calculateEqualSplits`, `sumSplitAmounts`, `calculateBalances`, `toNum` as pure operators | `GroupLedger` |
| `GroupLedger` | the handlers of expenses, memberships and balances over the rows of one group | |
| `GroupReads` | what members read: details through the cache, and records page by page | |
| `JobQueue` | `queues/jobQueue.ts` and the loop of its workers | `GroupSummary` (extends it) |
| `GroupSummary` | the recomputation of summaries, as the work of the queue | |
| `AuthSessions` | accounts, refresh tokens and e-mailed links | |
| `Metrics` | the metrics registry as a value with its operations | `ApiServer` |
| `ApiServer` | processes, their limiters, and the metrics of their responses | |
| `MobileSession` | the app's `ApiClient`, `AuthRepository`, `AuthTokenStore`, `AuthController` | |
| `...Proofs` | theorems about the module of that name | |
| `MC...` | instances for TLC | |

### DistributedLock

One process is one call of `withLock`. `acquire` draws a fresh random token per
call, so the call stands for its token and `lock[r] = p` means "the Redis key of
`r` holds the token of `p`". `hold[p]` is the local variable `token` together with
the point the call has reached. `Acquire`/`Refuse` are the two answers of
`SET NX PX`, `AcquireError` the `catch` that runs the operation bare; the error
may arrive although the command was executed. `Release` is the compare-and-delete
script of the `finally` block, `ReleaseError` its failing variant, `Expire` the
TTL, `Crash` the death of the process. `lapsed` is a history variable: the tokens
that Redis expired.

### Settlements

An attempt is one execution of the handler; a retry is another attempt with the
same request. `pc[a]` names the `await` it has reached:

| `pc` | Code | Action |
|---|---|---|
| `group`, `members` | `settlement.service.ts` 103-134 | `FindGroup`, `CheckMembers` |
| `lock` | 136-154, `distributedLock.ts` 84-101 | `EnterLock`, `LockRefused` |
| `find` | `settlement.repository.ts` 146-153 | `FindRecord` |
| `drop` | 155 | `DropExpired` |
| `claim`, `reclaim` | 158-168 | `Claim` (`reclaim`: this transaction has deleted the old row) |
| `write` | 170-195 | `Write` |
| `commit` | 197-198 | `Commit` |
| `fallback` | 199-214 | `Fallback` |
| `replay` | 261-285 | `Replay` |
| `release` | `distributedLock.ts` 104-115 | `Release` |

`DatabaseError` lets any statement fail (which includes Prisma's transaction
timeout), `Crash` kills the handler at any await. `Commit` may lose its
acknowledgement: the data is there and the client sees a 500. `AddMember`,
`RemoveMember` and `DeleteGroup` are the committed effects of the group
operations; `ExpireRecord` and `ExpireLock` are time.

Database semantics. The variables hold committed data only. What an open
transaction has written follows from its `pc`, nobody else sees it, and an abort
is therefore just a change of `pc`. Two things of PostgreSQL matter and are
modelled: an insert or delete on a key waits while another open transaction has
written that key (`KeyLocked`), and inserting a row with a foreign key locks the
group, so that `DeleteGroup` waits (or, if it was first, the insert fails). A row
of `record` names the attempt that claimed it; the attempt stands for the row id,
for the user and for the hash of the body.

Abstractions. SHA-256 is free of collisions, so `Hash` is the hashed tuple. The
amount is a small number that only takes part in comparisons. Time is a Boolean
per record and per lock. Users are not deleted (no operation of the backend
deletes one).

### IdempotentLedger

What a client may rely on, without transactions or locks: `Add` records a
settlement under a key that stands for nothing, `Replay` answers with a recorded
settlement of the same request, `EndLife` ends a key's lifetime, `Erase` is the
deletion of a group. `Settlements!ImplementsLedger` is the refinement mapping:
`current[k]` is the resource of the unexpired record of `k`, `ledger` is `book`.

### Money

The splits of an expense are a function from users to amounts. Amounts are BigInt
minor units and therefore integers without a width. `calculateEqualSplits` takes
the participants in input order, because the remainder goes to the first ones.

Balances leave the backend as `Number(bigint)` (`toNum`, `settlement.service.ts`
222-224), which rounds. A single amount is validated as a safe integer, but a balance is a
sum of any number of them. `Precision` stands for 2^53, up to which a Number holds every
integer; above it neighbouring Numbers are `Grain` apart, and a value becomes the nearest
one, or of two that are as near the even one (`Nearest`). The other uses of `Number(...)`
in these modules are of single amounts, which they give back exactly.

### GroupLedger

A call is one execution of a handler; `request[c]` is its validated input and
`pc[c]` the `await` it has reached. Handlers read outside of any transaction, so
each read is an action of its own and `seen[c]` keeps what it returned; the
transaction at the end is one action (it writes an expense with its splits and the
activity event together, and the rows it touches are locked until it commits).

| `pc` | Code | Action |
|---|---|---|
| `start` | `findGroupById`; `findExpenseById`, the row | `FindGroup`; `FindExpense` |
| `splits` | `findExpenseById`, its splits; `findExpensesForBalances`, their splits | `FindSplits` |
| `members` | `findGroupMemberIds`, `findGroupMembers` and the checks after it | `PlanCreate`, `PlanUpdate`, `CheckDelete`, `CheckSettle`, `FindMembers` |
| `membership` | `isGroupMember`, `findGroupMember` | `CheckMembership` |
| `expenses`, `payments` | `findExpensesForBalances`, `findSettlementsForBalances` | `FindExpenses`, `FindPayments` |
| `write` | the transaction | `Create`, `Update`, `Delete`, `Settle`, `Add`, `Remove`, `Dissolve` |

`Abandon` is a failing statement or the death of the process, before the
transaction or within it, so that nothing was written. Prisma loads a relation with
a query of its own, hence row and splits are read at different moments.
`keptSplits` recomputes equal splits in any order of the existing participants:
they are ordered by a creation time which all of them share. `tx.expense.delete` is
one `DELETE ... RETURNING` (Prisma 6), so the deletion event carries the total of
the deleted version. Description, date and currency are left out; users are not
deleted by any operation. Settlements are recorded here without their lock and
idempotency record, which are the subject of `Settlements`.

The feed is listed by `occurredAt` (`activity.repository.ts:131`), so events are dated.
`now` is the clock, one for all processes and never running backwards (`Tick`). An addition
or update of an expense and an addition of a member are dated before they wait for the
row (`createdAt`; `expense.repository.ts` 148-149): at some moment from `began[c]`, when
the call had read all it needs, to the commit. A deletion and a removal are dated after
the statement that has the row. `feed` is in the order of the commits, each event with the
time `at` that it carries and the time `done` of its commit. `FeedTellsExpenses` speaks of
the order that readers see: the deletion of an expense is above everything else about it,
its addition below, and the total it has now is carried by an update above which there are
only updates that overlapped with it (`Tells`). The code gives no more (section 5).
`FeedTellsMembers` speaks of the order of the commits, which is not always the order shown:
an addition dated before the wait for its row may be shown below a removal that was
committed first.

### GroupReads

A call is one execution of a handler, or, for `list`, a client that walks through the
pages of a listing (`settlements_remote_data_source.dart`) and so makes the handler run
once per page. `read[c]` is what a reader of the details has found, `walk[c]` the pages
a client has. A record is a settlement, an expense or an activity event: the three
listings have the same shape, a membership check, a page and a total in separate
queries. Only expenses are ever removed (`Erase`).

| `pc` | Code | Action |
|---|---|---|
| `cache`, `hit` | `getCachedGroupById`; `isGroupMember` after a hit | `LookUp`; `Authorize` |
| `row`, `members`, `miss` | `findGroupByIdWithMembers`, row and members; membership | `FindRow`, `FindMembers`, `Authorize` |
| `fill` | `setCachedGroupById` | `Fill` |
| `group`, `record`, `member` | `findGroupById`, `findSettlementById`, `isGroupMember` | `FindGroup`, `FindRecord`, `Authorize` |
| `page`, `shown` | `findMany` with `skip` and `take`; `count` | `FindPage`, `Count`, then `TakePage` by the client |
| `exists`, `membership`, `write` | checks and transaction of a write | `CheckExists`, `CheckMembership`, `Write`, `CannotWrite`, `LoseCommit` |
| `invalidate` | `invalidateGroupCache` | `Invalidate` |

`Fill`, `LookUp` and `Invalidate` may fail in Redis, before or after the command, and
the code goes on. `doubt` is a history variable: why the cached details may be out of
date (the reader that filled them overlapped a commit or a change of profile; an
invalidation failed). `track` notes, for each reader, whether it was a member at some
time and what was committed since it began.

### JobQueue and GroupSummary

One step of a worker is one Redis command. The sorted set is `ready`, the due ids in the
order of their scores, and `delayed`, those whose next attempt is in the future
(`BecomeDue` is the passing of time). `data` is the payload with its attempts, `lease`
the in-flight key. `pc[w]` names the command a worker awaits:

| `pc` | Code | Action |
|---|---|---|
| `idle` | the claim script that returns the first due id | `Poll`, `Stop` |
| `lease` | `SET NX PX`, or nothing when it is taken | `Succeed`, `Busy` |
| `read` | `GET` of the payload | `ReadEnvelope` |
| `work` | the handler of the job | `Performed`, `Impossible`, `HandlerFails` |
| `complete`, `completeDel`; `discard`, `discardDel` | `ZREM`, then `DEL` | `Succeed` |
| `retry`, `retrySet`, `retryAdd`, `retryFree`, `drop` | `GET`, `SET`, `ZADD`, `DEL` | `Reload`, `Succeed` |

`RedisError` fails any command before or after its effect, `Crash` and `Stop` end a
worker, `ExpireLease` is the TTL of a lease whose worker is gone, `LeaseLapses` that of
one whose worker still runs, `ExpirePayload` the TTL of the data. `marks` and `failures`
are history variables; `inTurn` records whether leases were taken on the head of the
queue and none was lost, because the summaries depend on it: nothing else keeps two
recomputations of one group apart.

`GroupSummary` extends it with the one handler there is: `FindGroup`, one `Query` for each
metric in any order, `Upsert`; `Request` and `Change` are the requests of a recompute and
the changes of the group, `DeleteGroup` its deletion. `book` counts the changes of each
metric and `asked[j]` remembers what it was when job `j` was requested.
`JobQueueProofs!ImplementsQueue` is the refinement: `GroupSummary`'s handler steps are
stutters or handler steps of `JobQueue`.

### AuthSessions

A call is one execution of an endpoint. What it creates is named by the call, because
tokens are random: `users[c]`, `sessions[c]`, `links[c]`. Reads are single queries.
Transactions are one step, except the two whose row locks others wait for: a rotation
(`Revoke`, `Insert`) and a reset (`Claim`, `CommitReset`), where an update under Read
Committed waits for the row (`SessionLocked`, `LinkLocked`, `Resetting`) and then looks at
it again. An answer may be lost after the commit (`lost`), a statement may fail
(`Error`), rows expire (`ExpireSession`, `ExpireLink`). `Mail` delivers a link to the
address that the handler read, or the error is swallowed. Passwords and addresses are
model values; signing of access tokens is left out, `Authenticate` is the check before a
handler. `verified` is the link that set `emailVerifiedAt`.

### Metrics and ApiServer

`Metrics` has the registry as a function from series to values, with `increment`,
`observe` (one bucket), `counterValue` and `renderHistogram` (which adds the buckets
up). `ApiServer` runs processes from `Launch` through `connectDatabase`, `connectRedis`
(which decides where the limiters count, for the life of the process) to `Signal`,
`disconnectDatabase`, `disconnectRedis`; `Exit` loses what the process had in memory. A
request passes `Arrive` (the edge guard), the limiter of all requests, `ParseBody`, the
limiters of the authentication routes, and `Respond`, in the order of `app.ts`; the
middleware between two awaits is one step. `layers` are the paths that the Express
routers matched last, because the metrics look at them when the response ends.

There are six limiters: `apiLimiter`, `authLimiter`, and one for each of the four e-mail
endpoints (`EmailLeaves`; `app.ts` 94-96 calls `sensitiveEmailAuthLimiter` in a loop). In
Redis those four count under one prefix, in memory each has a `MemoryStore` of its own:
`counter(s, l)` is the counter of limiter `l` in store `s`, and `Budget(s, l)` the
limiters that count together there. The script that counts may be executed without
its answer arriving: `Disconnected` loses the connection with any set of the waiting
requests already counted, and `ioredis` sends the command again after `Reconnected`, or
`passOnStoreError` has given it up. So a request may be counted twice, and `unanswered`
has how often one was counted in vain.

`resolveRouteTemplate` is simplified in one respect. After `next(err)` Express has
restored `baseUrl`, so that the fallback label of an error is the pattern of the
route without its mount point; here it is the route. No property tells the two apart, since
both are templates.

### MobileSession

Dart runs one callback at a time, so that an action ends at each `await`: a keychain read
or write, or a request. The server issues pairs of tokens, numbered; `live` are the
refresh tokens that are not revoked and `valid` the access tokens that have not expired.
A call is a request of the app (`get` or `mutate`) or an operation of `AuthController`
(`restore` at launch, `login` for login and registration, `logout`).

| `pc` | Code | Action |
|---|---|---|
| `idle` | `restoreSession`, `_submit`, pages | `Begin` |
| `attach`, `sent` | `_onRequest`; the request | `Attach`; `Serve`, `LoseRequest` |
| `refused` | `_onError` for a 401, `_tryRefreshOnce` | `Refused` |
| `shared` | the future of another caller's refresh | woken by `RefreshEnds` |
| `read`, `presented` | `AuthRepository.refreshSession` | `ReadRefresh`; `Rotate`, `LoseRotation` |
| `save`, `saveRefresh` | `saveSession`, two writes | `Save`, `SaveRefresh` |
| `clear`, `clearRefresh` | `clear`, two removals | `Clear`, `ClearRefresh` |
| `again` | the second half of `restoreSession` | `Recover` |
| `login`, `logout`, `revoke` | login, register; logout | `Login`; `Logout`, `Revoke` |

`late[c]` is the `forceSessionExpired` that `_expireSession` starts and does not wait for.
Faults are lost requests and answers, a revocation of all sessions (a password reset
elsewhere) and `Restart`, the app being killed and opened again, which keeps the keychain
only. The keychain itself is taken to work. Two history variables follow the refresh
tokens: `spent` are those that the server has rotated, whether or not the answer arrived,
and `astray` those of them whose successor never reached the keychain, because
the answer was lost or the app was killed before the second write of `saveSession`.

## 3. Runs

| Run | Configuration | Shows |
|---|---|---|
| `lock` | 3 calls, 2 keys, fair | `CoordinatedExclusion`, `OnlyOwnerOrTTLFrees`, `LockEventuallyFreed` |
| `misuse` | 2 attempts, 4 kinds of request, fair | `CreatedMeansRecorded`, `RefusedRecordsNothing`, `ConflictOnlyAfterExpiry`, `EveryAttemptAnswered` |
| `retries` | 3 attempts of one request | `IInv`, `AtMostOncePerKeyLife`, `RecordsMatchBook`, `GroupSerialised`, `ImplementsLedger` |
| `group` | 4 calls, 9 kinds of request on one expense, or 8 on the group | `SplitsMatchTotals`, `FeedTellsExpenses`, `FeedTellsMembers`, `SettledBalancesAddUp` |
| `shown_balances` | 3 calls | `ShownBalancesAddUp` is violated |
| `jobs` | 2 workers, 2 jobs, 2 attempts, fair | `IInv`, `JobsNotLost`, `OneWorkerPerJob`, `GivenUpAfterAllAttempts`, `CompletedStaysCompleted`, `PerformedMeansSummarised`, `SummaryNeverGoesBack`, `EveryJobLeaves` |
| `sessions` | an account and 3 calls of any kind | `IInv`, `SessionsEndOnce`, `ResetEndsSessions`, `LinksWorkOnce`, `VerifiedAddress`, `SomeoneGoesOn` |
| `reset` | the same | `EverySessionEnds` is violated |
| `reads` | 3 calls; up to 3 records | `IInv`, `CacheTellsTheGroup`, `ServedToMembers`, `WalksAreComplete` |
| `server` | 2 processes, 2 requests, fair | `LimitsHold`, `MetricsTellResponses`, `ShutdownsEnd` |
| `mobile` | the launch and 3 calls, fair | `RotatedTokensAreReplaced`, `StoredTokenIsLive`, `CallsEnd` |
| `expired_session` | the launch and 1 call, no faults | `ExpiredWhenRefreshFails` is violated |

Deadlock checking is off in all of them: calls, attempts, jobs and requests are used up,
and then the system rests. `sessions` checks instead that some handler can go on as long
as one is waiting (`SomeoneGoesOn`).

### Bounds

*Settlements.* Nothing is counted, so the only bounds are the sets. Two attempts suffice
for each race between a reader and a writer; the third one in `retries` is what lets
an expired record be replaced by a live one between the read and the delete of
`DropExpired`, and what lets a lock be taken over and freed by its first holder. One group
and one key, because requests of different groups and keys share no state (the proofs
cover any number). `misuse` has one attempt less, and instead lets requests differ in
body, user, or name the same user twice.

*GroupLedger.* Four calls let one create the expense, two others read different versions
of it, and a fourth change or delete it between their reads and writes; requests are
chosen so that each branch of `updateExpense` is taken (payer, total, type or participants
given or not, exact amounts that add up or not, a smaller set of participants). Two users
are enough for unequal shares and for a payer who leaves; 3, 4 and 5 divided by two have
both remainders. The calls other than the creating one are alike (`OtherCalls`). `LastTime`
is 1: two dates tell an event that is older from one that is newer, and events of one date
may be listed either way. `Precision` is 4, so that the update `Uneven`, in which a third
user takes part, makes alice's balance one that is rounded while the others are not.
TLC evaluates two assumptions. `MCGroupLedger!NumbersAreNearest`: `toNum` gives the nearest
Number. `MCGroupLedger!SharesAreDealt`: equal splits are those of dealing out up to 25 units in turn to up to four participants
(`UnitsAreDealt` proves it for any numbers).

*GroupSummary.* `MaxAttempts = 2` is the least that has a retry and an end; two jobs are
needed for one to wait behind the other; two workers are the least that race.
`MaxFaults` bounds crashes, Redis errors, lapsing leases and expiring payloads together:
one with two jobs, two with one job (`MCInit`). `MaxWrites = 1`: a change of the group is
seen by a recomputation or not.

*AuthSessions.* Three calls after a registration: two that race and one that prepares
for them (a link to be used twice must be mailed first). `MaxExpiries = 1`. Calls,
passwords and addresses are interchangeable (`Alike`).

*GroupReads.* Either three calls on the details, or a walk of a client with one change of
the members and one of a profile, among three records that come and go (`MCInit`); pages
of one or two records, or the server's default (`None`), which holds them all. `MaxFaults`
is 2, so that an invalidation can fail and a fill as well.

*ApiServer.* The e-mail limiters let one request through, so that the second is over it, and
the others two, so that both requests get there;
buckets 1 and 2 with durations 1 and 3: on a bound, and above the last one. `MaxStarts`,
`MaxWindows` and `MaxFaults` bound starts, ended windows and errors; `MCInit` takes the
combinations that fit into minutes: two processes that share counters without errors, and
one with an error, each for requests to two e-mail endpoints and for others.

*MobileSession.* Three calls besides the launch: two that receive a 401 and a third that
signs in or out. One fault or one expiry per behaviour (`MCInit`), the number of which is
chosen at the beginning so that behaviours without any are among them.

### Fairness

`DistributedLock!FairSpec`: Redis does expire a key with a TTL. `Settlements!FairSpec`: a
handler that can take a step takes it (the event loop runs continuations, the database
answers or fails each statement). Nothing is assumed about clients, crashes, or the
expiry of records and locks; a request does not need the TTL to be answered, because a
held lock is a 409 and not a wait. `GroupSummary!Fairness`: workers go on polling and a
handler goes on, delayed jobs become due and leases expire; a request that has stored its
payload goes on to schedule it. No fairness for errors, crashes, or `Stop`: `EveryJobLeaves`
holds for boundedly many faults, with a crashed worker starting again at its next poll and
at least one worker that is not stopped. `ApiServer!Fairness`: limiters and handlers go on
and so does a shutdown; nothing is assumed of clients or of Redis coming back (a limiter
that cannot count lets the request pass). In particular a request body need not arrive:
`ParseBody` is not fair, and as `server.close()` (`server.ts:34`) waits for the request
without a deadline, `ShutdownsEnd` has the condition that from some time on no client is in
the middle of its request.
`MobileSession!FairSpec`: each step of a call is taken, because every request has a
timeout of 15 seconds (`ApiClient.networkTimeout`) and the keychain answers; nothing is
assumed about the user, nor that requests succeed.

## 4. Proofs

| Theorem | States |
|---|---|
| `DistributedLockProofs!LockInvariant` | `Spec => []LockInv` |
| `DistributedLockProofs!LockExcludes` | `Spec => []CoordinatedExclusion` |
| `DistributedLockProofs!ReleaseIsOwn` | `Spec => OnlyOwnerOrTTLFrees` |
| `SettlementsProofs!TypeCorrect` | `Spec => []TypeOK` |
| `SettlementsProofs!Invariance` | `Spec => []IInv` |
| `SettlementsProofs!AtMostOnce` | `Spec => []AtMostOncePerKeyLife` |
| `SettlementsProofs!RecordsPoint` | `Spec => []RecordsMatchBook` |
| `SettlementsProofs!CreatedIsRecorded` | `Spec => []CreatedMeansRecorded` |
| `SettlementsProofs!RefusalsAreClean` | `Spec => []RefusedRecordsNothing` |
| `SettlementsProofs!ConflictsAreStale` | `Spec => ConflictOnlyAfterExpiry` |
| `SettlementsProofs!SettlementsSerialised` | `Spec => []GroupSerialised` |
| `SettlementsProofs!Refinement` | `Spec => ImplementsLedger` |
| `GroupLedgerProofs!EqualSplitsAddUp` | the shares of `calculateEqualSplits` add up to the total |
| `GroupLedgerProofs!UnitsAreDealt` | they are those of dealing the units out one by one, in turn |
| `GroupLedgerProofs!BalancesCancel` | balances of users who include everybody in the records add up to zero |
| `GroupLedgerProofs!TypeCorrect` | `Spec => []TypeOK` |
| `GroupLedgerProofs!Invariance` | `Spec => []IInv` |
| `GroupLedgerProofs!ExpensesAddUp` | `Spec => []SplitsMatchTotals` |
| `GroupLedgerProofs!BalancesAddUp` | `Spec => SettledBalancesAddUp` |
| `GroupLedgerProofs!ExpenseFeedFaithful` | `Spec => []FeedTellsExpenses` |
| `GroupLedgerProofs!MemberFeedFaithful` | `Spec => []FeedTellsMembers` |
| `GroupReadsProofs!Invariance` | `Spec => []IInv` |
| `GroupReadsProofs!CacheIsCurrent` | `Spec => []CacheTellsTheGroup` |
| `GroupReadsProofs!OnlyMembersServed` | `Spec => []ServedToMembers` |
| `GroupReadsProofs!WalkInvariance` | `Spec => []WalkInv` |
| `GroupReadsProofs!WalksMissNothing` | `Spec => []WalksAreComplete` |
| `JobQueueProofs!Invariance` | `Spec => []IInv` |
| `JobQueueProofs!JobsAreKept` | `Spec => []JobsNotLost` |
| `JobQueueProofs!WorkersExclude` | `Spec => []OneWorkerPerJob` |
| `JobQueueProofs!AttemptsAreMade` | `Spec => []GivenUpAfterAllAttempts` |
| `JobQueueProofs!CompletionIsFinal` | `Spec => []CompletedStaysCompleted` |
| `JobQueueProofs!OneJobAtATime` | `Spec => [](inTurn => at most one worker runs a handler)` |
| `JobQueueProofs!ImplementsQueue` | `SummarySpec => Spec` of `JobQueue` |
| `JobQueueProofs!RecomputesAreKept` | `SummarySpec => []JobsNotLost` |
| `JobQueueProofs!SummaryInvariance` | `SummarySpec => []SummaryInv` |
| `JobQueueProofs!PerformedIsSummarised` | `SummarySpec => []PerformedMeansSummarised` |
| `JobQueueProofs!SummaryMovesOn` | `SummarySpec => SummaryNeverGoesBack` |
| `AuthSessionsProofs!Invariance` | `Spec => []IInv` |
| `AuthSessionsProofs!RotatedOnce` | `Spec => []SessionsEndOnce` |
| `AuthSessionsProofs!ResetEnds` | `Spec => []ResetEndsSessions` |
| `AuthSessionsProofs!UsedOnce` | `Spec => []LinksWorkOnce` |
| `AuthSessionsProofs!VerifiedWasMailed` | `Spec => []VerifiedAddress` |
| `ApiServerProofs!LimiterInvariance` | `Spec => []LimitInv` |
| `ApiServerProofs!LimitersHold` | `Spec => []LimitsHold` |
| `ApiServerProofs!MetricsInvariance` | `Spec => []MetricsInv` |
| `ApiServerProofs!CountersHold` | `Spec => [](\A p \in Processes : \A rt : CountersTell(p, rt))` |
| `ApiServerProofs!BucketsHold` | `Spec => []` each response is counted in its one bucket |
| `ApiServerProofs!MetricsTell` | `Spec => []MetricsTellResponses` |
| `MobileSessionProofs!Invariance` | `Spec => []IInv` |
| `MobileSessionProofs!PresentedOnce` | `Spec => []RotatedTokensAreReplaced` |
| `MobileSessionProofs!StoredIsLive` | `Spec => []StoredTokenIsLive` |

They hold for any values of the constants. Those of `DistributedLockProofs` and
`SettlementsProofs` hold for any sets of attempts, users, keys, groups and requests; the
assumptions are `NoAttemptAssumption` and `NoProcAssumption` (the null values are
not attempts), `OwnerAssumption` (each group has an owner) and
`RequestsAssumption` (the shape of a request).

`AtMostOncePerKeyLife` is not inductive. It follows from `RecordsMatchBook`: a live
settlement is the one its key's record names, and a record names one. That in turn
needs, while a transaction is open, that no other transaction writes the same key
and that the key is free or expired (`OneWriterPerKey`); that an id read earlier
still means the same settlement when it is used (`SeenStaysTrue`: rows may be
replaced, but an attempt never claims twice); that a committed record belongs to an
attempt that is past its transaction (`RowsBelongToFinished`); and, for the foreign
key, that a group with an uncommitted settlement still exists (`WriterHoldsGroup`,
which needs `OwnerIsMember` because an empty member set stands for a deleted
group). `IInv` is the conjunction; the proof has one lemma per action.
`GroupSerialised` needs the lock alone: `HoldFollowsPc` and `TokenIsStored` are
inductive by themselves. The refinement maps every step, `Add` being `Commit` and
`Replay` being the successful `Replay`.

`GroupLedgerProofs` holds for any calls, users and requests, under
`RequestsAssumption` (what validation lets through), `AbsentAssumption` (an omitted
field is not a value), `OwnerAssumption`, `UsersAssumption` (the registered users
are finitely many, as the rows of a table are), `PrecisionAssumption` and
`LastTimeAssumption` (they are numbers, and `Precision` is not zero).

Sums are the folds of the community modules. The induction theorems of the library take
an operator and cannot be used, but "every set of numbers that is not empty has a least
one" (`LeastOf`) can be proved without them, and from it that a set of numbers, or of
finite sets, that is closed under the next one holds all (`AllNumbers`, `AllSubsets`).
With these a sum is the same in whatever order it is taken (`SumsAgree`), and can be
taken apart and added up (`SumTakes`, `SumAdds`, `SumPlus`). `EqualSplitsAddUp` and `UnitsAreDealt` then
speak of `calculateEqualSplits` for any total and any number of participants.
`BalancesCancel` holds because each expense and each settlement cancels by itself over
the users (`ExpenseCancels`, `SettlementCancels`), whatever the number of rows
(`ColumnsCancel`). `BalancesAddUp` needs the state besides: the rows that a reader sees
add up, and their people are among the members that it shows; and, because `toNum`
rounds each balance by itself, that none of them is beyond `Precision`.

`SplitsMatchTotals` is not inductive: an update stores splits that were computed
earlier, from a row and splits read at different moments. `IInv` adds that a planned
expense adds up, or the expense it replaces is gone (`DraftsMatchTotals`); that
missing splits in what an update read mean that the expense is gone
(`MissingSplitsMeanDeleted`); and that an expense that is gone does not come back
(`CreatedOnce`). The proof sorts the actions into handlers that end (`EndStep`),
read (`ReadStep`) and plan a write (`DecideStep`), and then has one lemma per action.

`AuditInv` is what the feed needs. Nothing is recorded about an expense before its call
has ended (`NothingBeforeCreation`), and each event changes what its predecessor left:
an event of a user is appended with the membership it is about (`FollowingIsNext`,
`EventAppended`). For expenses the invariant keeps the chain of the commits (`Trail`): the
addition came first, and the last addition or update carries the present total
(`LastChange`). The dates then relate this chain to the order shown: an event is dated
no later than it is committed, and commits are in the order of time (`FeedDated`); a
call that is about to write began after the addition and not in the future
(`WritersDated`). So an update that was committed before the last one and is dated after
it must have begun before the last one was committed (`TrailIsShown`), which is what
`Tells` excepts.

`JobQueueProofs` holds for any jobs, workers, `MaxAttempts` and `MaxFaults`
(`QueueAssumption`). That no job is lost is not inductive: a worker removes a job from the
schedule, so it must have reached an end before (`RemovedIsSettled`), and a worker that
finds no payload gives the job up, so a missing payload must mean an end
(`MissingIsSettled`). That one worker runs a job rests on the lease, which `complete`,
`discard` and `retryAfterFailure` delete without looking whose it is: whoever is past the
`SET NX` holds it or the payload is gone (`LeaseOrNothing`), whoever runs the job or is
about to write its payload holds it (`RunningHasLease`) and nobody else is past the
`SET NX` (`RunningAlone`), all as long as no lease of the job has lapsed.
`AttemptsCounted` bounds the attempts in payload and memory by the failures that there
were. Nothing in the code keeps two workers off two jobs; that they run one at a time
follows from the order of the queue, where a leased id stays until it is completed
(`Turns`): as long as `inTurn`, whoever runs a job runs the head. The module
then shows that the worker that recomputes summaries implements the queue, so that the
theorems hold of it. `SummaryInv` adds that what was asked for and what was stored is of
the past (`Past`), and that what a run has read is no older than its request and, while
`inTurn`, than the stored row (`ReadsAreOfTheRun`): a second run that stores between the
reads and the upsert of a first would break it, and `Turns` excludes that. So an upsert
covers the changes before its request (`PerformedMeansSummarised`) and does not take the
summary back (`SummaryNeverGoesBack`).

`AuthSessionsProofs` holds for any calls, accounts, addresses and passwords. `IInv` says
what an open transaction may rely on: a rotation that is about to insert has the old
session still active and is the only one on it (`RotationHoldsToken`), a reset that is
about to commit is the only one of its user and holds every active session that is
older, except those marked `late` (`ResetHoldsLink`), a login that is about to issue a
session knows the present password or overlapped a reset (`LoginKnowsPassword`), what a
call creates is new (`RowsAreNew`) and rows refer to rows (`RowsRefer`).
`VerifiedAddress` looks at three moments, the mail, the use of the link and the commit, and
`AddressInv` follows the address through them: a link that can be used was mailed to its
user's address (`LinksReachUser`), one about to be mailed will be (`SightsAreCurrent`), or
the address has changed and the link is among `moved`.

`ApiServerProofs` holds for any processes, requests, starts, windows and limits. A counter
of Redis or of a process is incremented by requests that are then let through or not, so it
lies between those that passed in the window and those that came, together with the times a
request was counted without an answer (`CounterBetween`), and a request whose count was
answered never comes back to a limiter (`CountedOnce`). This holds for each store and each
budget, the limiters that count together in it; that the requests are finitely many is an
assumption (`ServerAssumption`), because they are counted.
The metrics of a process agree with the responses it has sent, series by series (`Tells`),
because a response is recorded when its request ends and so is a new one
(`ResponsesEnded`), a route and a status make a series that no other pair makes
(`ResponseSeries`, `DurationSeries`), and whatever else is counted has another name.
`CountersHold` is `CountersTell` for every route, and `BucketsHold` is what is stored, a
count for each bucket. `MetricsTell` adds what is rendered: as the bounds of the
buckets increase (`BucketsAssumption`), the responses that took at most the next bound are
those that took at most this one and those of the next bucket (`AtMostGrows`), so that the
running totals of `renderHistogram` tell them, by induction over the buckets
(`CumulativeTells`).

`GroupReadsProofs` holds for any calls, users, requests and faults. What a reader has found
is what there is unless something was committed since its first query (`FoundIsCurrent`),
so that a fill leaves the cache true or a reason in `doubt`; and whoever has passed, or
may still pass, the membership check was noted as a member (`MemberIsNoted`).
`WalksAreComplete` speaks of the end of a walk through the pages of a listing; `WalkInv` says
what holds at every page before it: unless a record was erased meanwhile, what was there at
first is in the pages the client has or in those after them, and in the former once a
page came back short or a total that was not torn from its page has been reached
(`NothingMissed`); such a total is the number of records as long as the call is at its
page (`TotalHolds`); and as long as nothing was added or removed the client has the
beginning of the listing, each record once (`NothingTwice`). Additions and removals shift
the later pages; lemmas about sequences and their pages carry the argument. It needs pages
of a positive size (`ReadsAssumption`), which `utils/pagination.ts:18-22` ensures.

`MobileSessionProofs` holds for any calls, `MaxFaults` and `MaxExpiries`
(`SessionAssumption`). One call at a time renews the session (`OneRenews`): the launch is
alone while it does so (`LaunchAlone`), and requests share the refresh in flight
(`FlightIsRenewed`). Then the stored refresh token is spent only while its successor is
being stored, or when that successor was lost (`astray`), and no two calls hold one new
pair (`TokensFit`). For `StoredTokenIsLive`,
as long as there was no fault, a pair that is being stored is live, and so is the stored
token unless a call is about to overwrite or clear it; a logout revokes a token that was
stored, hence none of a pair that is still to be stored (`LiveFit`). Actions that hand out
no pair and store none are treated alike (`Quiet`, `QuietLive`).

Only model-checked: the liveness properties (`LockEventuallyFreed`,
`EveryAttemptAnswered`, `EveryJobLeaves`, `ShutdownsEnd`, `CallsEnd`) and `SomeoneGoesOn`,
which are out of the proof system's reach (fairness, `ENABLED`). `SomeoneGoesOn` says that
an action is enabled, and without `ENABLED` a theorem would restate guards. `UnitsAreDealt`
is also evaluated on small numbers, as `MCGroupLedger!SharesAreDealt`. What `toNum` gives beyond
`Precision` is evaluated on small numbers only (`NumbersAreNearest`): `Grain` is recursive.
The three properties that section 5 names as violated do not hold.

## 5. Where code and documentation disagree

Three runs find a behaviour that a document or a comment excludes:

* `ShownBalancesAddUp` (`src/backend/README.md:1451`): balances are shown for the
  current members only, so once a member with a balance has been removed they no
  longer add up to zero. `SettledBalancesAddUp` is what does hold.
* `EverySessionEnds` (`src/backend/README.md:1021`; `modules/auth/auth.repository.ts:257`): a
  reset revokes the refresh tokens that its `updateMany` sees. A login that has checked the
  old password, or a rotation that overlaps with the reset, inserts another one, which
  stays active. `ResetEndsSessions` is what does hold, with these sessions marked
  `late`.
* `ExpiredWhenRefreshFails` (`src/frontend/README.md:64`): the retry after a refresh carries
  the Authorization header of the failed request, which `_onRequest` does not
  replace, so it fails with a second 401 and the session is expired although
  the refresh succeeded.

Others were met while modelling; the models have these behaviours, and no run states the
excluded property:

* The newest event about an expense need not carry its total, against "newest first"
  (`src/backend/README.md:1607`) and "a faithful audit trail" (`:1385`): an update takes the
  `occurredAt` of its event before it waits for the row (`expense.repository.ts` 148-149), so
  that of two updates that overlap the one dated first may be the one committed last.
* The four e-mail endpoints do not share a rate limit (`src/backend/README.md:1032`) unless
  Redis is connected when a process starts: `app.ts:95` makes a limiter for each, with a
  `MemoryStore` of its own, so that the process lets the limit through four times.
* The route label of a summary request contains the id of a group, and if another request is
  routed before the response ends, that of another group, against "never raw URLs, IDs"
  (`metrics/httpMetrics.ts:27`): Express keeps the matched path, not the pattern, in the layer
  of a mounted router (`metrics/route.ts:76`); `layers` in `ApiServer`.
* A lost update: `updateExpense` writes all fields, those that its request did not name
  with the values it read earlier (`modules/expenses/expense.service.ts:231`), so one of
  two concurrent updates of different fields can be lost, against "Merges the provided
  fields over the current expense" (`:175`).
* The loser of two concurrent requests with one key does not always receive the original
  (`src/backend/README.md:1572`): the group lock turns it away with 409 before the record is
  looked at.
* Membership is read before the lock and not again, so a settlement can be recorded
  for a user who has just been removed (`src/backend/README.md:1480`).
* An update that names no participants keeps the shares of users who have left the group
  (`src/backend/README.md:1361`).
* A changed profile does not invalidate the cached details of the user's groups
  (`groups/group.cache.ts:121`; `src/backend/README.md:684`): `doubt` has `"profile"` for it.
* A verification link that was mailed to an old address verifies a new one, if it is
  still outstanding when the address changes (`modules/auth/auth.service.ts:167`): `moved`
  in `VerifiedAddress`.
* A 401 that arrives after a shared refresh has ended starts a second one, with the
  new token (`src/frontend/lib/core/network/api_client.dart:203` says "401 storms on
  parallel GETs never rotate twice"); the token that was rotated is not presented again.
* Balances beyond 2^53 are rounded one by one (`settlement.service.ts:91`), so that the ones shown
  need not add up to zero (`src/backend/README.md:1451`) even when every member is shown:
  `IsExact` in `SettledBalancesAddUp`.
* An addition of a member is dated before it waits for the row of the membership, so that
  the feed may show it below a removal that was committed first
  (`src/backend/README.md:1607`).
* A logout whose request fails clears the tokens and passes the error on before the
  status is set, so that the pages of a signed-in user stay
  (`src/frontend/lib/features/auth/logic/auth_controller.dart:93`).
* `settlements_created_total` counts replays as well (`settlement.service.ts:156`;
  `metrics/registry.ts:331`), and an activity event is counted inside the transaction
  that may still roll back (`activity.repository.ts:69`).
* The limiter of all requests runs on every path (`app.ts:67`) although it is documented
  for `/api/v1`; its 429s and the rejections of the edge guard are not in
  `http_errors_total`, because the metrics are mounted after them.
* A page and its total are two queries, so that a client may stop one page early or ask
  for an empty one (`torn` in `WalksAreComplete`).

## 6. Hazards

Listed in `PROJECT.json` at the lines where they bite, with the properties that watch
them. Three have no property: that a member can be removed between the check and the
recording of a settlement and that route labels contain ids, which the code allows, and the
retry of the app's settle sheet (section 8). Where the code lets a hazard happen, the property that watches it bounds
what follows, with the cause recorded in a history variable: `doubt` for a late fill of the
cache, `late` for sessions that survive a reset, `moved` for links mailed to an old
address, `inTurn` for recomputations that overlap after a lease has lapsed, `astray` for
successors of refresh tokens that were lost.

## 7. Plan

Done, in this order: `DistributedLock`, `Idempotency`, `Settlements`, `IdempotentLedger`;
`Money` and `GroupLedger`; `JobQueue` and `GroupSummary`; `AuthSessions`; `GroupReads`
(the cache and the listings); `Metrics` and `ApiServer` (processes and rate limits);
`MobileSession`.

Left:

1. `SettleFlow`: the key that the settle sheet of the app keeps across its retries,
   composed with `IdempotentLedger` and with a group that changes while the sheet is open.
2. Where business events are counted, and the worker's metrics port.

## 8. Not modelled

The settle sheet of the app
(`src/frontend/lib/features/balances/presentation/pages/balances_page.dart`): what the
server makes of its retries is in `Settlements`. Configuration and API documentation
(static data); validation schemas, CORS and security headers, request ids, logging and
error formatting; e-mail templates and SMTP (I/O); hashing and the signing of access tokens
(stateless functions); the widgets, navigation and formatting of the app; queries without
effect that are not about races (`findGroupsByUserId`, reading a summary). PostgreSQL,
Redis, Express, dio and the keychain are external; what is used of them is modelled inside
the modules above.
