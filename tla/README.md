# Quick-bite core service: specifications, model checks and proofs

This directory models the core service (restaurants, branches, products, stock,
members, addresses, media, and the outbox that tells the other services about
them) in TLA+. Each module translates code under `src/src/`; `PROJECT.json`
maps every definition to its lines. TLC checks small instances, TLAPS proves
the main safety results for every instance.

    tlc -workers 2 -config MCStock.cfg MCStock       # one run
    tlapm Stock_proofs.tla                           # one proof module

## 1. The system

Several stateless API processes (Express) and one or more outbox workers share
one Postgres, one Redis and one RabbitMQ.

| Component | State | Operations | Talks to |
|---|---|---|---|
| Branch stock (`app/product`) | `product_branch_details`: price, stock, available per branch and product | `reserveStock`, `releaseStock` (order service, internal API), the branch part of `update` (managers), the insert trigger on `products` | outbox, in the same transaction |
| Product catalog | `products`, `product_categories` | create, the product part of update | trigger above |
| Transactional outbox (`lib/events/outbox.repo.ts`) | `events_outbox`: BIGSERIAL id, `dispatched_at`, `attempts` | insert (one or many), claim, mark dispatched, mark failed | its callers' transactions |
| Outbox worker (`worker.ts`, `outbox-drain.ts`) | its open transaction | boot, drain every cron tick, shutdown | outbox, RabbitMQ |
| RabbitMQ client | connection and confirm channel of `amqp-connection-manager` | connect, declare, publish with confirm | broker |
| Idempotency middleware | Redis `idempotency:<method>:<url>:<key>`, one day | look up, wrap `res.json` | reserve and release routes |
| Response cache (`withCache`) | Redis `GET:<url>`, 60 s | look up, wrap `res.json` | internal branch routes |
| Branches | `restaurant_branches` | create, update, updateStatus, lookups | outbox, cache DEL |
| Restaurants | `restaurants` | create with owner, update, updateStatus | outbox |
| Members and roles | `restaurant_members`, `member_branches` | invite, update, branches, remove | invitations, mail |
| Authorization | per-process permission cache, JWT claims | rbac, branch access | - |
| Registration, login, refresh | `users`, JWTs | register, login, refresh | restaurants, members |
| Password reset, invitations | `password_resets` | request, reset, accept invite | users, members, mail |
| Customer addresses | `customer_addresses` | create, update, set default, delete | - |
| Media | `media`, S3 objects | presign, complete, remove | S3 |
| Cursor pagination | none | parse, query, next cursor | - |
| HTTP plumbing, configuration, logging, mail, health | none | - | - |

What is hard here: Postgres transactions at READ COMMITTED that interleave
statement by statement; row locks taken in an unspecified order; ids drawn
before the commit; rows claimed with SKIP LOCKED by several workers; a publish
whose confirm is lost; worker and API processes that die between two steps;
Redis commands that are sent and not awaited, so that answers overtake them;
cached answers filled from reads that are already old. `PROJECT.json`,
"hazards", lists each at its line, with the properties that watch it.

What makes the components correct:

* stock: no lost update; a batch happens as a whole or not at all; announcements
  agree with the commits, in content and in order; every request is answered;
* outbox: an event is published only if its mutation committed, is retired only
  if published, and is published in the end; duplicates come only from failures;
  consumers end up with the values in the database;
* idempotency: an operation runs once per key, a replay tells the truth;
* cache: an entry does not outlive the update that deletes it; entries converge;
* members and codes: nobody holds a branch without being a member; a removed
  member and a spent code stay so; an invited person's newest code counts until a
  password is stored, and a password comes with an active membership or a known cause;
* sessions: a claim or a cached permission that is no longer true expires within
  a bound; no guard, alone or with the others, lets a restaurant into another one;
* registration: what the caller is told is true, and everybody is told something;
* addresses: one default per user, and nobody else's row is written;
* media: a row says the truth about its object, and a removed upload stays removed;
* catalog: a product has a row at the branches of its restaurant and no others;
* pagination: a walk shows every row that stays put, once.

## 2. Modules

| Module | What it is |
|---|---|
| `StockData` | constants and data shared by the two descriptions of the stock |
| `StockLedger` | the abstract specification: atomic provision, reserve, release, patch, each with its announcements |
| `Stock` | the transactions of the code, statement by statement; implements `StockLedger` |
| `OutboxRelay` | producers, workers, broker |
| `StockFeed` | `Stock` and `OutboxRelay` composed, with a consumer's copy |
| `Idempotency` | the strict middleware on several processes |
| `BranchCache` | `withCache` on the branch lookups and the writes that make entries stale |
| `Membership` | one person's user, member, branch and code rows under concurrent calls |
| `Media` | one upload: row, object, presigned URL, client |
| `Addresses` | the address table, with the default of each user |
| `Sessions` | tokens, guards and the permission caches while a membership changes |
| `Registration` | the transaction of `register`, the pool it runs on, the unique indexes |
| `Listing` | a client's walk through `GET /restaurants` while restaurants are written |
| `Catalog` | products, categories and branch rows while branches are opened |
| `Services` | `Media`, `Sessions`, `Catalog` and `Idempotency` side by side |
| `Requests` | `Addresses`, `BranchCache`, `Registration` and `Listing` side by side |
| `*_proofs` | theorems about `Stock`, `OutboxRelay`, `StockFeed`, `Membership`, `Media`, `Addresses`, `Services`, `Requests` |
| other `MC*` | instances for TLC |

Definitions called `...` under a comment `Mutant:` are plausible bugs, used to
see that each property can fail; no specification uses them.

### Stock

One branch; `row`, `provisioned` and `outbox` are the committed tables, `lock`
the row locks, and the functions over `Requests` the local state of each
request. `Begin` is the controller's check, `sanitizeStockItems` and `BEGIN`;
`LockRow` one step of `SELECT ... FOR UPDATE` (for a patch, of the `UPDATE` itself),
which waits for a held lock and reads the latest committed row; `Refuse`,
`Overflow` and `Update` the JavaScript between the two statements and the
`UPDATE`; `Emit` the outbox `INSERT`, which draws ids; `Commit`, `Abort` and
`DeadlockVictim` the ways a transaction ends.

* The order in which `FOR UPDATE` finds the rows is arbitrary: the query has no
  `ORDER BY`. Cycles of waiting transactions arise, and Postgres aborts a member.
* `Commit` may take effect while its acknowledgement is lost: the service throws.
* A batch may list a product twice. Items are checked and computed one by one, as
  in the code, and the `UPDATE` picks one of the matching VALUES rows.
* Ids are drawn as `nextId + index`, so gaps may appear, as with a BIGSERIAL.
* A release with no known product still commits; its `Update` and `Emit` change
  nothing but the request's own position and the sequence, where the code skips
  both statements.
* `CreateProduct` is the trigger's effect on one branch. It excludes products that
  a transaction in flight names: their ids exist before they can be asked for.
* Requests do not repeat. Retries are the subject of `Idempotency`.

`AtomicOperations` is the refinement: with `feed <- outbox`, every step of `Stock`
is a step of `StockLedger` or stutters; the step that matters is `Commit`. It is
checked for batches without duplicate products, because with them it does not
hold (finding 1).

### OutboxRelay

`Insert`, `CommitInsert` and `RollbackInsert` stand for any service that writes
an event in its transaction. All of them update the aggregate's row first, so
one such transaction per aggregate is open at a time. `Claim` is `claimBatch`,
taken as one step (the interleaving of two scans row by row is left out);
`Publish`, `ConfirmLost` and `PublishRejected` are the outcomes of
`publishConfirmed`; `MarkDispatched` and `MarkFailed` write in the worker's
transaction; `Commit` makes them visible; `RollbackDrain` is the catch, a crash,
or the shutdown handler, which does not wait for the drain. While the broker is
away a publish stays pending and the transaction stays open, as the client library
buffers it. Postgres is taken to end the transaction of a dead worker before its
successor claims; a connection that lingers behaves like a second worker.

### StockFeed

The committed and uncommitted rows of `Stock` are the relay's `outbox` and
`inserting`. Payloads carry the new value, and `occurredAt` is the time of the
publish, so a consumer has nothing to order messages by and keeps the last one.

### Idempotency

A key stands for one operation. `effects` counts how often the operation took
effect, `causes` how often something (an attempt sent while another is
unfinished, a look-up that overtakes another process's SET, a crash, an expiry)
gave it another chance. Commands of one process reach Redis in order; the SET is
not awaited. A failed SET is an unhandled rejection, which ends the process:
`Crash`. `LookupFails` is the 503 of strict mode.

### BranchCache

Rows are represented by the number of writes they have seen. The URL "list" stands
for the batch lookup, whose entry no write deletes. `CommitBranch` and
`Invalidate` are `update` and `updateStatus`; `InvalidateFails` is a failing DEL
inside the `try` whose `catch` rolls back a transaction that is already over.

### Membership

All four tables are partitioned by person, so one account at one restaurant is
modelled: `password` (the `users` row), `member`, `assigned` (`member_branches`)
and `resets` (`password_resets` in id order). Each request is one call, and each
of its statements one action, because only `createMember` uses a transaction:

| Call | Actions |
|---|---|
| `createMember` | `Invite` (checks), `InsertUser` (waits for an open insertion of the same e-mail, then meets the unique constraint), `CommitInvite` |
| `updateMember` | `Update`, `WriteMember` |
| `deleteMember` | `Remove` (checks), `DeleteBranches`, `DeleteMember` (with the cascade) |
| `updateMemberBranches` | `Assign` (checks), `Clear`, `Place` (fails on the foreign or the primary key) |
| `forgetPassword` | `Forget`, `Issue` |
| `resetPassword`, `acceptInvite` | `SubmitCode`, `CompareCode`, `StorePassword`, `Consume`, and `Activate` for the latter |
| `login` | `Login`, `FindMembership`, `ReadBranches` |

`BreakOff` is a process that dies or a statement that fails, before any of them.
`wanted` is a history variable: what the last replacement asked for, or `Unknown`
once two of them overlapped or one broke off between its two statements. "staff"
stands for every role that is not owner. A code is its row's id: that two
six-digit codes coincide is left out. The DTOs and the foreign-branch check are
the refusals of `TurnedAway`.

### Media

Keys are UUIDs, so uploads do not meet and one is enough. `Reserve` and
`GetUploadUrl` are `createUpload`; `Complete`, `StatObject` and then `MarkReady`,
or `DeleteObject` and `MarkFailed`, are `complete`; `Remove`, `DeleteObject`,
`MarkDeleted` are `remove`. None is a transaction and no `UPDATE` looks at the status
that was read. `BeginPut` and `EndPut` are the client: S3 checks the signature of
a PUT when it begins and shows the object when it ends, so one that began before
the URL lapsed may end after anything. Roles with their permissions and the
ownership check decide who may start a call; sizes are within the cap or over it.
The history variables name the causes that the properties except: `torn` a call
that broke off between the deletion of the object and the `UPDATE`, `overtaken` a
deletion between another call's `HeadObject` and its `UPDATE`, `rewritten` a PUT that
ended after S3 had been asked.

### Addresses

`Create`, `Update` and `Remove` are the checks at the head of the three methods;
`ClearDefault`, `InsertAddress`, `UpdateAddress` (or `UpdateMissing`, where the row is
gone and `toEntity(undefined)` throws) and `DeleteAddress` their statements.
Ownership is compared once, before the statements, which name the id only.
`raced` remembers users whose default was written while another of their calls
was between its two statements; the next clearing takes them off.

### Sessions

`FindMembership` and `Sign` are `login`, `Refresh` is `refresh`, which copies the
claims of the refresh token. `Authenticate` is `authenticate`, the guard of the
route (`requireRestaurantMember` or `requireBranchAccess`) and the head of `rbac`,
which run without yielding; `FetchPermissions` and `StorePermissions` the rest of `rbac`
on a process whose cache has no live entry. `Verdict` ends with the services' own
check, `OwnRestaurant`. Rows change by `ChangeMember` (the calls of `Membership`; a
suspended member can be made active again) and `Migrate`; `Restart` empties one process's cache. Time is counted in ticks; the
three lifetimes are constants. `heldRole`, `heldBranch` and `heldGrant` remember
when something was last true in the tables or in the hands of a call that had read
it there, which is what an age is measured from.

### Registration

`register` of the auth service for owners and customers. `Arrive` asks the pool for
a connection; `BeginTransaction` gets one; `CheckExists` needs a *second* one,
because `findUserExistsByEmailOrPhone` is not given the transaction, and `AcquireTimeout`
is what happens to it when the pool stays empty. `InsertUser` waits for an open
insertion of the same e-mail or phone and then meets the unique indexes;
`InsertRestaurant`, `InsertOwner` and `Commit` follow. What the caller is told is
the answer of `errorHandler`: a duplicate found by the check is an `AppError`, one
found by the index is a 500. A `COMMIT` may take effect and be reported as an error.

### Listing

`Limit` is `parsePaginationQuery`, `Matching` the `WHERE` of `applyFilters` and
`applyCursorPagination`, `FirstRows` any rows that `ORDER BY` with `LIMIT` may give,
`CursorOf` the cursor of the last row. A page is one action: `NextPage`,
`WholeList` (no limit: a limit that is not a number turns pagination off),
`EmptyPage` and `BadLimit` (limits of 0 and below). `CreateRestaurant` and `UpdateRestaurant`
are writes between two pages. Keys are the values of the sort column, of which
rows may share one.

### Catalog

`Create` and `Update` are the heads of `create` and `update`; `FindCategory`,
`CreateCategory`, `InsertProduct` with its trigger and `CommitProduct`, `UpdateProduct`
and `PatchRow` (the transaction that `Stock` models in detail) their statements.
`InsertBranch` and `CommitBranch` open a branch: the trigger sees committed branches
only. `late` remembers the pairs of a branch that was committed after the insertion
of a product. `details` keeps who wrote the row last.

### Services and Requests

Media, Sessions, Catalog and Idempotency share no table, key or lock, and neither
do Addresses, BranchCache, Registration and Listing, or only rows that none of
the four writes. Their steps commute, and every property is about one of them, so
nothing is lost by checking them one at a time: the variable `part` picks one and
the others stay in an initial state. That is bookkeeping, not composition;
composition is `StockFeed`. `PartsBehave` and `RequestPartsBehave` prove that every
behaviour of the whole is, seen from one of the instantiated parts, a behaviour of
that part. In `MCServices` calls are symmetric. `MCRequests` checks liveness, where
symmetry is not sound, and instead names two calls that are the same user's.

## 3. Runs

| Run | Instance | Shows |
|---|---|---|
| `stock` | 3 requests (symmetric), 2 products, 4 batches (one and two products, both orders, one malformed), 2 patches, stock 2, `MaxInt` 3 | `DecisionInv` (which contains the types, `StockInv` and `DrawnAbove`), `ReadsStayCurrent`, `LatestEventIsCurrent`, refinement of `StockLedger` |
| `stock_answers` | 3 requests on the same two rows | `EveryRequestAnswered` |
| `stock_duplicates` (violation) | 2 requests, stock 2, a batch that asks for 1 and 2 of one product | `ReservedInFull` fails |
| `relay` | 2 workers, 2 aggregates, 3 rows, batch of 2, 1 failure | `OnlyCommittedPublished`, `RetiredWasPublished`, `ClaimsExclusive`, `DuplicatesInv` (which contains `RelayInv`), `DuplicatesBounded`, `EveryEventDispatched` |
| `feed` | 1 worker, 3 requests on one product, 1 failure | `ConsumerAgreesWhenDrained`, `FeedInv` |
| `feed_two_workers` (violation) | 2 workers | the same fails without any failure |
| `services` | *media*: 3 calls, sizes small and big, 1 break-off; *sessions*: 2 calls on 1 process, 2 ticks per lifetime, 3 ticks, 1 change or restart; *catalog*: 3 calls, 2 products, 2 restaurants with a branch each, one of which is opened during the run, 1 break-off; *idempotency*: 3 attempts, 2 keys, 2 processes, 2 crashes or expiries | `MediaInv`, `ReadyIsBacked`, `DeletedStays`; `ClaimsExpire`, `PermissionsExpire`, `KeptApart`; `ProvisionedExactly`, `CatalogStaysHome`, `HalfDoneOnlyWithoutRow`, `ForeignBranchesUntouched`; `RepeatsHaveACause`; `ServicesInv` |
| `requests` | *addresses*: 3 calls of 2 users, 3 rows; *branch cache*: 2 lookups, 2 updates, 1 suspension; *registration*: 3 of owners and customers that share an e-mail or a phone, a pool of 2, 1 failure; *listing*: 3 restaurants, 3 keys, limits -2 to 3 or none under a cap of 2, 1 write | `AddressesInv`, `OneDefault`, `OthersUntouched`; `StaleOnlyByRacingFill`, `EntriesConverge`; `AnswersAreTrue`, `EveryRegistrationAnswered`; `SkipsOnlyTies`; `RequestsInv` |
| `idempotency_overlap` (violation) | overlapping attempts | `RepeatedKeyRunsOnce` fails |
| `idempotency_replay` (violation) | 2 attempts with one key, none of which fails or overlaps | `SuccessMeansDone` fails |
| `membership` | 3 calls (symmetric), 2 branches and 2 passwords (symmetric), 1 break-off | `NoOrphanAssignments`, `ReplacementIsExact`, `InviteOpenOrSettled`, `MembershipInv`, `RemovalIsFinal`, `SpentCodeIsDead` |
| `membership_replace` (violation) | 2 calls, nothing breaks off | `AssignmentWasAsked` fails |

Why the bounds are enough to be interesting. Three requests on two rows are the
least with a waiting cycle and a third transaction in between; stock 2 with
quantities 1 and 2 makes the second reservation succeed or fail depending on the
first; `MaxInt` 3 lets a release overflow. Two workers and a batch of two out of
three rows let claims overlap, leave rows behind and end a batch in the middle.
Three calls are the least in which a removal, an assignment and a code can
overlap, or a code be issued, spent and tried again; the starting states (nobody, an
invited, an active member, an owner) save the calls that lead there. Three calls
on an upload let a removal fall between the two halves of a completion and a third
call find what they leave; three on addresses make two of one user race beside
another user's. Lifetimes of two ticks let a refreshed token outlive the refresh
token that it came from, and an entry be stored a tick after it was read. A pool
of two is exhausted by two registrations, with a third in the queue. Three rows
with a cap of two give a second page, a tie at its edge and a row that moves across it.
`MaxRows`, `MaxFaults` bound counters that the code does not bound; the theorems
below hold for every value of them. `CHECK_DEADLOCK FALSE` is given throughout:
requests run once and the system may come to rest.

Fairness. `Stock`: a begun request issues its next statement, Postgres grants free
locks and detects deadlocks; nobody has to send a request and no failure has to
happen. `OutboxRelay`: the cron job ticks for ever and a drain runs to its end,
and the library reconnects; failures are finitely many. `BranchCache`: begun
lookups go on, Redis executes commands and expires entries; no write has to
happen, and a DEL may never be sent. `Registration`: a registration that has arrived
goes on (each statement ends, the pool's queue is served and its timeout fires);
nobody has to arrive. In `MCRequests` these conditions bind only when their part
was picked, as their actions are not enabled otherwise. Liveness under endless failures is not
claimed: a row the broker refuses for ever stays at the head of every batch, and
nothing reads `attempts`.

### Findings

1. A batch that lists a product twice reserves one of the two quantities. In the
   trace of `stock_duplicates` 1 and 2 are asked for of a stock of 2: both items
   pass, one quantity is taken, and two events announce stocks of 1 and 0.
2. Two workers can publish the events of one product out of order, although the
   comments call parallel workers safe (`feed_two_workers`).
3. Two overlapping attempts with one Idempotency-Key both take effect
   (`idempotency_overlap`).
4. An error answer is stored and replayed with status 200: in the trace of
   `idempotency_replay` an attempt is refused with 409, and the retry sent after
   that answer is told 200.
5. Two overlapping replacements of a member's branches leave the union of both
   (`membership_replace`): `setMemberBranches` deletes and inserts without a
   transaction there.

A lookup that raced with an update can store the old branch after the DEL, for up
to the TTL. That is the one exception `StaleOnlyByRacingFill` leaves.

## 4. Proofs

Every invariant and action property that a passing run checks is also a theorem,
for every value of the constants; so is the refinement of `StockLedger`. The two
hypotheses that some theorems add are named operators, and each is there because
the theorems fail without it:

* `NamedOnce`: no batch lists a product twice. The code does not refuse such a
  batch. Finding 1 is a commit that is no operation of the ledger, which refutes
  `ImplementsLedger`. The same instance refutes `LatestEventIsCurrent`: the UPDATE
  may take the first quantity, so that the row says 1 while its newest event says
  0 (give `MCStockDup.cfg` that invariant in place of `ReservedInFull` to see it),
  and what consumers hear last is then not the table either.
* `OneWorker`: one outbox worker. With two, the order is lost (finding 2).

Assumptions on the constants: those named in the modules (`StockDataAssumption`,
`NoTrxAssumption`, `RelayAssumption`, `FeedAssumption`, `MembershipAssumption`,
`MediaAssumption`, `AddressesAssumption`, and in `Services` and `Requests` one for
each instantiated part), evaluated by TLC in the runs of their modules. They say
what the code's types say: column widths, the shape of requests and forms, batch
sizes and lifetimes that are numbers; that calls are finitely many where they are
counted; or that a model value such as `None` is not a row. Products, requests,
workers, aggregates, batches, calls and users are arbitrary sets otherwise. The
types are part of every inductive invariant and are proved with it.

Every theorem follows one pattern. The inductive invariant is the conjunction of
named parts in the component's module, a run checks it, one lemma per action
shows that the action keeps it, and the properties follow from it.

`Stock_proofs` proves `Spec => []StockInv` and from it `TypeOK`,
`ReadsStayCurrent` and `DrawnAbove`. None is inductive alone. That the reads stay
current through somebody else's `Commit` needs `WithinLocks`: a transaction writes
only rows it has read, hence holds locked, so another reader of the row would
hold the same lock. That ids follow the commits needs `IdsDrawn` (no id is beyond
the sequence) at `Emit`, and the lock argument again at `Commit`. That a stock
stays within its column needs `OnlySanitized`: quantities are positive, so a
reservation cannot overflow, an accepted one cannot go below zero, and `Overflow`
catches the rest. Duplicate products are allowed in these theorems.

`DecisionInvariant` adds, for any batches, what a transaction has decided:
`ReadsAll` (what it has read and has still to read are the provisioned rows it
names), `KeepsToPlan` (its plan and what it will write are what its reads give, and
are acceptable) and `AnnouncesPlan` (its outbox rows are the plan, numbered from
some id). With `NamedOnce`, `AnnouncementsAreCurrent` follows by one more
induction: a commit writes its row and the row's newest announcement together,
because all its ids are above those committed (`DrawnAbove`), and a product is
changed by one item only. `ImplementsLedger` maps every step: a commit is the
operation of the ledger on the present rows, since by `ReadsStayCurrent` these are
the rows that were read; everything else stutters.

`OutboxRelay_proofs` proves `Spec => []RelayInv` and from it
`OnlyCommittedPublished`, `RetiredWasPublished` and `ClaimsExclusive`.
`DrainConsistent` ties a worker's marks to its claim and to what the broker has;
`RowsIdentified` says that an id names one row, which is what keeps a commit of
one worker from retiring a row in the hands of another.

`DuplicatesInvariant` counts. A superfluous copy is made when a row is published
that was published before and is not retired; `Exposed` is the set of these, less
those that a drain is about to retire. The sum of the copies made and those exposed
stays within a batch per failure: a drain without failure exposes nothing, a lost
confirm one row, a rollback what the worker had marked, which is within its claim,
hence a batch. `DuplicatesBounded` follows.

`StockFeed_proofs` composes the two. Under `OneWorker`, `FeedInv` says that ids
name rows, uncommitted ones included; that a claim holds, of each product, all
undispatched rows up to its last (`DrainInOrder`), because the oldest are claimed
and no older one appears later (`DrawnAbove` again); that rows are retired in that
order; and that for each row retired, or about to be, there is a last message after
which only newer rows of its column were heard (`LastHeard`). A repeated publish
harms none of it, because what is repeated is not retired and so is not older than
anything retired. When the outbox is drained, the newest row of a column is retired,
so nothing older was heard after it, and by `AnnouncementsAreCurrent` it states the
table: `ConsumerConverges`.

`Membership_proofs` proves `Spec => []MembershipInv` and from it the four
invariants of the run and both action properties. `NoOrphanAssignments` and
`ReplacementIsExact` need `ReplacementInFlight`: a replacement that is still alone
between its two statements has left no rows, so its INSERT cannot collide and
adds exactly what it asked for. `RemovalIsFinal` needs `OneInvitation`: an
invitation past its INSERT holds an e-mail that has no account, so its commit
cannot revive a removed member, whose account remains. `InviteOpenOrSettled`
needs `CodesIssued` and `CallsKnown`, which tie what a call carries to where it is.
Its first half follows from `CodesOpen`: no code is consumed before a password is
stored, as `Consume` comes after `StorePassword`, so the greatest id is the one that
`Latest` finds. Its second half is the part `StatusFollows`, in which the call that
stored the present password is the witness: only an acceptance goes on to activate.
`SpentCodeIsDead` needs no more than that the comparison looks at unconsumed
codes, but holds only for codes no call is still using: the comparison and the
consumption are separate statements, and two calls can pass with one code.
Its assumption `MembershipAssumption` says that the model values are distinct from
passwords, rows and branch sets.

`Media_proofs` proves `Spec => []MediaInv` and from it `ReadyIsBacked` and
`DeletedStays`; `MediaInv` also contains `RemovedUnlessPutAgain` and
`CapUnlessPutAgain`. What makes them inductive is `CallsInFlight`: a call about to
write READY was told of an object within the cap, and if that is gone by now it has
been overtaken, if it has grown a PUT ended after `HeadObject`; a call about to
write FAILED or DELETED comes after a deletion. `DeletedStays` then needs no more
than that a row that is deleted is found by no new call.

`Addresses_proofs` proves `Spec => []AddressesInv` and from it `OneDefault` and
`OthersUntouched`. Neither is inductive alone: `Undisturbed` says that while a call
nobody raced with is between its two statements its user has no default, that ids
are not given out again, and that a call's row, while it exists, is its caller's.
The last is what makes the ownership check good although it is made one statement
before the write. `DefaultKept`, also in `AddressesInv`, says that calls which
overlap never lose a default that was chosen.

`Services_proofs` proves `ServicesSpec => []ServicesInv` and the seven invariants and
the action property that the run checks about `Sessions`, `Catalog` and `Idempotency`.

* `Sessions`: each token and cache entry is dated, and `TokensDated` and `EntriesDated`
  bound how long ago what it says was true. An access token may come from a refresh
  token at its last tick, so the two lifetimes add up; that a refresh copies claims
  and cannot renew a refresh token is what keeps the sum finite. `StillHeld` is for
  calls between a read and its use: what they read counts as held until then.
  `CallsInFlight` keeps what the guard established until the permission arrives,
  from which `KeptApart` follows for the service's own check.
* `Catalog`: `Provisioning` says which rows a trigger has written before its product
  is committed: at all committed branches of the restaurant but those that were still
  open then (`late`). `InsertsApart` keeps two commits from adding the same rows,
  `EditsKnown` ties a written product to a call that can still fail.
* `Idempotency`: `Chances` counts how often the operation may still take effect if
  nothing more goes wrong, and a chance is paid for before it is taken: an attempt
  that overlaps with another is charged for when it is sent. While an answer is
  stored or on its way, the attempts that have not run are the chances, less one of
  those still looking, which will find the answer.

`Requests_proofs` does the same for `BranchCache`, `Registration` and `Listing`
(`RequestsSpec => []RequestsInv`, three invariants).

* `BranchCache`: if no lookup was between its read and its SET when an update
  committed, nothing older than the update is read, sent or, once its DEL is
  done, stored (`NothingOlder`): later reads see the update, and the DEL removes
  what was there before.
* `Registration`: `IndexesUnique` over open and committed entries; `AtItsPlace` says
  what a registration has written at each point, and that the rows become visible
  together; `CheckStands` that people do not disappear, so that a collision after a
  passed check means somebody registered in between.
* `Listing`: `UpToCursor` says that a walk has given rows up to the cursor only and,
  of those that stayed put, all up to the cursor but ties of the last row of some
  page. A page in the order of the query extends that.

Only model-checked: the liveness properties `EveryRequestAnswered`,
`EveryEventDispatched`, `EntriesConverge` and `EveryRegistrationAnswered`, whose
proofs need ENABLED and fairness, which the provers do not handle; and the five
runs that expect a violation, whose counterexamples are TLC's. That cardinalities
of finite sets behave (`Cardinality` of a union, of a subset, of an interval) is
cited from the library's `FiniteSetTheorems`.

## 5. Not modelled

HTTP plumbing, configuration, logging, mail and health checks change no shared
state beyond a process's life; of the error handler, what it tells the caller of a
registration is in `Registration`. The nearby search and the other read-only
queries are single statements. `updateProfile` is one `UPDATE` of the caller's own
row. Branch and restaurant rows are version counters in `BranchCache`, keys in
`Listing`; what else is in them does not matter there. Only `GET /restaurants` uses
the cursor pagination. `releaseStock` keeps no record of reservations, so a second
release under a fresh key is a legal call; what the order service does with that is
outside this repository. Nothing in the code says who may be made an owner by
`updateMember`, or how often the broker may refuse a row, so there is nothing to
state about either. The schema's seeds appear as the roles' permissions in `Media`
and the initial states.

## 6. Plan

1. Abstract specifications for more components and proofs that these implement them:
   the outbox as a queue that delivers each committed event at least once, and the
   middleware as an operation that runs once more per cause.
2. `Sessions` over `Membership`, so that logins and membership changes are its
   statements instead of one step each, with small instances of both.
3. Action properties over `StockFeed` that follow from `FeedInv`: what a consumer
   holds of a product never goes back past what was retired.
