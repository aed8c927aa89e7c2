# Verification of the Booksy hardware hub API

TLA+ models of the API server in this repository (Go, echo, SQLite), the TLC
runs that check them and TLAPS proofs about them.

```
tlc -config inventory_safety.cfg MCInventory.tla     # any run of PROJECT.json
tlapm InventoryProofs.tla                            # the proofs
```

## The system

| Component | Code | State | Operations | Interacts with |
| --- | --- | --- | --- | --- |
| Rentals | `internal/rentals` | table `rentals` | rent, return, list | `hardware.status` in the same transaction; account ids from tokens |
| Hardware lifecycle | `internal/hardware/{handler,store}.go` | table `hardware` | create, update, remove, to repair, back from repair, list | rentals by cascade, the semantic index after every write |
| Semantic index | `internal/hardware/embeddings.go`, `refreshEmbedding` | table `hardware_embeddings` | refresh after a write, backfill at start | the embedding provider, the configured model and dimensions |
| Semantic search | `Handler.Search` | none | rank by cosine, cut at top k | reads the index |
| Accounts | `internal/profiles/{handler,store}.go` | table `profiles` | create, remove, list | rentals by cascade, tokens by id |
| Admin bootstrap | `internal/profiles/bootstrap.go` | table `profiles` | insert each configured admin if absent | before serving |
| Authentication | `internal/auth`, `internal/utils/jwt` | none on the server; tokens at the clients | issue, verify, admin check | reads `profiles` at log-in only |
| Connection pool, deadline | `deps.go`, `server.go` | one connection | acquire, release; 15 s context | every store call |
| Process start | `cmd/api/main.go` | | config, migrations, admins, backfill, serve | all of the above, in this order |
| Error translation | `internal/utils/errors` | none | sentinel to status code | every handler |
| Configuration | `server/config`, the constructors in `deps.go` | none | load, check, refuse | the start |
| Migrations and seed | `utils/migrate`, `migrations` | the table `GOOSE_TABLE` names | apply what is missing | the start |
| Validation, passwords | `utils/validation`, `utils/password` | none | normalize, check, hash | handlers and bootstrap |
| CORS, rate limit, recovery | `server.go`, `cors.go` | none | libraries | in front of the handlers; CORS may refuse its origins at the start |

What is hard in it:

* **Interleaving.** Requests run on goroutines and meet at the one connection.
  A transaction holds it from begin to commit or rollback. A hardware write is
  *not* one transaction with its embedding: between the write, the status
  query, the call to the provider and the upsert, anything may run.
* **Failure.** A statement, a commit or the provider may fail at any point,
  the request's deadline may pass at any point, also after a write outside a
  transaction has taken effect, and the process may die. `defer tx.Rollback()`
  is what makes up for it.
* **Staleness.** A token is believed for its whole life without a lookup; row
  ids are reused after the last row of a table was removed (`INTEGER PRIMARY
  KEY` without `AUTOINCREMENT`); a vector in the index may be of an earlier
  text or configuration.
* **Restarts.** The process starts in environments that change: another
  `ADMINS`, another model, another `GOOSE_TABLE`, a value that is wrong, and
  some wrong values are noticed only when the database has been written: a CORS
  origin or a port by what is built last. A start may die between two
  migrations or two administrators, or hang in the backfill, and what it finds
  was left by the requests of an earlier process.
* **Cascades.** Both DELETEs reach into other tables; nothing in the schema
  ties `hardware.status` to `rentals`.

What makes each part correct: status and rental of a device move together and
never double-book it; no row refers to a row that is gone; an admin token never
speaks for anybody but its admin; a request that fails leaves nothing behind
and one that succeeds did all it says; the connection always comes back and
everybody gets it; the index never shows a removed device and is repaired by
the backfill, and an answer of a search is the best of it; a start completes
what an earlier one left and harms nothing it finds; whoever removes whom,
somebody can administer. `PROJECT.json` lists the single hazards with their lines.

## Modules

| Module | What it is |
| --- | --- |
| `Rowids` | tables as functions from row ids to rows or `None`, and the id SQLite gives a new row |
| `Schema` | the tables, and each SQL statement of the stores as an operator on a database value, cascades and WHERE clauses included |
| `Inventory` | the abstract specification: each operation of the API as one atomic step on the database |
| `Api` | the server statement by statement: requests, the connection, uncommitted writes, failures, the deadline, crashes, answers. `Promise == INSTANCE Inventory` is what it implements |
| `Catalogue` | hardware writes and the semantic index: `refreshEmbedding` and `EnsureEmbeddings` around the provider |
| `SearchIndex` | the abstract specification of the index: a device is embedded as it is, and nobody is told that a write is done before the index is in step. `Catalogue` implements it (`Promise`) while writes of a device do not overlap |
| `Search` | the search handler over `Catalogue`: candidates, order, cut |
| `Boot` | the life of the process over `Inventory`: configuration, migrations, administrators, backfill, server, death, and the requests on accounts and devices between two starts. `Served == INSTANCE Inventory` is what it implements while `GOOSE_TABLE` stays |
| `MCInventory`, `MCApi`, `MCCatalogue`, `MCBoot` | the instances TLC checks |
| `SchemaProofs` | lemmas about the statements: what each of them keeps |
| `InventoryProofs`, `ApiProofs`, `CatalogueProofs`, `SearchProofs`, `BootProofs` | theorems and their proofs |
| `ServerProofs` | what `ServerImplementsInventory` and the theorems of `InventoryProofs` give together: the promises of the inventory, of what the server commits |

`Schema` is shared by `Inventory` and `Api`, so the two differ in control only:
what one does in a step, the other does in five. `Catalogue` has its own, smaller
view of a device (the text it is embedded from), because the index depends on
nothing else, and nothing in the inventory depends on the index. For the same
reason the backfill is in `Boot` only a phase that may or may not end, in which
nothing of the inventory is written, and `Catalogue` has the inside of it and
leaves the rest of the start out.

A definition marked "Mutant" is what a plausible slip would make of the
definition after it. Nothing uses it; putting it in place of that definition
makes the property that `PROJECT.json` names fail, which shows that the
property watches that line.

### How state and actions correspond to the code

*Inventory.* `db` is the committed database: of a device its status, of an
account its email and role, of a rental its two foreign keys and whether
`returned_at` is set. `tokens` are the tokens in circulation, each the identity
and role `CreateToken` signed. `NewAccount` is an account's INSERT, under
`AddAccount` for a request and under `EnsureAdmin` for the bootstrap. `Rent`, `GiveBack`, `AddDevice`, `RemoveDevice`,
`Mark`, `AddAccount`, `RemoveAccount` and `LogIn` are the endpoints that change
state; `Expire` is a token's end. The initial state is the seed with the
bootstrapped admins.

*Api.* `req[r].pc` is where a request is: `waiting` for the connection
(`BeginTx` or the single statement), `select`, `update`, `insert`, `release`,
`commit` in a transaction, `exec` and `scan` for a single statement with
`RETURNING`, `sign` for the token. An update of a device is a statement that
finds its row or not and changes no column kept here; a listing is one query
that holds the connection and gives it back. What a client can present as a
token (`Circulating`) includes one that is about to be signed: the account it
was read from may be gone by then. Statements change `work`, the connection's
view; `Commit` and `Scan` make it `db`. `Rollback` is an early return with the
deferred rollback: it puts `work` back and frees `conn`. `Interrupt` is the
deadline or a database error at any of these points, `LoseAnswer` a deadline
after a single statement took effect, `Crash` the death of the process.
`answer` is the answer given by the last step, with the kind the error handler
would translate; `Status` is its status code. A deadline is told from a failure
of the database, because `translate` tells them apart.

*Catalogue.* A request writes (`Create`, `Update`), then `Check`s the status
query, has the provider `Embed` and `Upsert`s; `GiveUp` is any failure or the
deadline, after which the response goes out all the same. `ReadStatuses` to
`BackfillDone` are `EnsureEmbeddings`; `Restart` is a crash or redeployment,
possibly with another model or other dimensions. Equal texts stand for equal
source hashes. `ApartSpec` keeps the behaviours in which no two writes in progress
are of the same device (`Apart`). Nothing in the code sees to that, and
`catalogue_race` shows what comes of it; `ApartSpec` is there to say what does hold.

*SearchIndex.* `Write`, `Remove` and `Embed` are a write, a removal and the storing
of a vector made of the device as it is; `Answer` is a response, `Serve` the end of
a start, and both wait until the index is in step. `pending` are the devices
somebody waits for. `Catalogue` shows it `Pending`: the devices of the requests in
progress, or all of them while the process starts. What it keeps to itself is where
each request and the backfill are.

*Search.* `Embedded` is the join that `GetAllEmbeddings` reads in one statement,
`Candidates` the filter of the handler, `Rankings` every order
`slices.SortFunc`, which is not stable, may leave them in, `Answers` the first
top k of each. The similarity of a query and a text is the constant `Cosine`;
it may be `NaN`, which is what 0/0 gives for a vector that `normalize` left at
zero, and `Compares` puts it last as `cmp.Compare` does.

*Boot.* `phase` follows `main`: `Start` is `LoadConfig` and `NewRegistry`,
`Migrate` one goose migration, `ValidateAdmins` the first loop of `EnsureAdmins`,
`EnsureNext` one `CreateAdminIfAbsent`, `AdminsDone` its return,
`EmbeddingsDone` the return of `EnsureEmbeddings`, with an error or without, and
`Serve` is `NewServer` and the listener. `Exit` is `log.Fatalf` or a panic, `Die` a
crash or deployment at any point. An environment is what `envconfig` decodes,
reduced to what some check looks at. `ConfigIsValid` is what `LoadConfig` asks,
`RegistryBuilds` what the constructors before the database is touched ask, and
`ServerBuilds` and `ServerListens` what is asked after it was written: of
`CORS_ORIGINS` in production that `CORSWithConfig` takes every origin (it panics on
one without scheme or host, or with a path), of `PORT` that one can listen on it.
`version` is the last migration each goose table records. The INSERT of
`002_seed.sql` gives its ids, so under a table without a record it fails while one
of them is taken (`SeedConflicts`), and otherwise adds the seed to what is there
(`Seeded`); the other two migrations create what is not there. `GOOSE_TABLE` is
taken not to name a table of the schema.

`secret` is the password an account's hash was made from, and `Lower` what
`ToLower(TrimSpace(...))` makes of an address: `AdminEmail`, `ProfileEmail` and
`LogInEmail` are the three places that call it. While it serves, the requests
on accounts and devices run as in `Inventory`, without renting, which changes
nothing a start looks at. The seed goes in with the second migration, so
`Presented` shows `Inventory` the seed before it is there.

## What is checked

| Run | Question | Bounds |
| --- | --- | --- |
| `inventory_safety` | do the atomic operations keep the inventory consistent, tokens and reused ids included? | 2 devices, 3 accounts, 2 rentals, 3 emails, any number of tokens; 460 000 states |
| `inventory_stranded` | *violated*: does an in_use device have its open rental? | as above |
| `inventory_history` | *violated*: does rental history block the removal of an account? | as above |
| `api_safety` | is the connection returned on every path, do the defensive checks never fire, are answers true, does a refusal (4xx) write nothing, does a constraint end only the rental of a removed account, does the server implement `Inventory`? | 2 requests of every kind but the caller's own listing, which differs from the other in who may ask; 1 device, 2 accounts, 2 rentals, faults on; 324 000 states up to symmetry |
| `api_live` | does every request end? | 3 requests that rent, return, repair, list and log in; faults possible; 55 000 states |
| `catalogue_safety` | does the index hold living devices only, does the backfill catch up, is every answer of a search the best there is, is every write answered although the provider may be silent? | 2 devices, 2 texts, 2 models, 2 dimensions, 2 requests, outages and crashes; 169 000 states |
| `catalogue_apart` | is a device searchable when its write is answered, and first on a search for its own text, and does the whole implement `SearchIndex`, with writes of different devices and a provider that answers? | 2 requests, 3 devices, top 2, 2 models, crashes; 21 000 states |
| `catalogue_race` | *violated*: is a device searchable when its write is answered, with overlapping writes of it? | 2 requests |
| `catalogue_dimensions` | *violated*: can search find every device after a backfill that ended well? | 2 dimensions |
| `catalogue_start` | *violated*: does the process get to serving although the provider may be silent? | |
| `boot` | do starts harm nothing and complete each other, is there always an administrator, does every mailbox have one account that log-in finds, does every account keep the rules? | 6 lists of administrators, 3 of them wrong, 10 unsound environments, 1 with malformed origins, 2 goose tables, 3 mailboxes of the company in 4 spellings and one stranger, 4 accounts, 1 device, any number of starts and deaths; 783 000 states |
| `boot_served` | does the life of the process implement `Inventory` while `GOOSE_TABLE` stays? | as above with 1 goose table, 2 devices, one of them seeded, and 2 more environments: a bad port, and malformed origins in development; 627 000 states |

Why the bounds are enough to be of interest: one device contended for by two
requests, or rented twice in sequence, is every conflict the statements know;
a second device shows that nothing leaks to another row. Two rentals per run
allow a returned one beside an open one, and reuse of the id of a removed one;
three accounts allow an admin, an employee whose account is removed, and one
that gets the id again. In `boot`, three mailboxes allow a list of three that dies half-way and is
completed under another list, an administrator made by a request who removes the
employee with a listed address, and an employee who keeps that address. One seeded
device is enough for a seed that comes back, and for one that meets a device, the
seeded one or another with its id; the second device of `boot_served` is one that
was never seeded.

The two requests of `api_safety` are interchangeable (`SYMMETRY`): no definition
tells them apart, and the run checks no liveness.

The bounds on row ids are guards (`Room`, the domain of
the tables): an insert beyond them is not asked for.

**The five violated properties** are disagreements between the code and what its
documents, comments or tests say, listed with quotations under "findings" in
`PROJECT.json`: a removed account strands its rented device; rental history is
removed and not protected; overlapping embeddings leave a stale vector; a change of dimensions empties search; a silent
provider keeps the process from starting.

### Fairness

`Api.FairSpec`: a goroutine that has the connection runs its next statement
(weak fairness of `Statement`), and `database/sql` gives a freed connection to
its waiters in turn, so a request that could acquire it again and again does
(strong fairness of `Acquire`). The deadline is not needed for `EveryRequestEnds`
and is not assumed to pass.

`Catalogue.FairSpec`: the process takes its own steps, and the deadline of a
request passes (weak fairness of `GiveUp`; `ContextTimeout` cancels the context
of the provider call and of the statements). The provider owes nothing: neither
`Embed` nor `BackfillEmbed` is fair, and the backfill has no deadline, because
it runs on `context.Background()`.

`Boot.BootSpec` has no fairness: between the administrators and the server the
backfill may wait for ever (`catalogue_start`), so no start is promised to end.

## What is proved

For every number of devices, accounts and rentals, every seed and list of
admins (`InventoryProofs`), every set of requests and operations (`ApiProofs`),
every catalogue, set of models, dimensions and requests (`CatalogueProofs`), every
table of similarities and top k (`SearchProofs`), and every set of environments, addresses and passwords (`BootProofs`):

| Module | Theorem | Property |
| --- | --- | --- |
| `InventoryProofs` | `TypeCorrect` | `Spec => []TypeOK` |
| | `NoOrphans` | `Spec => []ReferentialIntegrity` |
| | `RentedMeansInUse` | `Spec => []OpenRentalHoldsItsDevice` |
| | `NoDoubleBooking` | `Spec => []OneOpenRentalPerDevice` |
| | `AdminIdentity` | `Spec => []AdminTokensNameTheirAccount` |
| | `CustodyIsAtomic` | `Spec => CustodyMovesTogether` |
| | `StrandingIsByRemoval` | `Spec => StrandedByAccountRemovalOnly` |
| | `HistoryIsDurable` | `Spec => HistoryIsKept` |
| `ApiProofs` | `TypeCorrect` | `Spec => []TypeOK` |
| | `ConnectionComesBack` | `Spec => []ConnectionIsReturned` |
| | `BackstopsAreIdle` | `Spec => []BackstopsNeverFire` |
| | `AnswersStayTrue` | `Spec => []AnswersAreTrue` |
| | `RefusalsWriteNothing` | `Spec => RefusalWritesNothing` |
| | `ConstraintsMeetTheRemoved` | `Spec => ConstraintMeansNoAccount` |
| | `ServerImplementsInventory` | `Spec => ImplementsInventory` |
| `ServerProofs` | `CommitsLeaveNoOrphans` | `Spec => []Proved!ReferentialIntegrity` |
| | `CommittedRentalsHoldTheirDevice` | `Spec => []Proved!OpenRentalHoldsItsDevice` |
| | `ServerNeverDoubleBooks` | `Spec => []Proved!OneOpenRentalPerDevice` |
| | `ServerTokensNameTheirAccount` | `Spec => []Proved!AdminTokensNameTheirAccount` |
| | `CommitsMoveCustody` | `Spec => Proved!CustodyMovesTogether` |
| | `FailuresStrandNothing` | `Spec => Proved!StrandedByAccountRemovalOnly` |
| | `CommitsKeepHistory` | `Spec => Proved!HistoryIsKept` |
| `CatalogueProofs` | `TypeCorrect` | `Spec => []TypeOK` |
| | `NoGhosts` | `Spec => []IndexedDevicesExist` |
| | `BackfillIsComplete` | `Spec => BackfillCatchesUp` |
| | `FixedDimensionsAreSearchable` | one number of dimensions and `Spec => BackfillMakesSearchable` |
| | `WritersApartAreSearchable` | `Calm /\ ApartSpec => []AnsweredMeansSearchable` |
| | `CatalogueImplementsIndex` | `Calm /\ ApartSpec => ImplementsSearchIndex` |
| `SearchProofs` | `AnswersAreBest` | `Spec => []AnswersAreTheBest` |
| | `OwnTextLeads` | `Calm /\ ApartSpec => []OwnTextComesFirst` |
| `BootProofs` | `BootTypeCorrect` | `BootSpec => []BootTypeOK` |
| | `SomebodyAlwaysAdministers` | `BootSpec => []SomebodyAdministers` |
| | `MailboxesStayReachable` | `BootSpec => []MailboxesAreReachable` |
| | `TokensOutliveRestarts` | `BootSpec => []AdminTokensNameTheirAccount` |
| | `BadListsWriteNothing` | `BootSpec => BadListWritesNothing` |
| | `StartsKeepAccounts` | `BootSpec => StartKeepsAccounts` |
| | `StartsKeepDevices` | `BootSpec => StartKeepsDevices` |
| | `ListedGetAccounts` | `BootSpec => ListedHaveAccounts` |
| | `BootImplements` | `OneTable` and `BootSpec => BootImplementsInventory` |

Assumptions: the bounds are natural numbers, `None` is no row, no request and no
password, the seed has no device in use (as `002_seed.sql` explains), the admins
are distinct emails that fit the table (`EnsureAdmins` refuses
duplicates), clients ask for operations there are, and normalizing an address
twice is normalizing it once. `Calm` is a provider that does not fail and one
number of dimensions, `ApartSpec` that writes of the same device do not overlap; the
runs `catalogue_race` and `catalogue_dimensions` show that without the last two the
properties are violated, and after a failure a device is stale until the next
backfill, as the code says. `OneTable` is that `GOOSE_TABLE` is the same at every
start: under another one the seed is inserted once more when none of its devices
is left, which no operation of `Inventory` does.

*Inventory.* The invariant is the conjunction of the five state properties;
none is inductive alone. That a claim opens no second rental needs
`OpenRentalHoldsItsDevice` (an available device has no open rental), that a
return releases only its own device needs `OneOpenRentalPerDevice` (another
open rental of it would lose its status), and both need `ReferentialIntegrity`
to know the device exists. The action properties are proved for one step from
a state that satisfies the invariant, action by action. That every statement
keeps the schema is proved once, in `SchemaProofs`.

*Api.* The properties of the server rest on what the working copy is at each
point of a request (`Stage`): at `insert`, the committed database with the device
claimed; at `release`, with the rental closed; at `commit` and `scan`, exactly
what the operation of `Inventory` makes of the committed database. Together with
the invariant of `Inventory` for the committed database and the connection that
only one request holds, this is inductive, and the refinement is then one line
per action: `Commit` and `Scan` are the operation, `FindCredentials` issues the
token, an end that does not sign lets one expire, everything else stutters.
`ConstraintsMeetTheRemoved` says when a request ends in a constraint, which
nobody translates (a 500): by `Stage` the device of an insert is there and has no open rental, so the account must be what is
missing, and the rollback leaves the device as it was before the claim.

*The server as a whole.* A client sees the database through commits. `ServerProofs`
takes `InventoryProofs` once more, for the database the server commits and the
tokens it circulates (`Proved == INSTANCE InventoryProofs WITH tokens <- Circulating`).
The assumptions of `Inventory` are those of `Api`, the refinement makes every
behaviour of the server one of that instance, and its theorems follow without a
second invariant. No run checks them of the server directly: `api_safety` checks the
refinement, and `inventory_safety` the properties.

*Catalogue.* The properties alone are not inductive either. `TodoCoversStale`
says that while the backfill runs, every device that is not fresh is on its
list and the list is of the devices as they are; that no write can interfere is
`StartIsAlone` (no request before serving). `WritersHaveDevices` and
`IdleBackfill` describe what a request and a finished backfill carry. When the
list is empty, `TodoCoversStale` is the claim. With writers of different devices,
`WriterCoversStale` (a device that is not fresh is being written) and
`WriterIsCurrent` (what is written is still as its writer left it, or gone) are
inductive on top of it (`ApartInv`). They are also what the refinement of
`SearchIndex` needs: a vector that is stored was made of the text a request or the
backfill carries, and by `WriterIsCurrent` or `TodoCoversStale` that is the device
as it is.

*Search.* That an answer exists means that some order sorts every finite set of
candidates. The library's induction cannot be used for it, so `RankingExists` takes
the least size at which there would be none, sets the worst match of such a set
aside (`WorstMatch`), ranks the rest and puts it last (`WorstGoesLast`). `NaN`
needs no case of its own after that: the comparison is a strict weak order with it
at the end. `OwnTextLeads` adds that by `AnsweredMeansSearchable` every device is a
candidate, so the first of an answer is at least as near as the device asked for,
and no other text is.

*Boot.* `AccountsAreSound` ties accounts, addresses and hashes together and says
that once there is an account or a token, there is an administrator; it is kept
because only administrators make accounts, only employees are removed, and the
first accounts of all come from a validated list. `MigratingIsOnCourse` says that
before the seed there is nothing, and that only a table some environment names has
a record; with `OneTable` the seed then goes into an empty table, once, which is
what `Presented` has shown all along. Without it, `SeedConflicts` is what keeps a
device that is there (`StartsKeepDevices`). `EnsuringIsOnCourse` says that until the
server every address of the list has an account or is still to be ensured. When
nothing is left to ensure, that is `ListedHaveAccounts`, and with `AccountsAreSound`
it gives the administrator. `AccountsAreSound` contains the invariant of
`Inventory`, so a token from before a restart is covered as well
(`TokensOutliveRestarts`).

Only model-checked: liveness, which is out of the prover's reach
(`EveryRequestEnds`, `WritesAreAnswered`). Every safety property of
the passing runs is a theorem.

## What is not modelled, and why

* What CORS, rate limiting and the recovery middleware do to requests: libraries
  in front of the handlers that change no state. Which origins CORS refuses when
  the server is built is its library's business; that it may is in `Boot`.
* A `DATABASE_URL` or `JWT_SECRET` that changes between two starts: another
  database, and tokens that nobody accepts.
* Validation of fields other than an account's email and password, and the
  decoding of bodies, paths and environment variables: pure functions on strings.
  The actions start where they have passed.
* bcrypt: a hash is the password it was made from.
* Timestamps. `CHECK (returned_at >= rented_at)` can refuse a return when the
  clock steps back; it is one of the failures `Interrupt` stands for.
* The text of a device, beyond being equal or different; floats and the
  arithmetic of vectors.
* The rows and columns a listing returns, and their order.
* Messages, the request id and the debug field of an error, and the answer to
  a client that has gone (`context.Canceled`), who reads none.
* WAL and fsync: a commit that returned is taken as durable.

## Plan

*Done:* the eight modules of the model, their runs, the findings, and proofs of
every safety property and of the three refinements.

*Left:* the priority of wrapped sentinels in `translate`, should a handler ever wrap
two; the rest of the request validation, should a rule come to depend on stored
state; and, should the upsert become conditional on the text, the index without
`Apart`.
