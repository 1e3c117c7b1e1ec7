# A TLA+ development of F.ETH.cher

F.ETH.cher is an HTTP service written in Go. It returns Ethereum transactions
by hash, keeps those it has fetched in a PostgreSQL table, and keeps for every
authenticated user a history of the transactions his requests brought back.
This directory holds a specification of it in TLA+, model-checked by TLC on
small instances, and its safety properties proved with TLAPS for all of them. Paths are
relative to the repository.

## 1. The system: an inventory

| part | code | state it keeps | operations |
| --- | --- | --- | --- |
| node service | `internal/ethereum` | per call: goroutines, a WaitGroup, an unbuffered channel | `FetchTransactions`, `getTransactionByHash` |
| core | `internal/core` | none of its own; starts saving goroutines | `GetTransactions`, `SaveUserTransactionsHistory`, `GetUserTransactionsHistory`, `GetAllDBTransactions`, `Authenticate`, `ParseRLP` |
| repository and storage | `internal/repository`, `internal/db` | the tables `transactions` (unique by hash), `users`, `user_transactions` (unique by user and hash) | `SaveTransactions`, `GetTransactionsByHash`, `SaveUserHistory`, `GetUserHistory`, `SeedTable`, `MigrateTable`, `connectWithRetry` |
| handlers | `internal/http/handler` | none of their own; start recording goroutines | `/lime/eth`, `/lime/eth/{rlp}`, `/lime/my`, `/lime/all`, `/lime/authenticate` |
| payloads | `internal/http/payload` | none | decoding and validation of requests |
| tokens | `pkg/jwt` | the secret | `Generate`, `Sign`, `Validate` |
| process | `cmd`, `internal/config`, `internal/http/server` | the environment, the listener, a signal channel, an error channel | `Start`, `run`, `Run`, `Shutdown` |
| middleware, logging | `internal/http/handler/middleware`, `pkg/log` | none | request ids, log lines |
| double of the node's client | `internal/ethereum/fake` | per method: a mutex, the calls, what to answer | `Returns`, `ReturnsOnCall`, `Calls`, the methods of the client |

**How the parts interact.** A handler of `/lime/eth` validates the list of
hashes and calls `GetTransactions`. It looks the hashes up in the table, as
they were written. If it gets as many rows as there are hashes it returns them;
otherwise it fetches the missing ones from the node, one goroutine each, logs
the errors, leaves the saving of what was found to a goroutine, and returns.
The handler then leaves the recording in the user's history to a second
goroutine, if the request carried a token, and responds. The two goroutines
are not ordered, nobody waits for them, and the errors of both are only
logged. `/lime/my` reads the user's history, then looks its hashes up in the
table. `/lime/authenticate` compares the password with the hash of the user's
row and answers with a token, which `/lime/my` checks, and the recording
goroutine once more. The main goroutine waits for a signal or for the error of the
listening goroutine, whichever comes first, closes the listener, waits for
the handlers and ends.

**What is hard.**

- *Concurrency.* The goroutines of one fetch and their channel; two requests
  that miss, fetch and save the same hash; two recordings of one user between
  their read and their insert; `/lime/my` between its two reads; instances that
  migrate and seed one database; a signal, the listener's error and requests that
  come in meanwhile.
- *Failure.* A multi-row insert is all or nothing, so one duplicate refuses a
  batch. The node fails per hash, the database per statement, the process at
  any time. Errors of background work reach only the log.
- *Ordering.* Saves, recordings and replies come in any order. The
  contexts that background work gets belong to requests that may be over.
- *A moving world.* The chain reorganises between three RPCs, or between two
  requests. Tokens expire between a request and its recording, and between the
  two checks of one request; a restarted process may have another secret.
- *Names.* Clients write strings; the pattern for them is not anchored and
  `common.HexToHash` crops and pads, so several strings name one transaction.

**What makes each part correct.** A fetch hears every hash exactly once, as a
fresh record or as an error, leaks nothing and ends. A reply accounts for every
hash. The table holds only what was on chain and keeps one record per
transaction for good. A history holds only what requests of its user brought
back. `/lime/my` shows nothing of other users and never loses what it has
shown, and shows it only after a login with the password, for as long as the
token lives. Every handler answers exactly once. Instances that start together
seed the users once and do not all lose to one another. A process drains for a
reason, waits for its handlers, and exits with the code of that reason. A start
ends, and so does a shutdown whose handlers do.

## 2. The modules

| module | what it is |
| --- | --- |
| `FetchPromise` | abstract: what `FetchTransactions` promises its caller |
| `NodeFetch` | one call of `FetchTransactions`: goroutines, WaitGroup, closer, channel, context, chain |
| `NodeFetchProofs` | theorems about `NodeFetch` |
| `Storage` | what one insert into a table with a unique index does |
| `CachePromise` | abstract: a table that is written once, a fetch at a time |
| `TxCache`, `MCTxCache` | `GetTransactions` and its saving goroutine; small instances |
| `TxCacheProofs` | theorems about `TxCache` |
| `HistoryLedger` | abstract: all-or-nothing recording, nothing goes away |
| `UserHistory`, `MCUserHistory` | the recording goroutine; small instances |
| `UserHistoryProofs` | theorems about `UserHistory` |
| `Startup`, `MCStartup` | `Start` up to the server, for instances that share a database |
| `StartupProofs` | theorems about `Startup` |
| `Fethcher`, `MCFethcher` | composition: handlers and process over `TxCache` and `UserHistory`; small instances |
| `FethcherProofs` | theorems about `Fethcher` |
| `Lifecycle` | abstract: what a process promises to whoever runs it |
| `Server` | `Start`, `run`, `Run` and `Shutdown`: the main goroutine, the listening one and their channels |
| `Gateway`, `MCGateway` | composition: the five endpoints, tokens and the clock over `Server`; small instances |
| `GatewayProofs` | theorems about `Gateway` and `Server` |
| `FakeClient`, `MCFakeClient` | the double of the node's client under concurrent calls; the instance of one test |
| `FakeClientProofs` | theorems about `FakeClient` |

`NodeFetch` implements `FetchPromise`. `TxCache` uses what `FetchPromise` says
of a fetch (each position is settled on its own, with a block its transaction
was in or with an error, and the call returns when all are) instead of the
goroutines. It settles a position in one step, with the block that the node names
then. Nothing is lost by it: between the receipt and its delivery nobody but the
goroutine sees the receipt, so that a move of the chain in between can as well
come after the delivery. The three calls are not told apart in a refinement mapping, because a
receipt may still be thrown away when `NetworkID` fails, and the mapping would have to
know that beforehand. `TxCache` implements `CachePromise`, `UserHistory` implements `HistoryLedger`. `Fethcher` instantiates
`TxCache` and `UserHistory` and drives their actions: `Ask` is a step of
`TxCache`, `HandOver` one of `UserHistory`, the end of the process one of both.
`Gateway` instantiates `Server`, which implements `Lifecycle`. `Fethcher` and
`Gateway` are two views of the same handlers: the former follows a list through
cache and histories and takes tokens and the process for what they are
worth, the latter decides which requests get that far, with which token and in
which process, and takes the services behind for success or failure. Composing
the two would multiply their states and add no interaction: they share the token
and the end of the process, which each has.

A definition whose comment begins with `Mutant:` is not part of the model. It is
a plausible bug, and TLC finds the property it is paired with in
`PROJECT.json` violated when it takes the place of a definition after it,
which is often a helper of one line (`Ended`, `Receipt`, `Unique`, `RowsOf`,
`Quiescent`) that holds the decision an action turns on. Every property of every
passing run has one.

### NodeFetch

| in the model | in `internal/ethereum/node_service.go` |
| --- | --- |
| `Spawn` | an iteration of the go loop: `waitGrp.Add(1)`, `go func` (30-41) |
| `SpawnCloser`, `CloseChannel` | the goroutine `waitGrp.Wait(); close(resultsChan)` (43-46) |
| `TransactionByHash`, `TransactionReceipt`, `NetworkID` | the three RPCs of `getTransactionByHash`, each of which may fail at any time; the last one with `types.Sender` (63-113) |
| `Deliver` | the send on the unbuffered channel and its receive, one step (39, 51-58) |
| `Done` | the deferred `waitGrp.Done()` (33) |
| `Return` | the range loop ends with the channel (51, 60) |
| `Cancel`, `NodeMove` | outside: the client goes away; the chain moves |

A record is the block of its receipt; what else is copied into it is not told
apart by any property. `CloseChannel` is enabled on `waitGrp = 0` alone: that
nobody still sends is a theorem and not a guard. A receipt without a block
number, which a node does not return for a mined transaction, is not modelled.

### TxCache

| in the model | in the code |
| --- | --- |
| `Receive` | a list that passed validation: not empty, each string of the pattern (`payload/transactions.go:14`) |
| `Found`, `Lookup`, `LookupFails` | `WHERE transaction_hash IN (...)`, and the comparison of lengths (`core.go:69-86`) |
| `Missing` | the loop over `recordsMap` (`core.go:88-94`) |
| `FetchFound`, `FetchError` | one position settled by `FetchTransactions` (`core.go:96`) |
| `Return` | the errors are logged, the saving goroutine starts, the call returns (`core.go:96-113`) |
| `SaveTransactions` | one insert of all records: accepted, refused, or failed (`core.go:105-110`, `repository.go:70`) |
| `Halt`, `NodeMove` | outside: the process ends; the chain moves |

Strings and transactions are different sets. `HexToHash` maps the one to the
other and is a constant; `Canonical` strings are those the node's answer
carries, and the ones in the table. A string that is not canonical never finds
its row. `Accepts` in `Storage` is what gorm and PostgreSQL make of
`Create(&rows)`: an empty slice is an error, a repeated or existing key refuses
the whole statement. The context given to the database layer is ignored there
(`db.go:45` does not call `WithContext`), so a save outlives its request.

`CachePromise` is what a reader of the table needs to know of all this. A call
is served rows that are there in one step (`Serve`), opens the records it is to
save when it returns (`Open`), and they get in all at once, over no row that is
there (`Fill`), or are dropped (`Drop`: refused, failed or killed).

### UserHistory

| in the model | in the code |
| --- | --- |
| `Start` | the handler's `go func` (`handler/fethcher.go:160`) |
| `Validate` | the token once more, and its subject (`core.go:121-126`) |
| `Read`, `Fresh` | the user's rows, and the loop that leaves them out (`repository.go:105-124`) |
| `Insert` | one insert of the rest (`repository.go:126`) |
| `Halt` | outside: the process ends |

A token is the user it was issued to; `stranger` stands for every token that
does not validate. With the fault `token` a valid one may expire meanwhile.

### Startup

| in the model | in the code |
| --- | --- |
| `Connect`, `Retry` | an attempt of `connectWithRetry` (`db.go:114`) |
| `HasTable`, `MigrateColumns`, `CreateTable` | what gorm's `AutoMigrate` does for each table (`db.go:35`, `cmd/server.go:46`) |
| `Count`, `Seed` | `SeedTable` (`db.go:84`), called by `SeedUserTable` |
| `StatementFails` | the database is away, at any statement but the lookup of a table: `Start` returns the error |
| `Database`, `Crash`, `Again` | outside: the database comes and goes, a process is killed, a failed one is started again |

gorm's `HasTable` returns a boolean and drops the error of its query. A lookup that
fails is therefore taken for a table that is not there, and `AutoMigrate` goes on
to `CREATE TABLE` (which has no `IF NOT EXISTS`): it fails if the database is
still away, creates the table if it was missing, and fails over a table that was there all the
time if the database is back. The phases `guess` and `create` are one place in the
code; they are two in the model so that a start which was `misled` by its lookup is not
taken for one that lost to another instance (`conflict`).

A row of `users` carries the instance that inserted it, for the ids it made up.
The pauses between attempts have no length. Users are the only table with
content here; the two others are filled by the modules above, and an instance
that is `serving` is what `Fethcher` calls `up`.

### Fethcher

| in the model | in the code |
| --- | --- |
| `Ask` | `HandleGetTransactions` or `HandleGetTransactionsRLP` up to the call of `GetTransactions` |
| `HandOver`, `Respond` | their second half (`handler/fethcher.go:153-181`, `256-284`) |
| `AskMy`, `ReadHistory`, `ReadRows`, `MyFails` | `HandleGetMyTransactions` and `GetUserTransactionsHistory` |
| `Signal`, `Exit` | `run` and `HTTPServer.Shutdown` |
| `Crash`, `Restart` | outside: the process is killed; it is started again |

`Respond` may come before or after the goroutines that `HandOver` and `Return`
started have run. `Exit` waits until no handler is busy, and ends whatever else
is running. A client of `/lime/my` may ask any number of times. `seen` and `owed`
are history variables: what a user has been shown so far, and what he had been
shown when a call began.

### Server and Gateway

| in the model | in the code |
| --- | --- |
| `Launch`, `StartFails`, `Notify` | `Start`: the environment (`internal/config`), a failure of a later step, `signal.Notify` (`cmd/server.go:26-102`) |
| `Run`, `Listen`, `Track`, `AcceptFails` | the listening goroutine and `ListenAndServe` (`server.go:32-41`) |
| `SelectSignal`, `SelectError` | the `select` of `run` (`cmd/server.go:104-110`) |
| `Shutdown`, `Exit`, `Returned` | `Shutdown` begins, returns, and what `run` returns (`cmd/server.go:112-120`, `server.go:43-54`) |
| `Accept`, `Finish`, `Signal`, `Kill` | outside: a request is accepted, its handler has returned; signals |
| `Receive`, `Finish` (of `Gateway`) | the router and the two middlewares around a handler |
| `Decode`, `Login`, `Sign`, `Generate` | `HandleAuthenticate`, `Authenticate`, `Generate` and `Sign` |
| `Query`, `QueryRLP`, `Validate`, `ParseRLP`, `Transactions` | the two forms of `/lime/eth` |
| `TokenGiven`, `Parse`, `Valid`, `CheckExpiry`, `UserHistory` | `/lime/my`: the header, `jwt.Parse`, the second check of `Validate`, the history |
| `AllTransactions` | `/lime/all` |
| `Tick` | the clock |

The signal channel holds one signal (`sig`); the error channel is unbuffered, so
`SelectError` is a send and a receive, and after a signal the listening
goroutine keeps an error nobody takes (`lst = "failed"` or `"closed"`) until the process
ends. `ErrServerClosed` exists only after `Shutdown`, which `select` has then left
behind: the branch of `run` that reports an error of `Shutdown` is not reached, and
`ProcessInv` proves it (`err` is never `"closed"`). Of net/http there is what
`Shutdown` does: it stops the listener in one step and waits for the accepted
requests. A server whose listener is bound after that closes it (`Track`).

A token is its subject, its expiry and the key that signed it. `Sign` and
`CheckExpiry` each read the clock as they run, and the library's check (`Parse`)
reads it before the second one, so a token may die between the two. The library
accepts a token in the very second in which it expires. Its check of `iat`
(`jwt.go:40`) is left out: it refuses a token from the future, of which there
is none under a clock that never goes back. A process that comes
back may have been given another secret. A list item is told apart by the string
that hexadecimal encoding makes of it (`HexEncode`) and by whether that string
matches the pattern. `stamp` is a history variable: under which key, when and for
whom a login was granted or a token judged.

### FakeClient

The one generated double that several goroutines call. `Enter` is a method up to
the point where its number is taken and the call counted, under the method's
mutex (`fake/eth_client.go`); `Leave` records the invocation, still under it, and
the goroutine goes on with the next of its three RPCs. `Program` is what a
test sets up before.

## 3. The runs

| run | properties | instance | outcome |
| --- | --- | --- | --- |
| `fetch` | `TypeOK`, `NoSendOnClosed`, `HeardOnce`, `NoGoroutineLeft`, `RecordIsFresh`, `KeepsPromise`, `FetchReturns`, `CancelEndsFetch` | 2 positions, 2 blocks | holds |
| `cache` | `TypeOK`, `EveryHashAccounted`, `CacheAgrees`, `CachedWasMined`, `SingleIsCached`, `RefusedForAReason`, `OneRecordEach`, `KeepsPromise` | 2 requests, 2 transactions and an alias of one, 2 blocks, lists of one, two, a repetition and an alias; database, node and process fail | holds |
| `history` | `TypeOK`, `OwnRequestsOnly`, `RefusedForAReason`, `SingleIsThere`, `RecordedIsThere`, `KeepsLedger`, `JobsEnd` | 3 jobs, 2 users and strangers, 2 hashes; database, tokens and process fail | holds |
| `history_lost` | `AllIsThere` | 2 jobs of one user, no fault | violated |
| `startup` | `TypeOK`, `OneRowPerUser`, `ServingIsSeeded`, `NotAllLose`, `StartEnds` | 3 instances, 2 of the 3 tables, 2 users, 2 attempts; the database comes and goes, instances crash and start again | holds |
| `service` | `TypeOK`, `MyShowsOwn`, `HistoryWasReturned`, `MyNeverShrinks` | 2 requests, a client that calls `/lime/my` again and again, 2 users, strangers and anonymous clients, 1 transaction, 2 blocks; expiring tokens, crashes, drains and restarts | holds |
| `service_drain` | `ShutdownEnds`, `RequestsAnswered` | 2 requests, a client of `/lime/my`, 1 transaction; database failures, drains and restarts | holds |
| `service_shown` | `HistoryIsShown` | the same with 2 transactions, no fault | violated |
| `service_exit` | `NothingKilled` | the same with 1 transaction, no fault | violated |
| `gateway` | `TypeOK`, `MyNeedsLogin`, `LoginLasts`, `AnsweredOnce`, `KeepsLifecycle`, `EndsWhenTold` | 2 requests to any endpoint, 2 users, a forged token, 2 secrets and an environment without `ETH_NODE_URL`, a clock of 3 readings and tokens that live one; starts, listener, `Shutdown` and storage fail | holds |
| `gateway_rlp` | `RlpNamesTransactions` | 1 request, a list whose item is text, no fault | violated |
| `fake_order` | `FirstHashFails` | the set-up of one test, 2 goroutines | violated |

**Why the bounds are enough.** The races of this code are between two actors: two
goroutines of a fetch against the closer and the caller, two requests or jobs
against one index, a signal against the listener. Section 4 proves every safety
property of these runs for any number of them; the bounds matter for liveness
alone. Two blocks are what a reorganisation needs, two transactions what a batch
needs to be refused because of one and to lose the other. A repetition and an
alias are the two ways in which a list differs from the set of its
transactions. `history` has three jobs, because a job that is refused must be
told apart from the one that was recorded and from one that comes later.
`startup` has three instances, so that one can lose to another that loses to a
third, and two tables, a first and a last one; two attempts are the least that tell a retry from giving up
(`MaxRetries` is 10 in the code). `gateway` has two requests, a login and a use of
its token, before and after a restart; the clock (`MaxTime` = 2, `Lifetime` = 1)
can stand before, at and behind an expiry. `Req` bounds the requests in all
modules; processes may drain, end and be started again any number of times. A
process that is killed while it serves (the fault `"crash"` of `Server`) is left out of
`gateway` for its size: `service` has it, and the theorems about `Gateway` hold
for every set of faults. `SYMMETRY` is used in `service` only, which checks
invariants only, over sets of model values whose members play the same part.

**What the violated runs show.**

- `history_lost`: the same race between `SaveUserHistory`'s read and its
  insert. A hash the user queried is missing from his history (`README.md:9`).
- `service_shown`: `[h1]` and `[h1, h2]` both miss and fetch; `[h1]` is saved
  first, and the insert of `[h1, h2]` is refused as a whole. `h2` is then in the
  history and not in the table, and `/lime/my` leaves it out without a word
  (`README.md:31`), nor is it cached, although `README.md:8` says that fetched
  transactions are.
- `service_exit`: the graceful shutdown (`cmd/server.go:100`) waits for
  handlers, while saves and recordings of answered requests are killed.
- `gateway_rlp`: `ParseRLP` encodes the bytes of an item (`core.go:188`).
  `core_test.go:234` feeds it items that are the text of hashes, and takes the
  double encoding for "the transaction hashes"; those strings pass validation and name
  other transactions.
- `fake_order`: the double of the client fails its first call, whichever goroutine
  makes it, and `node_service_test.go:120` expects that of `hashes[0]`: the
  test depends on the scheduler.

**Fairness.** Invariants and refinements are checked without any. The
liveness properties assume the following and no more.

- *The Go scheduler* runs a goroutine that can run: weak fairness of the go
  loop, the closer, the range loop, each send and each `Done` (`Scheduler`), of
  each job's and start's next step, and of what the main and the listening goroutine
  can do (`FairSpec` of `Gateway`).
- *A cancelled context ends an RPC* (`Scheduler`, `cancelled /\ Rpc(i)`): what
  go-ethereum's client does with the context it is given.
- *The node answers or fails every call* (`NodeAnswers`): an assumption of
  `FetchReturns` written in the property itself, because the code sets no timeout;
  `CancelEndsFetch` does without it.
- *Handlers go on* (`HandlersGoOn`): an assumption of `EndsWhenTold`, written in the
  property for the same reason. A handler reads the body of its request
  (`payload/validation.go:12`), asks the node (`node_service.go:64`) and the
  database, and writes a response, and nothing sets it a deadline: the
  server has no timeouts (`server.go:17-20`), and `Shutdown` gets
  `context.Background()`. A client that withholds the body it has announced, or a node that is
  silent, can hold the shutdown up for ever; it ends if clients send what they
  have announced and take their responses, and the node and the database answer or fail.
- *`service_drain` assumes the same* of clients, node and database, as the fairness of
  the requests in `FairSpec` of `Fethcher`.
- *The database answers or fails.* No statement has a deadline; one that
  never comes back would hold its handler or its job, and with it a shutdown.
- *An instance that starts goes on*, whether or not the database answers:
  `connectWithRetry` sleeps and comes back, a failed statement returns.
- Nothing else is assumed of clients, and nothing of the chain, of the clock, of signals, crashes
  or restarts, nor in `service_drain` of saves and recordings: a shutdown must not
  need them.

`CHECK_DEADLOCK` is off in `fake_order`, where a test comes to its end, and on
everywhere else. The systems that may stop say so with an action of their own
(`Over`); the others never do, because the chain, the clock or the process may
always move.

## 4. What is proved

Every theorem holds for every value of the constants under the named assumption
of its module: any number of hashes, requests, jobs, users, strings and blocks.

**`NodeFetchProofs`** (assumption `FetchAssumption`). The invariants that
matter are not inductive: that nobody sends on a closed channel depends on what
the WaitGroup counts. `IInv` strengthens them: exactly the positions before
`ind` have been started, and the closer exists only after the last of them
(`SpawnInv`); the counter equals the number of goroutines that were started and
have not exited, and the channel is closed only when there are none
(`WaitInv`); a result in hand is an error or a block of its transaction
(`ResInv`); a position is in `results` or in `aggrErr` exactly when its
goroutine has delivered (`FileInv`). From it follow `TypeCorrect`, `SendSafe`,
`NoLeak`, `AllHeardOnce`, `FreshRecords` and `ReturnIsFinal` (no step of a call
is left when it has returned); `ImplementsPromise` maps every step
to one of `FetchPromise` or to a stutter. The counter's arithmetic rests on
cardinalities of finite sets.

**`TxCacheProofs`** (assumption `CacheAssumption`). `IInv` says that the table
has one row per hash, each in a block it was in (`TableInv`); that what the node
has now it has had (`ChainInv`); that calls hold nothing before their lookup
(`FreshInv`); that rows a lookup found are still in the table, and fetched
records are of the right transaction (`RecordInv`); that a returned call has a
row, a record or an error for every position (`AccountInv`); that an accepted
save is in the table (`SavedInv`); that a call fetches only what its lookup missed and
holds only rows it asked for (`AskedInv`); and that every row was put there by an
accepted save (`SourceInv`). `Accounted` needs a counting lemma
(`CountDecides`) for the early return: the table has one row per hash and every
row found is one of the strings, so as many rows as strings leave no string
out, whatever is repeated or aliased in the list. `Agreement` follows from what
stays in the table and `OnlyMined` from what gets there; `SinglesCached` from
`Accepts`, whose three refusals leave a list of one hash only the case that the
row is there. `ReasonedRefusals` names the request that made it, by `SourceInv`.
`SaveFollows` says that no call that got a record returns without a save
(`FetchedIsSaved`). `ImplementsPromise` maps the steps to `CachePromise`: a lookup
to `Serve`, `Return` to `Open`, an accepted insert to `Fill`, whatever else ends
saves to `Drop`. `PromiseSuffices` goes the other way: `CacheAgrees` follows from
`CachePromise` alone.

**`UserHistoryProofs`** (assumption `HistoryAssumption`). `IInv` adds to the
properties that a job which reads or inserts has a valid token (`StartInv`) and
that what it has read is still in the table (`KnownInv`), without which a
recorded batch need not be complete. `ReasonedRefusals` rests on `InsertedInv`: every
row was new to the job that inserted it. `ImplementsLedger` maps the jobs to
`HistoryLedger`, and `LedgerSuffices` derives `RecordedIsThere` and
`OwnRequestsOnly` from the ledger alone.

**`StartupProofs`** (assumption `StartupAssumption`). `IInv` says that tables are
created in order, exist while their columns are compared and all of them once an
instance counts (`TableInv`), and that the
users are those of one seeding or none (`SeedInv`). `NotAllLose` is not
inductive: an instance that will find its table created, or its users
inserted, has lost before it fails. One whose lookup failed has not, whatever it finds:
it loses to nobody, and `NotAllLose` does not count it. `AheadInv` says that some instance has not
lost in this wider sense, and it is kept because every step that makes others
lose is the step of an instance that goes ahead by it. `StorageKept` is about
steps: tables stay, and so do the users once they are there.

**`FethcherProofs`** (assumption `ServiceAssumption`, which contains
the cache's). Every step of the service is a step of `TxCache` or leaves its variables
alone (`ImplementsTxCache`), so the cache's invariant holds in the composition
without being proved again. The histories do not carry over in this way, because
they record what the cache returned. `IInv` therefore adds that a job belongs to a request
that has returned, with the same token, and its batch is part of what that
request got (`JobInv`); that a row of a history goes back to such a request
(`HistoryInv`); and that what was shown or is owed is in both tables, and is in
what a call has listed (`SeenInv`, `MyInv`). Two facts about steps carry it: rows of
the tables stay (`CacheStays`, `HistoryGrows`), and so does what a call that has
returned got. From it follow `OnlyReturned`, `OwnShown` and `NeverShrinks`.

What is proved of the parts is then proved of the whole. `CacheKeepsWord` and
`CacheKeepsPromise` carry the cache's theorems over by `ImplementsTxCache`. For
the histories `ImplementsUserHistory` shows that the jobs of the service are those
of `UserHistory`; it needs `IInv`, because the batches that `UserHistory` takes from a constant are
here what the cache returned, and `JobsAssumed` shows that they meet that
module's assumption. `HistoriesKeepWord` and `HistoriesKeepLedger` follow. Four
statements are theorems only, for with the two transactions they are about the
service has millions of states: `AnswersAgree` (`/lime/eth` and `/lime/my` never
contradict each other), `HiddenWasNotSaved` (a hash that a history names and the
table lacks was fetched by a request of that user whose save has not
succeeded: the flaw that `service_shown` exhibits has this one cause),
`ReplyRecorded` (a job that recorded has put the whole reply into the history of
the token's user; `BatchInv` is its strengthening) and `FetchedIsSaved`.

**`GatewayProofs`** (assumption `GatewayAssumption`: the service's secrets
sign none of the forged tokens, expiries are numbers). `ProcessInv` says what
the two goroutines of a process know of each other: a listener is
closed only when the process drains, one that failed is a cause to end, a process
that shuts down without an error got a signal, and only a configured process runs. It is
inductive by itself and gives `ImplementsLifecycle`, in which a process drains for one cause
(`reason`), the one that `select` took, and exits with the code of that one even if there
are two. The rest of `IInv` says of
each request that it is accepted exactly while its handler runs (`BusyInv`), has
not answered before it is done and has answered once afterwards (`StatusInv`),
is at a stage of its own endpoint (`InputInv`, `PlaceInv`), and that what it was
granted or refused rests on a token and a time (`GrantInv`, `RefusalInv`); and of
each token handed out that some request logged in for it, a lifetime before its
expiry (`IssuedInv`). `ShownAfterLogin` and `LoginsLast` need all of them:
the one goes from a shown history to the token, from the key to the tokens handed
out, and from there to the login. `AnswersFinal` is about steps: responses,
logins, refusals and issued tokens are never taken back. `ImplementsServer` shows
that handlers leave the goroutines of the process alone.

**`FakeClientProofs`** (hypotheses of its theorems: the value of a free mutex is
no goroutine, and the set-up of a test has a length). `IInv` says that the holder
of a method's mutex is in that method and the only one there that is counted
(`LockInv`), and that a goroutine has called the methods before its place and none after
(`PlaceInv`). From it follow `InOrder` (answers go out in the order of the
calls, one each) and `JustOneFails`: of a double whose first answer is an error
exactly one goroutine gets it. That is what a test may assert, in place of the hash that
`FirstHashFails` names.

**Only model-checked.** Liveness, which is out of TLAPS's reach with ENABLED:
`FetchReturns`, `CancelEndsFetch`, `JobsEnd`, `StartEnds`, `RequestsAnswered`,
`ShutdownEnds` and `EndsWhenTold`. Every invariant and every refinement that a
passing run checks is also a theorem. So are the seven statements that no run checks
(`AnswersAgree`, `HiddenWasNotSaved`, `ReplyRecorded`, `FetchedIsSaved`, the two
actions called `Final` and `Kept`), and the two of `FakeClientProofs`.

## 5. What is not modelled, and what could follow

Not modelled: what is logged, and the request ids that only log lines carry; the
fields of a record besides its hash and its block; bcrypt, HMAC and RLP
themselves, which are libraries; HTTP below the level of a request, and a failing
`json.Encode`; the doubles whose tests call them from one goroutine, so
that nothing interleaves in them; `CallCount` and `ArgsForCall` of the client's
double, which only read, and `Invocations`, which no test calls. A database
statement is one step, as PostgreSQL's isolation of one statement has it; no
statement hangs, and none succeeds without its client hearing of it. A table is created together with
its indexes, which are statements of their own that a later start makes up for. A receipt without a block number and a reorganisation deeper
than the set `Block` are outside too.

What could follow: the pattern, `HexToHash` and the encoding of `ParseRLP` as
functions of digits, from which the constants `HexToHash`, `Canonical`,
`Pattern` and `HexEncode` would be derived instead of assumed. For the proofs: an abstract
specification of sessions (a login opens one, its lifetime or a new secret ends
it) that `Gateway` implements and that implies `MyNeedsLogin` and `LoginLasts`.
