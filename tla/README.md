# TLA+ specifications of metric-gathering

An agent collects runtime and system metrics and sends them to a server, which
keeps them in memory and in a JSON file, or in PostgreSQL. This directory holds
specifications of the two programs, the TLC runs that check them on small
instances and the proofs that hold for every instance. Paths below are relative
to `src/`.

    tlc -workers 2 -config MemStorageSafety.cfg MCMemStorage
    tlapm MemStorageProofs.tla

## The system

| Component | State | Operations | Interacts through |
|---|---|---|---|
| In-memory storage, `internal/storage/mem_storage.go` | two maps, one mutex, the JSON file | save, get, list, batch, `Flush`, `Load`, periodic save | method calls of the handlers, of the saver and of `main`; the file |
| Server lifecycle, `cmd/server/main.go`, `internal/app/app.go` | storage choice, saver goroutine, signal | start, restore, signal, final save, exit | starts the HTTP server and the saver, stops neither |
| HTTP handlers, `internal/handler/handler.go` | none | update (URL, JSON, batch), value (URL, JSON), listing, ping | one goroutine per request; storage calls |
| Middleware, `internal/app/app.go`, `internal/middleware` | request body | gunzip, log, check hash, decrypt | wraps the handlers |
| Database storage, `internal/storage/db_storage.go`, `migrations` | tables in PostgreSQL | the same as the in-memory one, with retries | SQL |
| Agent process, `cmd/agent/main.go` | tickers, a channel of 100 reports, a context, a wait group | poll, report, take, send, shut down | goroutines and the channel |
| Collector, `internal/agent/collectors` | map of metrics, `PollCount`, `lastPollCount`, mutex | `Collect`, `CollectSystemMetrics`, `GetMetrics`, `CollectAndStore` | called by three goroutines |
| Sender, `internal/agent/senders` | none | `SendBatch`, `Send` | HTTP |
| Configuration, `internal/config`, both `main.go`, `internal/app/app.go` | environment, flags, JSON file | precedence, failing on what is invalid | start-up |
| Hash and RSA helpers, logger, profiler, static analysis | none | | |

What makes it hard: handlers, the saver and `main` share one mutex that `Flush`
keeps through its retries; the file is truncated before it is rewritten, and
nothing is stopped before `main` returns; the agent's goroutines end through a
context, a closed channel and a wait group that know only of some of them; a
request may be refused, lost, or executed after the agent gave it up, and its
content is then sent again in another form; numbers pass through JSON. Database
statements may have taken effect although they failed, and are repeated; batches
lock rows in the order of a Go map. Each layer around a handler consumes the
body and expects another form of it than its neighbour leaves, and which layers
there are depends on settings that two programs read from three sources each.

What makes it correct: an update, a whole batch included, is atomic for every
reader and for the file; what was acknowledged before an orderly shutdown is
there after the restart; a report is in one place at a time and is sent once;
the log says "sent" only of what was stored; both programs end after a signal.
The code does not do all of this: see [Violated](#violated).

`PROJECT.json` lists the components, the hazards at their lines, and which
definition stands for which lines.

## The modules

- `CounterCodec`: `int64` addition, and what JSON makes of a counter (written
  as an integer, read as a `float64`, converted back). An `int64(f)` out of
  range gives the smallest or the largest value: Go leaves the result to the
  platform, so it is a choice.
- `Metrics`: the two maps, an update, a lookup, the listing, and what `Load`
  may build from a file. A float is a model value; `NonFinite` ones have no
  JSON form.
- `MetricStore`: the abstract promise. Each update and each read takes effect
  at one moment between request and response; the saved image is a state of the
  store or nothing; a restart begins with the image or empty.
- `MemStorage`: the storage in its process. `pc[h]` follows a handler through
  the storage methods it calls (`save`: waits in `Lock`; `apply`: at work on
  the items; `get`, `read`; `copy`, `overlay`: the two loops of
  `GetAllMetrics`; `reply`), `pc[Saver]` and `pc[Main]` follow `Flush`
  (`flush`: waits in `Lock`; `create`: before `os.Create`; `write`: before the
  document is written). `Boot` is `NewMemStorage`, `Load` and the start of the
  goroutines; `Signal`, `Flush` and `Exit` are the end of `main`; `Kill` may
  come at any moment. `file` is `Broken` when it is no JSON document, that is
  between `os.Create` and the write, and after a failed one. `live` (the maps
  at the last unlock after an update) and `since` (its values since the signal,
  none when the file may be truncated) are history variables; no action reads
  them to decide anything.
- `Agent`: the agent process. A report is its position in `reports`; the
  channel is a sequence of positions. `pc` follows the goroutines, `request`
  and `response` a worker's request, `net` holds the requests that the server
  may still execute, those included that the worker gave up (`Late`). The server
  is as much of `src/` as the agent can tell apart: `Serve` stores the request
  whole and answers 200, `ServeUnstored` answers 200 without having stored it (a
  failed commit, an error that the handler drops), `Retry` is an update that
  `retryOperation` executes once more, `Refuse` is any other status, of which
  nothing is stored. `ServeUnstored` and `Retry` need a `Database`; the
  in-memory storage has neither. `executed` counts what was stored of each
  request, `gauge` is the report that the server's gauges are from.
  `SendOnClosed` is the panic of a send on the closed channel, `WorkerStops` and
  `ChannelEnds` are the two ways out of `worker`.
- `Collector`: the collector's map key by key. `pc[g]` is `fill` between two
  writes, `put` inside one, `copy` in the loop of `GetMetrics`, `store` in the
  loop of `CollectAndStore`; `todo[g]` holds the keys to come. `StartPut` and
  `EndPut` are one assignment to the map, so that another goroutine can come
  upon it; `Throw` is the fatal error of the Go runtime on concurrent access,
  and a write that was not alone may be lost. A gauge of `Collect` is the number
  of the poll that read it. `raced` and `overtaken` are history variables.
- `DBStorage`: the PostgreSQL storage under the same handlers. `pc[h]`: `stmt`
  (a statement that commits by itself), `begin` and `exec` (a batch in its
  transaction; at the end of its items it commits), `query`, `gauges`,
  `counters` (the two statements of the listing), `reply`. `Failed` is
  `retryOperation` after an error, `Return` the way of a result back through
  the handler. The database is external and modelled as far as these statements
  can tell: row locks until the end of a transaction, waiting, deadlock
  detection, `BIGINT` overflow, and answers lost before or after the effect
  (the `Lose...` actions). Errors are told apart by what the code does with them:
  `failing` is any other SQLSTATE of `isRetriableError`. `applied` counts how
  often a request has changed the tables; no action reads it.
- `Settings`: which source gives a program its settings. A flag that is not given
  has its default (`Flag`). What the file gives is the outcome of each program's
  own loader; the two expect other fields, so the same file may give them
  different settings (`given.agent.file`, `given.server.file`).
- `Pipeline`: bodies, headers and layers. A body is the sequence of what was
  done to it, so that a layer which expects another form finds it; a hash is
  the key and the body it was computed from.
- `Deployment`: `Settings` and `Pipeline` composed: both programs start from
  what they are given (`given`, `conf`), the server connects, migrates and
  listens, the agent's worker sends one report after the other through the
  layers (`request`, `at`), and other clients send what they like. `stored` is
  what the server has stored of the current report. `InitializeApp` makes the
  settings in one step and goes on to `ping` or `router`; `Pass` is a layer.
  All seven routes are there; the handlers of `BodyRoutes` decode a document, and
  those that look something up, or ping, may fail (`MayFail`, `MustFail`).
- `CounterWalk`: walks through all counters and states what `CounterCodec` owes
  to each.
- `MemStorageRefinement`: the refinement mapping from `MemStorage` to
  `MetricStore`.
- `MCCounterCodec`, `MCMemStorage`, `MCAgent`, `MCCollector`, `MCDBStorage`,
  `MCDeployment`: the instances for TLC.
- `CounterCodecProofs`, `MemStorageProofs`, `AgentProofs`, `CollectorProofs`,
  `DBStorageProofs`, `DeploymentProofs`: the theorems about the module they are
  named after. `Induction` and `Folding` hold what they need about natural
  numbers and about folds over sequences.

Operators whose comment begins with "A bug" are mutations of the
definition below them. They are not part of any specification; each makes TLC
find a property violated, which shows that the property depends on that code.

## The runs

| Run | Shows | Bounds |
|---|---|---|
| `counter_codec` | `SmallCountersSurvive`, `RestartsDoNotDrift`, `OrderSurvivesRestart` | all 256 counters of 8 bits, 4-bit mantissa: every rounding, tie and overflow occurs |
| `storage_safety` | types, `MutualExclusion`, `SnapshotsAreCommitted`, and the refinement of `MetricStore` | 2 handlers, saver, main; 2 names; 2-bit counters, so that they wrap; a finite and a non-finite gauge; file errors; any number of requests, saves, signals and kills |
| `storage_shutdown` | `ShutdownKeepsAcked`, `RequestsAnswered`, `ShutdownTerminates` | 2 handlers, saver and main on one mutex: a request, and main's own `Flush`, meet a `Flush` of the saver that keeps the mutex through its retries; gauges only, so that histories of what happened since the signal stay small; file errors |
| `agent_shutdown` | types, `OneOwner`, `StoppedMeansIdle`, `ShutdownTerminates`, `ReportsAreTried` | 1 worker with a public key (individual sends), channel of 1, 3 reports: one in the worker's request, one in the channel, one with the blocked reporter; broken connections |
| `agent_delivery` | `AtMostOnce`, `BatchSentIsSettled`, `GaugesMoveForward` | 1 worker, a server with a database and its 4 attempts; channel of 1, 2 reports, 1 poll; each request can fail in every way and be executed late; no signal, which `agent_shutdown` is for |
| `collector_safety` | types, `ReportIsOnePoll`, `StoredAtMostPolled`, `StoredExactly` | one goroutine for each method, 2 gauges of `Collect` and one of the system, 3 polls: a poll falls into every window of `CollectAndStore`, and a second and a third call follow |
| `db_safety` | types, `BatchOutcome`, `SavedMeansApplied`, `ChangesAreWhole`, `RequestsAnswered` | 2 handlers, a gauge and a counter, two batches in opposite orders, so that they deadlock; 2 attempts instead of 4, so that a first, a last and a repeated one occur; a BIGINT of at most 3, so that statements and batches overflow; any number of requests |
| `deployment_safety` | types, `StoredIffCompatible`, `AnsweredMeansSigned`, `ListensWithStorage`, `SameSourcesAgree`, `StartEnds`, `ReportsArrive` | all combinations of no key, two valid keys, an invalid one, no key pair, two pairs and an unreadable file on both sides; a slice with addresses, intervals and data sources; a slice in which both programs share sources that contradict one another; 2 metrics; 2 attempts; 8 requests of others, signed and unsigned, on the routes that the agent does not use and on `/updates/` |
| `agent_panic`, `collector_race`, `db_promises`, `deployment_promises` | violations, see below | the smallest instance that shows each |

Bounds are named in the guards (`MaxPolls` in `Agent` and `Collector`,
`MaxReports` and `Stops`); `MemStorage` needs none, its state space is finite because
counters wrap. Two handlers are enough for the mutex: they, the saver and `main`
already give every order of two critical sections, and the proofs lift the
bound. One worker is enough for `OneOwner`, `AtMostOnce`, `BatchSentIsSettled` and
`StoppedMeansIdle` in the same sense: they are proved for any pool. So is the half
of `BatchSentIsSettled` that is about a server without a database, which
`agent_delivery` does not reach. `storage_safety` identifies states that differ
only in `since`, which none of its properties mentions.

### Fairness

`MemStorage`: weak fairness of each goroutine's steps, strong fairness of
taking the mutex, since `sync.Mutex` hands itself over to a goroutine that has
waited for a millisecond. No request, tick, signal or kill is ever forced.
`Agent`: weak fairness of the reporter, of main and of each worker, and of an
answer to the request that a worker waits for: the agent's HTTP client has no
timeout, so without a server that answers in the end a worker waits for ever, and
so does the shutdown. Neither ticks nor signals nor connection errors are forced,
and no request that was given up is.
`DBStorage`: weak fairness of each handler (the database answers, and breaks
deadlocks), strong fairness of the two statements that wait for a row lock,
which PostgreSQL hands out in the order of waiting. No request and no fault is
forced. `Deployment`: weak fairness of the server's start, in which an attempt
succeeds or fails, of the agent, whose ticker goes on, and of the goroutine
that serves it. `StartEnds` holds because the attempts are counted, not because
one is assumed to succeed.

### Violated

Each run shows what a comment, a log line or the README of the repository says,
and TLC finds a behaviour of the code that does otherwise; `PROJECT.json` quotes
the words. `SomePromiseKept` is the disjunction of several promises: one state in
which it is false breaks them all.

| Run | Promise | What the code does |
|---|---|---|
| `agent_panic` | `NoPanic` | `main` closes the channel while the reporter may send (`cmd/agent/main.go:230`). |
| `collector_race` | `NoDataRace` | `CollectSystemMetrics` writes to the map without the mutex (`runtime_collector.go:47`). |
| `db_promises` | `BatchAckedIsStored` | The deferred function of `UpdateMetricsBatch` assigns the error of `Commit` to a variable that nobody reads any more (`db_storage.go:221`): a batch that was not stored is answered with 200, and the agent does not send it again. |
| | `CountedOnce` | An update whose answer was lost is executed again, and the delta added again (`db_storage.go:91`). |
| | `AnsweredMeansStored` | The handler drops the storage's error and answers 200 with what it has read (`handler.go:237`). |
| `deployment_promises` | `SentIsStored` | With the same key on both sides nothing is ever stored. The batch carries no hash, `Send` signs the compressed body and the server checks the decompressed one, and the worker logs "Metrics sent successfully" because `Send` does not look at the status (`http_sender.go:163` and `184`). |
| | `SignedIsServed` | The check of the hash consumes the body (`app.go:44`): a correctly signed document is refused by the handler behind it. |
| | `FlagsWin` | A flag given with its default value loses against the file (`app.go:128`). |
| | `KeyPathFromFile` | The server ignores the `crypto_key` of its file (`cmd/server/main.go:45`). |

Three more disagreements are in the models as they are in the code, and no run is
spent on them. With a store interval of 0 no action saves on an update, although
the flag says "0 for synchronous saving" (`app.go:101`). A counter beyond 2^53
comes back from the file as another one (`mem_storage.go:136`), although the flag
says "Restore metrics" (`app.go:103`); `SmallCountersSurvive` is what remains.
And workers that see the context done leave what is in the channel
(`cmd/agent/main.go:26`), so that the "graceful" shutdown (line 223) may end
without having tried to send it.

### How the properties are meant

After a data race the other goroutines may do anything that a lost write
explains, so `ReportIsOnePoll` and `StoredExactly` speak of behaviours without
one; `StoredAtMostPolled` holds in all of them. It and `StoredExactly` speak of
one caller of `CollectAndStore` at a time, as in the tests (the agent never calls
it): two at once count polls twice. A poll that falls between the critical
sections of `CollectAndStore` may be lost, which `StoredExactly` excludes.
Nothing in the agent moves `lastPollCount`, so each report carries all polls and
the server adds them up; `Collected` in `Agent` is so, and no words of the
repository say otherwise.

`OneOwner` is about the running agent. What is in the channel of an agent that
has exited is lost.

`AtMostOnce` and `BatchSentIsSettled` distinguish the two storages of the server.
In memory a request is executed once, and "Metrics batch sent successfully" means
that it was. With a database a single update may be executed `maxRetries` times,
and a batch that is logged as sent may not be stored; what remains is that none of
its metrics is sent alone, and that a batch and its single updates are both
executed only when the batch was given up without an answer.

`SavedMeansApplied` is what remains of `CountedOnce`: an update that returns
without an error was stored, and no single attempt stores it twice.
`ShutdownTerminates` and `ReportsAreTried` of the agent assume a server that
answers.

`SameSourcesAgree` is about programs to which the same environment, flags and
loaded file were given. One file that only one of the two loaders accepts does
not meet that condition, and neither does the property speak of the key pair when
the file names it (`KeyPathFromFile`).

`AnsweredMeansSigned` covers all seven routes and whatever other clients send.

`StoredIffCompatible` says which deployments work, in full. With a key that the
server checks, only one does: the agent has the same key and a public key, and
the server no private key, because then alone the hash covers the bytes that
the server reads, and the handler of `/update/` needs no body. Without such a
key every deployment works but the one with two different key pairs. A small
encrypted batch never does, since the decrypted data are still compressed; the
fallback delivers its metrics.

`GaugesMoveForward` is for one worker. With two, TLC finds the older of two
reports stored last. With one, only a request that the worker has given up, executed
late or once more, can replace a newer gauge by an older.

The listing of `DBStorage` is not atomic; no property is stated about it.
`Recognised` is what `isRetriableError` would see with the driver version it was written for; the
runs have it `FALSE`, as the imports make it.

`ShutdownKeepsAcked` leaves out the shutdowns in which a `Flush` of the saver
fails, or is inside `os.Create` or the write when `main` returns; the file may then
be truncated. No line of the repository promises otherwise, so it is stated here
and not as a finding. The same is true of a `Flush` that fails after `os.Create`
has truncated the last good file:
`SnapshotsAreCommitted` and `MetricStore` allow that the image is lost, and
say that nothing else ever gets into the file.

## The proofs

Every safety and action property of the passing runs, and the refinement, is
proved for every value of the constants. Each proof names an inductive invariant.

**Assumptions.** The `ASSUME`s stand in the modules, and TLC evaluates them on
each run. Beyond types they say: goroutines are distinct, and finitely many
where they are counted (`WorkersAssumption`, `FiniteAssumption`); requests are
those the handlers let through (`CallsAssumption`, in `MemStorage` and
`DBStorage`); the markers `Absent`, `Nil`, `NoFile`, `Broken` are no values;
integers are two's complement (`WidthAssumption`); no default names a key pair,
as in both programs (`DefaultAssumption`); sources and the requests of others
are records with the fields that the models read (`InputsAssumption`,
`OthersAssumption`); there is at least one attempt (`RetriesAssumption`).

**Induction over data.** The library's induction theorems cannot be
instantiated here, so `Induction` proves one that takes a set instead of a
predicate: `Nat \subseteq S`, from the well-foundedness of finite intervals
(`SetInduction`). With it `Folding` proves what `FoldLeft` computes one element
at a time (its recursion has a solution, and one only), and
`CounterCodecProofs` what `Pow2` computes.

### `MemStorageProofs`

- `TypeCorrect`: `Incremented` stays in `Int64` because of the modulus in `Plus`
  (`PlusInt64`), and what `Load` builds is a store because only an int64 comes
  out of `Decodings`.
- `MutexCorrect` (`MutualExclusion`) and `SnapshotsCommitted`. The inductive
  invariant `IInv` adds two facts: a process that is down has no goroutines
  (otherwise `Boot` could not hand out a free mutex), and the maps equal `live`
  unless some handler is applying an update. The second is what `Flush` needs: it
  holds the mutex, so nobody is applying, so what it writes is `live`.
- `ShutdownCorrect`: `Spec => [](HasFile => ShutdownKeepsAcked)`. `Saved` says
  that from the signal on `live` is in `since`, that once main has saved it only a
  saver that holds the mutex has something else in the file, and that the file is
  in `since` when the process has ended. A saver that gives the mutex back has
  written `live`, or has ended `since`.
- `StorageImplementsStore`: `Spec => ImplementsMetricStore`. To its clients the
  storage is `MetricStore`. `RInv` adds to `IInv` where each handler's request
  takes it (`Follows`), that the maps of a handler at work are `live` with the
  items before its position applied (`Applies`, a fold), and that a listing
  under way has the gauges as they still are (`Answers`). Then the unlock after
  an update is the step `Update` with the whole batch, the read or the second
  loop of the listing is the step `Read`, `WriteFile` is the save, and every
  other step leaves the abstract state as it is.

### `CounterCodecProofs`

For integers of any width and floats of any precision: `SmallCountersCorrect`
(a counter below `Pow2[Precision]` is restored as it was),
`RestartsDoNotDriftCorrect` and `OrderSurvivesCorrect`. `Grid(a, e)` says that
the floats around `a` are the multiples of `Pow2[e]`; there is one such `e`, and
`Ulp` finds it. `Near` rounds within the grid; a result at its upper end belongs
to the next grid and is a power of two, which every grid holds (`NearStays`,
`PowerIsFloat`). The smallest int64 is a float. The largest is one, or is rounded
to the power of two beyond it (`LargestRounds`): so it may come back as either
limit, and stays within the two.

### `AgentProofs`

- `TypeCorrect`: `TypeInv` adds where each goroutine may be (`Places`), that only
  collected reports travel (`Travelling`) and that a waiting worker has one
  request out, for its own report (`Waiting`).
- `OneOwnerCorrect`: `Owned` says that the channel is in the order in which the
  reports were collected and that all workers are ahead of it, so the places of a
  report exclude each other; that two workers never have the same report; and that
  each collected report has a place.
- `StoppedCorrect`: main leaves only when all workers have stopped.
- `GaugesCorrect`: the gauges and the requests in the network are of reports ahead
  of the channel, and a single worker is never behind any of them (`Ordered`), so
  only a request it has given up can turn the gauges back.
- `AtMostOnceCorrect`, `BatchSentCorrect`, for servers with and without a
  database: `Counted` says that a request in the network has an execution left
  (`Bounded`); that what a worker has yet to send alone was never asked for
  (`DueUntouched`), nor was anything of a report that no worker has sent
  (`FreshUntouched`); that a batch which is out, or was executed, excludes its
  single updates until it is given up (`Exclusive`); what an answer that has
  arrived says of the batch (`AnswersKnown`); and that nothing of a batch logged
  as sent is on its way (`SentSettled`).

### `CollectorProofs`

`CInv` for any number of goroutines: the holder of the mutex is in `Collect` or
`GetMetrics` (`Mutex`), without a race a writer is alone (`Alone`), and the map is
the last poll but for the keys that the one in progress has written
(`MapIsPoll`); what a reader has copied is of that poll (`Copies`); what a
storer has stored, and has yet to store, adds up to no more than was polled
(`StoresNoMore`, races or not) and to exactly that if no poll fell between
(`StoresAll`). From it follow `TypeCorrect`, `ReportIsOnePollCorrect`,
`StoredAtMostPolledCorrect` and `StoredExactlyCorrect`. The last two need the one
caller that they name, hence the finite number of goroutines.

### `DBStorageProofs`

`DBInv`: a handler is where its request takes it (`Serves`), its transaction has
locked exactly the rows it has written (`LocksHeld`), what it has written fits
into the columns (`WritesFit`), and `applied` agrees with the place, the attempt
and the error (`Counts`): before attempt `n` at a single update it has been stored
at most `n - 1` times, and an answer without an error leaves it stored.
`BatchOutcomeCorrect` and `SavedMeansAppliedCorrect` follow from `Counts`. `ChangesAreWholeCorrect` needs the locks: a transaction
computes on its locked rows what the fold over the whole batch gives on the rows
of the moment of its commit, whatever others have committed to other rows
meanwhile (`FoldRows`).

### `DeploymentProofs`

`DInv` follows the agent's request through the layers: what its body is before
each of them (`InFlight`), that settings are those of the sources (`Loaded`), and
that what is stored, and what is left to send, add up to the report
(`Delivered`). What has passed the check of a server with a key is signed with it
and has no body left (`Checked`). `StoredIffCompatibleCorrect`,
`AnsweredMeansSignedCorrect` and `ListensWithStorageCorrect` are conjuncts of it or follow at once, so they hold
for all sources, keys and key pairs, any number of metrics and attempts, and
whatever other clients send. `SameSourcesAgreeCorrect` compares the two ways of
reading the sources.

### Only model-checked

The liveness properties (`RequestsAnswered`, `ShutdownTerminates`,
`ReportsAreTried`, `StartEnds`, `ReportsArrive`): they rest on fairness, and
`ENABLED` is beyond the provers. The violated properties are false, and nothing
is to be proved of them.

## What the models leave out

Validation errors of the handlers change nothing and have no action. The
operating system is assumed to keep what was written; a power loss is not
modelled. A partial document is `Broken`, like an empty file. The agent's HTTP
client may reuse connections; that is part of the server's answers and of
`ConnectionError`. The server of `Agent` answers each request by itself: which
interleavings its storage allows is the matter of `MemStorage` and `DBStorage`. As `cmd/server/main.go` stands, its `init` and
`InitializeApp` register the same flags, and the second registration panics;
`MemStorage` describes the process after `InitializeApp`, as the tests use its
parts; so does `Deployment`. A statement that timed out is executed before its
error is seen or never, not later, and the reconnections that `database/sql`
makes by itself are not seen. The migrations are one step. `Deployment` knows no
network faults (those are in `Agent`), and the settings that are left out
(restore, file path, number of workers) follow the rules of `Settings`, except
that an invalid `RESTORE` ends the server as an invalid interval does. With a
rate limit of 0 the agent has no worker and no report is ever sent. The logger,
the profiler, the build information and the static analysis command keep no
state that the rest reads. `HasFile = FALSE` is in the model and in the proofs, but no run uses it:
`Flush` and `Load` do nothing then. Nor does one use `Periodic = FALSE`, which
takes the saver away.

## Plan

1. Done: `CounterCodec`, `Metrics`, `MemStorage` with `MetricStore`, `Agent`,
   `Collector`; `DBStorage`; `Settings`, `Pipeline` and `Deployment`.
2. Done: the safety and action properties of all modules and the refinement are
   proved.
3. Left: an abstract specification of the agent's delivery (each report stored,
   partly stored or given up, once), which `Agent` refines by `Owned` and
   `Counted`; that what `FoldLeft` gives does not depend on the order of a batch
   whose rows are distinct, since the agent builds its batches from a map.
