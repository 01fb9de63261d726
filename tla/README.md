# Verification of systems-trinkets

This directory holds TLA+ models of systems-trinkets, the TLC configurations
that check them and TLAPS proofs about most of them.
`PROJECT.json` lists the components, runs, theorems and hazards, and maps every
modelling definition to the source lines it stands for. Paths below are
relative to the root of the repository.

```
tlc -workers 2 -config JobServer.cfg MCJobServer      # one run
tlapm JobServerProofs.tla                             # the proofs
```

## 1. The system

The repository is a set of small systems lessons around shared infrastructure.

**Lessons** (`lessons/go/<lesson>`). Each has a `core` package with the
operation being studied, a runner `main.go` that measures it, and an HTTP
adapter `perf/main.go` that k6 drives:

| part | state | operations |
| --- | --- | --- |
| background-job-queue | table of jobs (pending, done), row locks, per-variant tallies | `core.Work` (begin, claim with `for update` or `for update skip locked`, work, finish, commit); `POST /operation` (insert a job, `Work` once, tally); rounds of the runner |
| completed-job-counter | `job_seen`, `job_counter`, per-strategy tallies | `core.Apply` with the naive or the idempotent strategy; `POST /operation` (one delivery, tally) |
| cache-aside | keys with a TTL, hit, miss and redundant-miss counters, the end of each profile's latest miss | `core.ReadProfile` (cache, Postgres, fill); `GET /operation`; `/stats` |
| pipelining-work | counters in Valkey, batch counters | `core.IncrementSequential`, `IncrementPipelined`, `Sum`; `POST /operation`; `/stats` |
| sqlite-wal-lab | a database per journal mode, a held reader, a warmed pool, outcome counters | `core.OpenSnapshot`, `WriteEvent`; `POST /operation`; `/stats` |

**Container harness** (`internal/lab/docker`). It launches untrusted commands
in containers. State: the engine's containers, volumes, networks and images.
Operations: `Create`, `Start`, `Run`, `Exec`, `Stop`, `Wait`, `Remove`;
`ListLesson` and `Sweep` for leftovers; `Translate`, `CheckConfig` and
`CheckObserved` around each create; `BuildFixture`; `VerifyPeerIdentity`.
What runs in the containers is a fixture binary, `probe`: a survey of what the
process may do, and small servers (`peer-echo`, `http-count`, and `forward`, the
egress broker). Its lines are read back through `probeout`.

**Performance tooling.** `internal/lab/perf` gives an adapter its private
schema, its request limit, its ready file and a drain on a signal;
`scripts/perf/run.ts` builds and starts an adapter, waits for it, runs k6,
captures `/stats`, analyzes and stops the adapter.

**Interactions.** HTTP requests share a pool of Postgres connections and meet
in row locks. The harness talks to an engine that acts after the client gave
up. An `Exec` runs in a container its owner may stop or remove. The forwarder
joins two connections whose ends owe it nothing. `run.ts` and the adapter meet
through a file, signals and HTTP.

**What is hard here.** A statement's snapshot is older than the rows it locks;
a context that ends leaves a session or an engine request running; a lost
reply hides whether a step took effect; cleanup runs after the failure it
cleans up after; two processes hand over through a file that exists before it
is written; counters that belong together are added and loaded one by one. The
hazards in `PROJECT.json` name the lines.

**What makes each part correct.**

- queue: a job goes to one caller; tallies match the table up to the requests
  whose outcome was lost; no lock is orphaned; waits have no cycle; a 409 is
  earned; a round ends as a permutation of its jobs
- counter: an event counts once however often it is delivered; no increment is
  lost; what a client was told is true
- cache-aside, pipelining, sqlite: each stampede is booked as one load; every
  confirmed batch or write is stored; a held reader keeps its view and makes no
  write fail; `/stats` is off by no more than what was in flight
- launcher and exec: a container whose ID is known is removed or reported;
  success is a real exit; every call returns
- sweep: only the lesson's objects are removed; nil means gone; undisturbed,
  one sweep is enough
- spec: nothing weaker than asked is handed out, and no false alarm is raised
- fixture image: every listed directory has its owner whatever the order; the
  output format loses and changes nothing
- probe: a report is about the user the container was started with; the
  forwarder passes on whole connections and can always be stopped; a dialer
  gets its reply
- peer identity: nil means the engine can be trusted; leftovers are reported
- performance tooling: no adapter outlives its lab, schemas are dropped, a
  reported success has its data, every command ends

## 2. Modules

| module | models | composes |
| --- | --- | --- |
| `QueueTx` | `core.Work` and the Postgres behaviour it relies on | |
| `JobServer` | the queue's `POST /operation`, pool, limit and tallies | EXTENDS `QueueTx` |
| `JobRound` | the queue runner's rounds and panics | EXTENDS `QueueTx` |
| `JobCounter` | `core.Apply` under its adapter | INSTANCE `ExactlyOnce` |
| `ExactlyOnce` | the abstract counter | |
| `CacheAside` | `core.ReadProfile` under its adapter, `/stats` | |
| `Pipelining` | both increments and `Sum` under their adapter, `/stats` | |
| `SqliteWal` | `OpenSnapshot` and `WriteEvent` under their adapter, `/stats` | |
| `Engine` | the Docker engine as seen by the launcher (external) | |
| `Launcher` | `Create`, `Start`, `Run`, `Stop`, `Wait`, `Remove`, `containerGone` | EXTENDS `Engine` |
| `ContainerExec` | `Container.Exec` on the launcher's containers | EXTENDS `Launcher` |
| `Sweep` | `ListLesson` and `Sweep` | |
| `ContainerSpec` | `Translate`, `CheckConfig`, `IsRestricted`, `CheckObserved` | |
| `FixtureImage` | `validate`, the generated Dockerfile and its context | |
| `Probeout` | the probe's line format: `String`, `Format`, `Parse`, `Find` | |
| `PeerIdentity` | `VerifyPeerIdentity`, fixture build stream, deferred removals | |
| `ProbeRun` | `run()` of the probe: marker, reporter, exit status | |
| `ProbeChecks` | the survey and its checks, `initdir`, `fork`, `alloc`, `sleep` | EXTENDS `ProbeRun` |
| `Forwarder` | `forward` between its clients and `http-count` | EXTENDS `ProbeRun` |
| `PeerEcho` | `peer-echo` and the `dial` commands that talk to it | EXTENDS `ProbeRun` |
| `PerfServer` | one adapter process of `internal/lab/perf` | |
| `LabRunner` | `run.ts` over an adapter | EXTENDS `PerfServer` |
| `MCLessons` | one of the four adapters below at a time | EXTENDS `JobCounter`, INSTANCE `CacheAside`, `Pipelining`, `SqliteWal` |
| `MCProbe` | the fixture binary with all its commands | EXTENDS `ProbeChecks`, `Forwarder`, `PeerEcho` |
| `MCContainerSpec` | the harness's pure parts | EXTENDS `ContainerSpec`, `FixtureImage`, `Probeout` |
| other `MC*` | the instances TLC checks | |
| `JobServerProofs`, `JobRoundProofs`, `LauncherProofs`, `SweepProofs`, `LabRunnerProofs`, `ContainerSpecProofs` | inductive invariants and theorems (section 4) | EXTEND `JobServer`, `JobRound`, `ContainerExec`, `Sweep`, `LabRunner`, `ContainerSpec` |
| `LessonsProofs`, `ProbeProofs` | the same for the composed lessons and the fixture binary | EXTEND `MCLessons`, `MCProbe` |

Definitions whose name continues the name of another one and whose comment
starts with "Mutant of" are faulty variants of the code (a missing lock, a
dropped guard, a swapped order). They are not part of any specification; each
shows that a property notices that fault.

### Queue: `QueueTx`, `JobServer`, `JobRound`

A call of `Work` has two halves: `pc` is the Go statement it is in and `srv`
its Postgres session. Usually they move together. When the caller's context
ends (`ContextEnds`) the Go side returns an error at once and the session stays
with its locks, and possibly its COMMIT, until `Commits` or `SessionEnds`.

The claim query is three actions. `ClaimStarts` takes the READ COMMITTED
snapshot. `ScanLocks` visits its smallest id: it waits until the row is free,
locks the latest version and evaluates `status = 'pending'` again; a row that
is no longer pending is dropped and stays locked. `ScanSkips` exists only for
the `skip locked` query. `ScanEnds` answers "no row". `Work` sleeps between
`ClaimReturns` and `Finish`; the sleep is the interleaving itself.

`JobServer` puts requests around it: the limit (429), the insert on a pool
connection (which may commit after its request was answered 503), `Work` on a
connection again, then 200, 409 or 503 with the tallies. `GET /stats` only
reads, so invariants on the state are what it can report. One variant is
modelled, with either query: the two variants have schemas and pools of their
own and share only the limit, which `Refuse` allows to strike at any time.

`JobRound` starts one worker per pending job. Any error panics (`lab.Check`),
which ends the process and abandons every session.

### Counter: `JobCounter`, `ExactlyOnce`

`InsertDecides` is the unique index: an insert of an event waits for another
session's uncommitted insert of it and becomes a duplicate only if that one
commits. `UpdateApplies` waits for the counter row and adds to its latest
version. The refinement maps `seen` and the idempotent total to the abstract
counter. The tally after a successful `Apply` has two steps, `CountDelivery`
(an atomic) and `NoteEvent` (under the mutex).

### The other lessons: `CacheAside`, `Pipelining`, `SqliteWal`

The adapters share a shape: a request runs the core operation and then adds to
atomic counters, while `/stats` reads the store and loads the counters one
after the other. Each module keeps `window`, the requests in flight while
`/stats` was at it; the reports are compared with the store up to that window.

`CacheAside` has no clock but the count of returned reads: the handler compares
times only as a start with an end. `BookMiss` is what runs under the profile's
mutex; handlers reach it in any order. A key may expire at any time.

In `Pipelining` Valkey applies what was sent to it key by key, also after the
batch has failed, and go-redis sends a command or a whole flush again when it
got no reply (`Resend`).

`SqliteWal` has SQLite's locks as external: one writer; in DELETE mode a commit
waits for the held reader and, PENDING, keeps new readers out, which is what a
cold connection's set-up would run into. `Warm` and `OpenSnapshot` are the two
preparations of `open` the lesson depends on.

### Harness: `Engine`, `Launcher`, `ContainerExec`, `Sweep`, `ContainerSpec`, `PeerIdentity`

In `Engine` a request is in flight until the engine applies or drops it. A
client's call fails independently of that, which is how a lost reply and a
cancelled request that takes effect later come about. `Launcher` splits each
function at its engine calls. `Remove` runs on a fresh context and asks
`containerGone` when the engine refuses.

`ContainerExec` runs on the same engine: an `Exec` starts on a handle `Start`
returned, and every step of the launcher, of the engine and of other clients
happens under it. `KillExecs` ends the processes of a container with it. Three
moments are apart: the process exits, the stream ends, the engine records the
exit. `Sweep` removes what it listed while other runs
create and remove objects; objects in use are refused by the engine.

`ContainerSpec` abstracts names, paths, capabilities and profiles to the
classes the code's patterns distinguish. A spec is a preset with knobs flipped
one at a time; the engine records the request with its documented fill-ins
(`Faithful`) or with one field wrong (`Unfaithful`).

`FixtureImage` works on paths as sequences of bytes, because both `path.Clean`
and the sort that puts parents first do; the alphabet has one letter of each
kind the rules tell apart. `COPY --chown` is external: missing parents are
root's, and an existing destination keeps its owner. `Probeout` works on texts
of pieces, the finest the parser tells apart, with the status words as pieces.

`PeerIdentity` takes the identities a lesson may ask for and the largest id as
constants, and has the engine's real treatment of user ids (`remapped`) and of
socket groups (`gate`) as hidden variables, and the launcher by its outcomes.
The deferred removals are a stack that every early return unwinds.

### Fixture binary: `ProbeRun`, `ProbeChecks`, `Forwarder`, `PeerEcho`

A process runs one command in the frame of `run()`: refused without the marker,
a usage error, or called; its exit status follows from the lines it denied. The
kernel allows or refuses each check. A line carries the user the process was at
the time, so that a check that changes the process shows in later lines. The
chmod of `initdir` keeps the setgid bit only for a process in the directory's
group (`dir.member`; `SocketVolume` runs it in that group for this reason) and
reports OK either way.

A connection of the forwarder is four streams, from the client to the server
and back, each with data and an end; every one of the two copies per connection
moves or ends by itself. `DeadlinePasses` is `forwardTimeout`, set on both
sockets. `peer-echo` serves one connection at a time; the dialers write, read
and give up at any moment.

### Performance tooling: `PerfServer`, `LabRunner`

`PerfServer` is one adapter: it makes each schema, defers its cleanup, then
listens, writes the ready file in two steps (create, write, as `os.WriteFile`
does) and serves until a signal. `NotifyContext` has the signals only until
`server.Serve` returns, which it does when the shutdown begins (`ServeEnds`):
a signal before it, in the drain (`draining`) or in the deferred cleanups
(`cleanup`) ends the process where it is. A failed call panics, in `serving`
too. `leaving` says why main unwinds and `how` how the process ended.

`LabRunner` is `run.ts` with its poll loop, fetches, k6, `finally` block and
Ctrl-C, which reaches the whole process group and may be typed again. A `run.ts`
that dies of it leaves the adapter a broken pipe (`BrokenPipe`).

## 3. Runs

Each run is named after the question it asks. "all paths" means failures are
enabled in every step where the code handles them.

| run | instance | shows |
| --- | --- | --- |
| `queue` | 3 requests, 3 ids, pool of 2, limit 3, both queries | 6 invariants and `FinishedByHolder`: exclusivity, tallies against the table, lock order, no orphan lock, earned 409 |
| `round` | 3 workers, 2 rounds | no worker finds the queue empty, a round is a permutation, the run ends |
| `lessons` | counter: 3 deliveries, 2 events, pool of 2, both strategies; cache-aside: 3 reads, 2 profiles, 1 expiry; pipelining: 3 batches of 2 keys, 1 resend; sqlite: 3 writes, pool of 2, both modes | what clients were told is in the tables, refinement of `ExactlyOnce`; redundant misses are exact; the held reader keeps its view; contention never fails a write; `/stats` is accounted for |
| `launcher` | 1 call, either `Run` or `Start` with `Remove`, with up to 2 `Exec`s on its container, all paths | known containers are removed or reported, nil is a real exit, an exec's exit code is a recorded one, `Run` and `Exec` return |
| `sweep` | 3 containers, 2 volumes, 1 network, two lessons, every initial set | only ours, nil means what was listed is gone, undisturbed sweep is clean |
| `spec` | presets with up to 2 knobs flipped; up to 2 directories of up to 4 bytes; texts of up to 5 pieces | `Translate` is stricter than `CheckConfig`; a handed-out container is as asked; a faithful engine raises no alarm but for an empty list returned as nil; owners are as listed; `Format` inverts `Parse` |
| `probe` | all modelled commands; 2 clients of the forwarder and of `peer-echo`, which serves 2; 2 children of `fork` | reports are true; connections are whole; a dialer gets its reply; the forwarder exits on SIGTERM |
| `peer` | every engine behaviour and identity collision, all paths | nil means trusted; leftovers are reported; undisturbed, the verdict is exact |
| `lab` | an adapter with 2 schemas; lab, run and serve; Ctrl-C up to twice | no adapter outlives its lab, schemas survive only where the adapter could not drop them, success has its data, every command ends |
| `launcher_doc` | as `launcher` | refutes "always removed on the way out" (`internal/lab/docker/run.go:92`) |
| `lab_ready` | as `lab` | refutes "fresh isolated fixtures" (`README.md:137`) for an empty ready file |
| `peer_image` | as `peer` | refutes "removes everything it created" (`internal/lab/docker/topology.go:176`) |

**Why the bounds are enough.** The queue's hazards need two claims for one row
and a third request that changes rows between a snapshot and its use; a pool
of two then makes connections scarce, and three ids give every request a job,
so that nobody is short of work by the bound alone. Two rounds show what a
round leaves behind for the next. Three deliveries of two events are two
duplicates and a bystander. One launcher call is enough because calls share
nothing in the engine but the engine; interference by others is `SweptAway`.
Two execs share one container. Three reads of one profile are a stampede with a
latecomer, and one expiry makes a second one; two keys are the least for a
batch to be applied in part. Two directories are a parent and its child, in
either order, and four bytes hold a child, `..`, the binary's path and a
whiteout; five pieces hold a whole line and its newline. Two clients meet at the
forwarder's shutdown and in the echo's backlog. The sweep's instance has a used volume, a used
network, an unused container and another lesson's pair. Two flips reach every
pair of fields that a check of the spec relates.
`SYMMETRY` is used only in runs without liveness properties.

**Bounds in the models:** `MaxJobs` (ids of the table), `RunLimit` (the code's
own limit), `MaxRounds`, `MaxCtrlC` (one stops the adapter, a second can end it
while it leaves), `MaxFlips`, `MaxExpiries`, `MaxResends`, `BatchSize`,
`MaxExecs`, `MaxFork` (1024 in the code), `Count` (the flag of `peer-echo`),
`MaxPath`, `MaxDirs`, `MaxText`, `MaxID` (1<<31 - 1 in the code). Everything
else is finite by itself.

### Fairness

- `round`: weak fairness of goroutines and of Postgres noticing dead sessions;
  strong fairness of a session's next step, because Postgres grants a row lock
  to its waiters in turn. Errors are never forced.
- `launcher`: every engine call returns with a reply or an error, the engine
  settles what it was sent, the one-shot command of `Run` exits, and a reader
  sees the end of its stream. A started container or the process of an exec
  never has to exit and no context has to end, which is the point of
  `ExecReturns`. Cancellation and outside removal are not fair.
- `probe`: the forwarder's goroutines run, `DialTimeout` returns and deadlines
  pass. Neither clients nor the server have to do anything.
- `lab`: `run.ts` takes its steps; fetches and the poll loop have timeouts in
  the code, and the finally block kills after 30 s, so a lab's adapter owes no
  step. It does where nobody will kill it, under `serve` and after an
  interrupted lab; there its shutdown and its cleanups have timeouts of their
  own. Nobody has to type Ctrl-C, except to end `serve`, which has no other end.

The other runs check safety only and need none.

### What the violations show

1. `launcher_doc`: when `ContainerCreate`'s reply is lost, or the context ends
   with the request at the engine, `Create` has no ID. The container is created
   and stays until a `Sweep`. `KnownContainerRemoved` is what does hold.
2. `lab_ready`: the lab reads `READY_FILE` between its creation and its write,
   gets the empty string, and falls back to `http://127.0.0.1:8080`. With a
   served adapter there, the lab measures that one.
3. `peer_image`: `ImageRemove` and `ImageInspect` share a context; if both fail
   the removal reads as success. `containerGone` decides the same question the
   other way.

Observations met on the way, without a run of their own: the comment in
`lessons/go/background-job-queue/perf/main.go:84` that inserted and claimed
jobs may differ "but each still ends done" does not hold for a request answered
409 under `skip locked` (its own job may stay pending when the row's holder
rolls back; `JobsAccounted` is what holds); `perf/README.md:69` of the same
lesson says that a server's schemas are dropped on shutdown, but a signal before
`NotifyContext` leaves them, and so does a second one after the shutdown has
begun: the SIGTERM of `run.ts` after a Ctrl-C during k6 can be that one
(`UnwindingDropsSchemas` lists every case); Ctrl-C during k6 stops the
adapter as well, so `/stats` fails and the command reports failure; cache-aside's
`hits + misses = served` and pipelining's `actual_sum = expected_sum` hold
between requests only, since a handler adds to its counters in several steps
and `/stats` loads them one by one (`StatsAreAccounted` bounds the
difference); a batch that go-redis sent again makes the stored sum exceed the
expected one with no failed batch; in DELETE mode `/stats` itself can be refused
by a pending writer and answer 503; and `image.go:77` says the directories are
"created in this order" while `sortedDirs` sorts them, as the comment at
`image.go:54` says.

## 4. Proofs

Everything here is proved for all values of the constants: any number of
requests, jobs, workers, calls, objects, clients, schemas or directories, and
paths and texts of any length. The assumptions are
the ones the modules state (`QueueAssumption`, `RoundAssumption`,
`CounterAssumption`, `BatchAssumption`, `SweepAssumption`, `SchemasAssumption`,
`UserAssumption`); TLC evaluates each in a run. Every inductive invariant was checked with TLC on
the instance of its run before it was proved. A step lemma has one step per
action; the parts over variables the action leaves alone are taken together and
every other part has a step that cites the parts it rests on.

| module | theorem | statement |
| --- | --- | --- |
| `JobServerProofs` | `TypeCorrect` | `Spec => []TypeOK` |
| | `JobsAreExclusive` | `Spec => []ExclusiveJobs` |
| | `TallyIsDistinct` | `Spec => []ClaimsDistinct` |
| | `LocksAreReturned` | `Spec => []NoOrphanLock` |
| | `LocksAreOrdered` | `Spec => []OrderedLocking` |
| | `ConflictIsEarned` | `Spec => []EmptyOnlyAfterOwnJobDone` |
| | `OnlyTheHolderFinishes` | `Spec => FinishedByHolder` |
| | `TableIsAccounted` | `Spec => []JobsAccounted` |
| `JobRoundProofs` | `EveryWorkerGetsAJob` | `Spec => []NoWorkerFindsQueueEmpty` |
| | `RoundsAreExact` | `Spec => []RoundIsExact` |
| `LessonsProofs` | `CounterTypeCorrect` | `Spec => []TypeOK` |
| | `ConfirmedStays`, `ServedConfirmedStays` | `Spec => []ConfirmedIsCounted`, `LessonsSpec => []CounterConfirmedIsCounted` |
| | `CountsExactlyOnce`, `ServedCountsExactlyOnce` | `Spec => ImplementsExactlyOnce`, `LessonsSpec => ImplementsExactlyOnce` |
| | `ReaderIsUndisturbed` | `LessonsSpec => []ReaderKeepsItsView` |
| | `OnlyTheAbandonedFail` | `LessonsSpec => []ContentionNeverFails` |
| | `RedundantStaysExact` | `LessonsSpec => []RedundantIsExact` |
| | `StatsStayAccounted` | `LessonsSpec => []StatsAreAccounted` |
| | `RowsStayAccounted` | the sqlite part of `StatsAreAccounted` |
| `LauncherProofs` | `TypeCorrect` | `Spec => []TypeOK` |
| | `ExecLeavesLauncher` | `EngineSpec => Spec` |
| | `NoKnownContainerStays` | `EngineSpec => []KnownContainerRemoved` |
| | `SuccessIsReal` | `EngineSpec => []SuccessIsARealExit` |
| | `ExitCodeIsRecorded` | `EngineSpec => []OkMeansRecordedExit` |
| `SweepProofs` | `TypeCorrect` | `Spec => []TypeOK` |
| | `NilIsTrue` | `Spec => []NilMeansListedGone` |
| | `OneSweepIsEnough` | `Spec => []UndisturbedSweepIsClean` |
| | `OthersAreSafe` | `Spec => SweepTouchesOnlyOurs` |
| `LabRunnerProofs` | `TypeCorrect` | `Spec => []TypeOK` |
| | `NoServerIsLeft` | `Spec => []ServerNeverOutlivesLab` |
| | `SchemasAreDropped` | `Spec => []UnwindingDropsSchemas` |
| | `StatusZeroIsTrue` | `Spec => []OkMeansCaptured` |
| `ContainerSpecProofs` | `TranslateIsStricter` | `Translates(s) => CheckConfig(Request(s))` for every `s` |
| | `TranslationIsAdmissible` | `Spec => []TranslatedIsAdmissible` |
| | `KeptContainersAreAsIntended` | `Spec => []KeptIsAsIntended` |
| | `NoFalseAlarm` | `Spec => []FaithfulIsKept` |
| | `HarnessIsSpec` | `HarnessSpec => Spec` |
| | `DirsOrderDoesNotMatter` | `HarnessSpec => []OwnersAreAsListed` |
| | `OutputComesBack` | `HarnessSpec => []FormatInvertsParse` |
| `ProbeProofs` | `RepliesAreRead` | `ProbeSpec => []DialerGetsItsReply` |
| | `NothingIsCutShort` | `ProbeSpec => []ConnectionsAreWhole` |
| | `ReportsAreTrue` | `ProbeSpec => []ReportIsTrue` |
| | `NilIsTrusted` | `Spec => []NilMeansTrusted` |
| | `LeftoversAreReported` | `Spec => []LeftoversReported` |
| | `UndisturbedVerdict` | `Spec => []UndisturbedVerdictIsExact` |

### The queue's adapter: `JobServerProofs`

All but the last follow from `Invariant == Spec => []IInv`. None of the
properties is inductive alone, and `IInv` adds what ties the three views of a
job together:

- `ClaimIsHeld`: a session with a claim holds the lock and the row is pending.
  With it a second claim of the row is impossible: it would need the lock.
- `CommittedIsDone`: a committed session's row is done, so the re-check in
  `ScanLocks` refuses it. These two are all of exclusivity.
- `WonIsCommitted` and `TallyIsExact`: an answered request's session committed,
  and every id noted belongs to an answered request. With exclusivity, the next
  id is new, so `claims` and `Cardinality(jobs)` grow together.
- `InsertIsFresh`: an insert under way owns an id that is in no table, so its
  commit cannot overwrite a job's status.
- `OwnRow` and `BlockingScan`: a waiting scan still has its own job ahead or
  somebody finished it. This is the argument for the 409.
- `NoSessionYet`: a request between its insert and `Work` has no session.
- `LockHasSession` and `SessionHasCall`: a lock has a session and a session with
  a claim under way has its call inside `Work`, or abandoned by it. Together
  they are `NoOrphanLock`; the first is also what `OrderedLocking` starts from.

`TableIsAccounted` needs a second invariant, `Ledger`, over the first: each
counter is the number of requests that ended that way, each id was dealt to one
request, each row is some request's insert, each done row has a committed
session. `enqueued` is only determined while nothing has failed, since a failed
request may have been counted or not; that is also all the property says of it.
At the end of a run the three bounds are then counted: `DoneIsBounded` maps the
done jobs that are not in the tally to the failed requests, `PendingIsBounded`
maps all rows to the requests that ended and takes the claims away, and
`PendingIsExact` is a bijection between counted requests and rows. The set of
requests need not be finite; those that have ended are.

### The queue's runner: `JobRoundProofs`

Whatever a scan has passed by, done or locked, is owned by another worker
(`ScanPassesOwned`), a worker that is not done with its scan owns nothing, and
ownership is exclusive. A scan that used up its snapshot would leave as many
owned jobs as there are workers without itself: one too few
(`JoblessLeavesJob`). The invariant speaks about rounds without a panic.

### The lessons: `LessonsProofs`

The counter: `Protocol` says which row of `job_seen` and which version of the
total a session holds, `TotalsAreExact` that the idempotent total is the number
of rows of `job_seen` and the naive one the number of commits, `TallyIsExact`
that the adapter's counters count its answers. `StepImplements`
then shows every step to be a count of a new event or a stutter of
`ExactlyOnce`. The results are proved of the adapter and carried over to the
served lessons, whose other adapters leave its tables alone.

sqlite-wal-lab: `PoolStaysWarm` rules out the cold connections that could fail
under contention, `SnapshotIsHeld` keeps the view and DELETE mode's commits
out, `OutcomeFollowsInsert` and `CountersAreExact` tie counters to writes. For a
report that is read while writes go on, `ReportIsClose` compares what has been
read with the writes outside the window, whose outcome cannot change any more.

cache-aside: whether a miss is redundant is decided from the times the handler
took, and the number of misses that are not is bounded by what happened to the
keys. `CacheInv` ties the two together with a history the program does not
keep. `FillsAreSeparated` numbers the expiries and gives each miss the last one
of its profile before it found the key missing: a miss that started after
another one of its profile had ended has a later number, since that one filled
the key. `FreshDoNotOverlap` says that the booked misses not called redundant do
not overlap, and that every booked profile has one. Not overlapping, the fresh
misses of a profile have different numbers, and all but one of them are
expiries: that is the upper bound. The history is bound by existential
quantifiers, so the model has no variable for it.

pipelining-work: `KeysAreCounted` bounds each key by itself: at least the
batches that are past it, at most those and the resends. `SumIsBounded` adds
the bounds up over the keys, and `PipeReportIsClose` is the window argument
again, for a sum that was read before the counter.

### The harness: `LauncherProofs`, `SweepProofs`, `ContainerSpecProofs`

The launcher's invariant is about each call by itself: `KnownSinceReply` and
`KnownWasCreated` (an ID is known exactly from the reply on, and a removed
container does not come back), `ExitsHaveStarts` and `RunHasSeenExit` (an exit
that is delivered is one of a started container, and a Run without an error has
read it). `ExecLeavesLauncher` is a refinement: a step of `Exec` is a step of
the engine or a stutter of the launcher.

`SweepProofs` rests on names never being used twice (`NamesAreFresh`): an object
that was listed and is gone stays gone, so a removal that succeeded and a failed
one that the second listing does not show are both final. `UndisturbedRemoves`
follows one sweep that nothing interferes with.

`ContainerSpecProofs` covers every combination of the knob values of `Knobs`,
not only those within `MaxFlips` of a preset. `KnobsOk` is the invariant of the
spec; `SentIsChecked`, `RecordedByEngine` and `VerdictIsCheckObserved` say how
each stage came about. The work is in the lemmas about `CheckObserved`:
`normalizeCaps` neither empties a list nor fills one, so a drop list that came
back nil is noticed, the empty one included, which is the one false alarm
(`NoFalseAlarm`). The proofs are about `Spec`, and `HarnessIsSpec`
carries them over to `HarnessSpec`, which the run checks.

The image: `Below` is a strict total order, so counting the paths below each
one ranks them and the sorted list exists (`sortedDirs` is a `CHOOSE`). What a
fold of `COPY` lines leaves has a closed form, `FilesOf`: a path has its
listed owner if its own line comes before those of the paths under it, and is
root's otherwise. A parent is a proper prefix of its children and sorts before
them.

The output: splitting a text at its newlines and joining the lines undo each
other (`SplitThenJoin`, piece by piece), and every line keeps its text, parsed or
malformed (`LineIsKept`). A line that is written by `String` has one separator
after its name and no newline, so it is parsed back to itself, and it is found
behind any text unless that text has a line of its name.

### The performance tooling: `LabRunnerProofs`

The adapter's part counts deferred cleanups against schemas
(`CleanupsMatchSchemas`, `UnwindingCounts`) and says why and how it may have
ended (`LeavingFollowsPlan`: a drain needs a signal, and a signal that ends an
adapter that was not leaving came before `READY_FILE`). The part of `run.ts`
says what it may conclude from where it is (`CommandFollowsPlan`,
`StatusIsEarned`). They meet in `SeenExitIsReal`, since an exit is final, in
`SignalsComeLast`, since a lab without Ctrl-C sends its only signal at the end,
and in `CapturedWasServing`: that signal finds the adapter serving, or leaving
because of a panic. `MaxCtrlC` bounds the model only; nothing is assumed of it.

### The fixture binary: `ProbeProofs`

`EchoInv`: peer-echo answers a client that has written its line or was given up.
`ForwardInv`: a copy that ended by itself has passed everything on, or its
receiver was gone, and the WaitGroup counts the goroutines, so none is left when
`Wait` returns. `ReportInv`: setuid is the last check of the survey, so every
line is about the user the process was started as; the counter of denied lines
is zero exactly when no line is denied. Of the setgid bit an OK of `initdir` says
something only for a process in the directory's group.

The same module proves `VerifyPeerIdentity`, which runs `peer-echo` and the
dialers in containers, for any set of identities and any
largest id. `RemovalsFollowCalls` gives the deferred removals of every call, so
that `HeldIsDeferred` can say that what exists is still to be removed or named
in the error; `ErrorsFollowCalls` that a nil comes only from the check.
`DialsFollowRoles` says what each dial may show: a failure prints neither an
assigned uid nor a refused permission, the two things the check asks for.
`UndisturbedInOrder` follows the calls while nothing has failed.

### Only model-checked

Every safety invariant and action property of a passing run has a theorem. The
liveness properties stay with TLC, since fairness and ENABLED are outside the
prover: `RunnerFinishes`, `RunReturns`, `ExecReturns`, `LabEnds`,
`ForwarderExits`.

Two restrictions shaped the models and proofs. The library's induction theorems
take an operator that the provers cannot instantiate; where a proof needs
induction (the sum over the keys, the folds, the texts), it is done over sets:
a set of numbers that has 0 and every successor has no least number missing, by
the well-foundedness of the naturals (`LeastElement`, `NatSetInduction`,
`SeqSetInduction`). And sorting by the community modules' operators is opaque to
the prover, so `sortedDirs` is the list with the same elements in increasing
order, and `Split` is a fold.

## 5. Not modelled

- the lessons' sequential runners, but for the queue's: they call the same core
  operation in a loop and add no state.
- of the probe: `chown`, `chmod`, `unlink`, `replace`, `stat`, `http-get` and
  `noop`, one system call or request each in the frame that is modelled; the
  counts of `http-count`.
- of the egress fixture: `FixtureNetwork`, one create call, and the two checks,
  an `Exec` and a `Find`, both modelled where they are.
- go build, tar headers and the bytes of the build context.
- connections, environment variables, CSV output, SQL reports and k6 scripts:
  pure I/O; the accounting the scripts assert is stated as invariants.
- `analyze` as a command of its own: it keeps no state.
- time: timeouts are steps that may happen, not durations. Two images under one
  fixed tag, and an engine that is restarted, are not modelled.

## 6. Plan

Done: `QueueTx`, `JobServer`, `JobRound` first, since the exactly-once claim is
the core of the repository; then the launcher, sweep, the counter with its
refinement, the performance tooling, the spec checks and the peer-identity
verification; the proofs about the queue; then the three other lessons, `Exec`
on the launcher's engine, the fixture binary with its forwarder, the image
description and the output format.

Then the proofs: the queue's accounting and rounds, the counter's refinement,
the three other lessons, the launcher with `Exec`, sweep, the performance
tooling, the spec checks, the fixture binary, and last the verification of peer
identities, the image and the output format.

What is left is of the model: `Sweep` on the launcher's engine, where
`SweptAway` stands for it now.
