----------------------------- MODULE MCLessons -----------------------------
(***************************************************************************)
(* Small instances of four lessons' adapters for TLC: three requests each. *)
(* run.ts serves one lesson at a time, so a behaviour belongs to one of    *)
(* them.  Adapters share the variables they have in common (pc, failed,    *)
(* statsPc, ...); a variable of another lesson is off.                     *)
(***************************************************************************)
EXTENDS JobCounter, TLC

CONSTANTS MaxExpiries, BatchSize, MaxResends

\* perf.Int reads BATCH_SIZE as a number from 1 to 1000.
ASSUME BatchAssumption == BatchSize \in Nat

VARIABLES
    lesson,                     \* the lesson being served
    statsPc, report, window,    \* GET /stats of the three adapters below
    cached, expiries, of, source, clock, start, end, lastMissEnd,
    served, hits, misses, redundant,                    \* cache-aside
    variant, val, sent, next, resends, batches,         \* pipelining-work
    rows, view, writer, pending, warmIdle, unopened,
    cold, outcome, cancelled, ok, locked                \* sqlite-wal-lab

CacheAside == INSTANCE CacheAside WITH Reads <- Deliveries, Profiles <- Events
Pipelining == INSTANCE Pipelining WITH Batches <- Deliveries
SqliteWal == INSTANCE SqliteWal WITH Writes <- Deliveries

counterOnly == <<ev, seen, total, inserting, rowLock, srv, claimed, got, deliveries, events>>
statsVars == <<statsPc, report, window>>
cacheOnly == <<cached, expiries, of, source, clock, start, end, lastMissEnd,
               served, hits, misses, redundant>>
pipelineOnly == <<variant, val, sent, next, resends, batches>>
sqliteOnly == <<rows, view, writer, pending, warmIdle, unopened, cold, outcome,
                cancelled, ok, locked>>

off == "off"

\* The counter's tables exist, empty, whichever lesson is served.
CounterOff ==
    /\ seen = {} /\ total = [m \in Modes |-> 0]
    /\ ev = off /\ inserting = off /\ rowLock = off /\ srv = off /\ claimed = off
    /\ got = off /\ deliveries = off /\ events = off
StatsOff == statsPc = off /\ report = off /\ window = off
CacheOff ==
    /\ cached = off /\ expiries = off /\ of = off /\ source = off /\ clock = off
    /\ start = off /\ end = off /\ lastMissEnd = off /\ served = off /\ hits = off
    /\ misses = off /\ redundant = off
PipelineOff ==
    /\ variant = off /\ val = off /\ sent = off /\ next = off /\ resends = off
    /\ batches = off
SqliteOff ==
    /\ rows = off /\ view = off /\ writer = off /\ pending = off /\ warmIdle = off
    /\ unopened = off /\ cold = off /\ outcome = off /\ cancelled = off
    /\ ok = off /\ locked = off

LessonsInit ==
    \/ lesson = "counter" /\ Init /\ StatsOff /\ CacheOff /\ PipelineOff /\ SqliteOff
    \/ lesson = "cache" /\ CacheAside!Init /\ mode = off /\ CounterOff /\ PipelineOff /\ SqliteOff
    \/ lesson = "pipeline" /\ Pipelining!Init /\ mode = off /\ CounterOff /\ CacheOff /\ SqliteOff
    \/ lesson = "sqlite" /\ SqliteWal!Init /\ CounterOff /\ CacheOff /\ PipelineOff

ServeCounter ==
    lesson = "counter" /\ Next /\ UNCHANGED <<lesson, statsVars, cacheOnly, pipelineOnly, sqliteOnly>>
ServeCacheAside ==
    lesson = "cache" /\ CacheAside!Next /\ UNCHANGED <<lesson, mode, counterOnly, pipelineOnly, sqliteOnly>>
ServePipelining ==
    lesson = "pipeline" /\ Pipelining!Next /\ UNCHANGED <<lesson, mode, counterOnly, cacheOnly, sqliteOnly>>
ServeSqliteWal ==
    lesson = "sqlite" /\ SqliteWal!Next /\ UNCHANGED <<lesson, counterOnly, cacheOnly, pipelineOnly>>

LessonsNext == ServeCounter \/ ServeCacheAside \/ ServePipelining \/ ServeSqliteWal

LessonsSpec ==
    /\ LessonsInit
    /\ [][LessonsNext]_<<vars, lesson, statsVars, cacheOnly, pipelineOnly, sqliteOnly>>

Symmetry == Permutations(Deliveries) \cup Permutations(Events)

-----------------------------------------------------------------------------
(* The properties, each of the lesson it belongs to *)

\* JobCounter: what clients were told is in the tables.
CounterConfirmedIsCounted == lesson = "counter" => ConfirmedIsCounted

\* CacheAside: one miss per profile and expiry is not redundant.
RedundantIsExact == lesson = "cache" => CacheAside!RedundantIsExact

\* SqliteWal: the held reader keeps its view and stops DELETE writes.
ReaderKeepsItsView == lesson = "sqlite" => SqliteWal!ReaderKeepsItsView

\* SqliteWal: contention never fails a write.
ContentionNeverFails == lesson = "sqlite" => SqliteWal!ContentionNeverFails

\* Every adapter loads the parts of a /stats report one after the other while
\* requests go on.  Still what was confirmed is stored, and the report is off
\* by no more than the requests in flight meanwhile, the failed and the resent.
StatsAreAccounted ==
    /\ lesson = "cache" => CacheAside!ReportWithinWindow
    /\ lesson = "pipeline" => Pipelining!SumIsAccounted
    /\ lesson = "sqlite" => SqliteWal!RowsAreAccounted
=============================================================================
