----------------------------- MODULE CacheAside -----------------------------
(***************************************************************************)
(* The cache-aside lesson under its HTTP adapter: concurrent calls of      *)
(* core.ReadProfile (cache, then Postgres, then fill), the handler's       *)
(* counters and its bookkeeping of redundant misses, and one GET /stats    *)
(* that loads the counters one after the other.                            *)
(*                                                                         *)
(* Stored names never change, so the cache is the set of profiles with a   *)
(* live key.  The clock counts returned reads: the handler compares times  *)
(* only as a start against an end or an end against an end.                *)
(***************************************************************************)
EXTENDS Integers, FiniteSets

CONSTANTS Reads,        \* requests for GET /operation
          Profiles,     \* seeded profiles
          MaxExpiries   \* bound: keys that reach their TTL

VARIABLES
    cached,               \* profiles whose key is in Valkey
    expiries,             \* keys expired so far
    of,                   \* of[r]: the profile request r asks for
    pc,                   \* pc[r]: where its handler is
    source,               \* source[r]: "cache" or "postgres" once it is known
    clock, start, end,    \* start[r] and end[r] of its ReadProfile
    lastMissEnd,          \* lastMissEnd[p], 0 before the first miss
    served, hits, misses, redundant, failed,   \* the handler's counters
    statsPc,              \* the counter GET /stats loads next
    report,               \* what it has loaded
    window                \* requests in flight while it was loading

counters == <<served, hits, misses, redundant, failed>>
times == <<clock, start, end, lastMissEnd>>
stats == <<statsPc, report, window>>
store == <<cached, expiries>>
vars == <<store, of, pc, source, times, counters, stats>>

\* The adapter has warmed its pool and deleted the keys: the cache is cold.
Init ==
    /\ cached = {} /\ expiries = 0
    /\ of \in [Reads -> Profiles]
    /\ pc = [r \in Reads |-> "new"] /\ source = [r \in Reads |-> "none"]
    /\ clock = 0 /\ start = [r \in Reads |-> 0] /\ end = [r \in Reads |-> 0]
    /\ lastMissEnd = [p \in Profiles |-> 0]
    /\ served = 0 /\ hits = 0 /\ misses = 0 /\ redundant = 0 /\ failed = 0
    /\ statsPc = "new" /\ window = {}
    /\ report = [served |-> 0, hits |-> 0, misses |-> 0, redundant |-> 0]

Answered == {"ok", "failed", "refused"}
InFlight == {r \in Reads : pc[r] \notin {"new"} \cup Answered}
Loading == statsPc \notin {"new", "done", "failed"}

Goto(r, from, to) == pc[r] = from /\ pc' = [pc EXCEPT ![r] = to]

-----------------------------------------------------------------------------
(* The handler and ReadProfile *)

\* The id is not 1..count: 400.
Refuse(r) ==
    /\ Goto(r, "new", "refused")
    /\ UNCHANGED <<store, of, source, times, counters, stats>>

Start(r) ==
    /\ Goto(r, "new", "get")
    /\ start' = [start EXCEPT ![r] = clock]
    /\ window' = IF Loading THEN window \cup {r} ELSE window
    /\ UNCHANGED <<store, of, source, clock, end, lastMissEnd, counters, statsPc, report>>

\* ReadProfile returns src: elapsed is taken.
Returns(r, src) ==
    /\ source' = [source EXCEPT ![r] = src]
    /\ clock' = clock + 1 /\ end' = [end EXCEPT ![r] = clock + 1]
    /\ UNCHANGED <<start, lastMissEnd>>

GetHits(r) ==
    /\ of[r] \in cached
    /\ Goto(r, "get", "read")
    /\ Returns(r, "cache")
    /\ UNCHANGED <<store, of, counters, stats>>

\* redis.Nil: the read falls through to Postgres.
GetMisses(r) ==
    /\ of[r] \notin cached
    /\ Goto(r, "get", "query")
    /\ UNCHANGED <<store, of, source, times, counters, stats>>

QueryReturns(r) ==
    /\ Goto(r, "query", "set")
    /\ UNCHANGED <<store, of, source, times, counters, stats>>

SetReturns(r) ==
    /\ Goto(r, "set", "read")
    /\ cached' = cached \cup {of[r]}
    /\ Returns(r, "postgres")
    /\ UNCHANGED <<expiries, of, counters, stats>>

\* Get, the query or Set returns an error: 503.  A Set may have been applied.
ReadFails(r) ==
    /\ \/ (Goto(r, "get", "failed") \/ Goto(r, "query", "failed")) /\ UNCHANGED cached
       \/ Goto(r, "set", "failed") /\ cached' \in {cached, cached \cup {of[r]}}
    /\ failed' = failed + 1
    /\ UNCHANGED <<expiries, of, source, times, served, hits, misses, redundant, stats>>

CountServed(r) ==
    /\ Goto(r, "read", "served")
    /\ served' = served + 1
    /\ UNCHANGED <<store, of, source, times, hits, misses, redundant, failed, stats>>

CountHit(r) ==
    /\ source[r] = "cache"
    /\ Goto(r, "served", "ok")
    /\ hits' = hits + 1
    /\ UNCHANGED <<store, of, source, times, served, misses, redundant, failed, stats>>

CountMiss(r) ==
    /\ source[r] = "postgres"
    /\ Goto(r, "served", "miss")
    /\ misses' = misses + 1
    /\ UNCHANGED <<store, of, source, times, served, hits, redundant, failed, stats>>

\* Mutant of BookMiss: ends are compared, not the start with an end.
BookMissByEnd(r) ==
    /\ Goto(r, "miss", "ok")
    /\ redundant' = redundant + (IF end[r] < lastMissEnd[of[r]] THEN 1 ELSE 0)
    /\ lastMissEnd' = [lastMissEnd EXCEPT ![of[r]] = IF end[r] > @ THEN end[r] ELSE @]
    /\ UNCHANGED <<store, of, source, clock, start, end, served, hits, misses, failed, stats>>

\* Under the profile's mutex: a miss that started before the latest return of
\* a booked miss is redundant.
BookMiss(r) ==
    /\ Goto(r, "miss", "ok")
    /\ redundant' = redundant + (IF start[r] < lastMissEnd[of[r]] THEN 1 ELSE 0)
    /\ lastMissEnd' = [lastMissEnd EXCEPT ![of[r]] = IF end[r] > @ THEN end[r] ELSE @]
    /\ UNCHANGED <<store, of, source, clock, start, end, served, hits, misses, failed, stats>>

\* A key reaches its TTL.
Expire(p) ==
    /\ p \in cached /\ expiries < MaxExpiries
    /\ cached' = cached \ {p}
    /\ expiries' = expiries + 1
    /\ UNCHANGED <<of, pc, source, times, counters, stats>>

-----------------------------------------------------------------------------
(* GET /stats *)

\* The rows and the cached values are read first; either read may fail (503).
StatsStarts ==
    /\ statsPc = "new"
    /\ statsPc' \in {"served", "failed"}
    /\ window' = InFlight
    /\ UNCHANGED <<store, of, pc, source, times, counters, report>>

\* Then each counter is loaded by itself, in the order of the JSON object.  The
\* failed reads, which nothing is compared with, are left out.
StatsLoads ==
    /\ \/ statsPc = "served" /\ statsPc' = "hits" /\ report' = [report EXCEPT !.served = served]
       \/ statsPc = "hits" /\ statsPc' = "misses" /\ report' = [report EXCEPT !.hits = hits]
       \/ statsPc = "misses" /\ statsPc' = "redundant" /\ report' = [report EXCEPT !.misses = misses]
       \/ statsPc = "redundant" /\ statsPc' = "done" /\ report' = [report EXCEPT !.redundant = redundant]
    /\ UNCHANGED <<store, of, pc, source, times, counters, window>>

Idle == InFlight = {} /\ UNCHANGED vars

Next ==
    \/ \E r \in Reads :
        \/ Refuse(r) \/ Start(r) \/ GetHits(r) \/ GetMisses(r) \/ QueryReturns(r)
        \/ SetReturns(r) \/ ReadFails(r) \/ CountServed(r) \/ CountHit(r)
        \/ CountMiss(r) \/ BookMiss(r)
    \/ \E p \in Profiles : Expire(p)
    \/ StatsStarts \/ StatsLoads
    \/ Idle

Spec == Init /\ [][Next]_vars

-----------------------------------------------------------------------------
(* Properties *)

\* "Both found the key missing": of the booked misses of a profile exactly one
\* is not redundant, and one more at most for every key that expired.  The
\* order in which racing handlers reach the mutex does not change the count.
RedundantIsExact ==
    LET booked == {r \in Reads : pc[r] = "ok" /\ source[r] = "postgres"}
        loaded == Cardinality({of[r] : r \in booked})
    IN  Cardinality(booked) - redundant \in loaded..(loaded + expiries)

\* A /stats report is off by no more than the requests that were in flight
\* while it was put together: with none, hits and misses add up to served and
\* no more misses are called redundant than there were.
ReportWithinWindow ==
    statsPc = "done" =>
        /\ report.hits + report.misses - report.served
                \in (-Cardinality(window))..Cardinality(window)
        /\ report.redundant <= report.misses + Cardinality(window)
=============================================================================
