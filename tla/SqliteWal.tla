------------------------------ MODULE SqliteWal ------------------------------
(***************************************************************************)
(* The sqlite-wal-lab lesson under its HTTP adapter: writes that arrive    *)
(* while the server holds a reader snapshot, in either journal mode, and   *)
(* one GET /stats.  Each mode has a database file, a pool and counters of  *)
(* its own, so a behaviour has one of them.                                *)
(*                                                                         *)
(* SQLite itself is external: one writer at a time; in DELETE mode a       *)
(* commit waits for every reader and keeps new ones out meanwhile          *)
(* (PENDING); in WAL mode readers and the writer do not meet.              *)
(***************************************************************************)
EXTENDS Integers, FiniteSets

CONSTANTS Writes,     \* requests for POST /operation
          PoolSize,   \* writer connections
          Nobody      \* holder of a free write lock

NoView == -1

VARIABLES
    mode,                \* journal mode
    rows,                \* committed rows beyond the seed row
    view,                \* rows the held snapshot sees, NoView before its first read
    writer, pending,     \* holder of the write lock; it waits for the readers
    warmIdle, unopened,  \* pool: idle warmed connections, connections not yet opened
    pc,                  \* pc[w]: where the handler of w is
    cold,                \* writes whose connection is new
    outcome,             \* outcome[w] of its insert
    cancelled,           \* requests whose client has gone
    ok, locked, failed,  \* the variant's counters
    statsPc, report, window

file == <<rows, view, writer, pending>>
pool == <<warmIdle, unopened, cold>>
counters == <<ok, locked, failed>>
stats == <<statsPc, report, window>>
vars == <<mode, file, pool, pc, outcome, cancelled, counters, stats>>

\* Mutant of Warm: only the connection that created the schema has been used.
WarmFirstOnly == 1

\* warm: connections that have run their pragmas and read the schema.
Warm == PoolSize + 1

\* Mutant of OpenSnapshot: the transaction begins and nothing is read.
OpenSnapshotUnread == NoView

\* OpenSnapshot reads once, which is what establishes the snapshot.
OpenSnapshot == 0

\* open: schema with its seed row, warmed pool, then the snapshot, which pins
\* one connection until shutdown.
Init ==
    /\ mode \in {"DELETE", "WAL"}
    /\ rows = 0 /\ view = OpenSnapshot
    /\ writer = Nobody /\ pending = FALSE
    /\ warmIdle = Warm - 1 /\ unopened = PoolSize + 1 - Warm
    /\ pc = [w \in Writes |-> "new"] /\ cold = {} /\ cancelled = {}
    /\ outcome = [w \in Writes |-> "none"]
    /\ ok = 0 /\ locked = 0 /\ failed = 0
    /\ statsPc = "new" /\ window = {}
    /\ report = [rows |-> 0, snapshot |-> 0, ok |-> 0, failed |-> 0]

InFlight == {w \in Writes : pc[w] \notin {"new", "done"}}
Reading == statsPc \notin {"new", "done", "erred"}

Goto(w, from, to) == pc[w] = from /\ pc' = [pc EXCEPT ![w] = to]

-----------------------------------------------------------------------------
(* WriteEvent: connection and statement *)

\* perf.Limit answers 429, or the variant is unknown and the answer is 400.
Refuse(w) ==
    /\ Goto(w, "new", "done")
    /\ UNCHANGED <<mode, file, pool, outcome, cancelled, counters, stats>>

Start(w) ==
    /\ Goto(w, "new", "conn")
    /\ window' = IF Reading THEN window \cup {w} ELSE window
    /\ UNCHANGED <<mode, file, pool, outcome, cancelled, counters, statsPc, report>>

\* db.Conn takes an idle connection or, when there is none, opens one.
GetConn(w) ==
    /\ Goto(w, "conn", "prepare")
    /\ \/ warmIdle > 0 /\ warmIdle' = warmIdle - 1 /\ UNCHANGED <<unopened, cold>>
       \/ /\ warmIdle = 0 /\ unopened > 0
          /\ unopened' = unopened - 1 /\ cold' = cold \cup {w} /\ UNCHANGED warmIdle
    /\ UNCHANGED <<mode, file, outcome, cancelled, counters, stats>>

\* The connection goes back; once it has been read with it is a warm one.
PutConn(w) ==
    /\ IF w \in cold THEN unopened' = unopened + 1 /\ UNCHANGED warmIdle
                     ELSE warmIdle' = warmIdle + 1 /\ UNCHANGED unopened
    /\ cold' = cold \ {w}

\* A new connection runs its pragmas and loads the schema under a SHARED lock,
\* which a pending writer refuses.
Prepare(w) ==
    /\ w \in cold => ~pending
    /\ Goto(w, "prepare", "exec")
    /\ cold' = cold \ {w}
    /\ UNCHANGED <<mode, file, warmIdle, unopened, outcome, cancelled, counters, stats>>

\* The set-up fails, on a busy timeout or because the client has gone: 503.
SetUpFails(w) ==
    /\ \/ /\ w \in cold /\ pending
          /\ Goto(w, "prepare", "done")
          /\ PutConn(w) /\ UNCHANGED cancelled
       \/ /\ Goto(w, "conn", "done")
          /\ cancelled' = cancelled \cup {w} /\ UNCHANGED pool
       \/ /\ Goto(w, "prepare", "done")
          /\ PutConn(w) /\ cancelled' = cancelled \cup {w}
    /\ failed' = failed + 1
    /\ UNCHANGED <<mode, file, outcome, ok, locked, stats>>

-----------------------------------------------------------------------------
(* WriteEvent: the insert, a transaction of its own *)

BeginWrite(w) ==
    /\ writer = Nobody
    /\ Goto(w, "exec", "write")
    /\ writer' = w
    /\ UNCHANGED <<mode, rows, view, pending, pool, outcome, cancelled, counters, stats>>

ReaderInTheWay == mode = "DELETE" /\ view # NoView

\* DELETE mode: the commit waits for the reader to go.
WaitForReaders(w) ==
    /\ pc[w] = "write" /\ ~pending /\ ReaderInTheWay
    /\ pending' = TRUE
    /\ UNCHANGED <<mode, rows, view, writer, pool, pc, outcome, cancelled, counters, stats>>

\* ExecContext returns out; the lock and the connection are given back.
ExecReturns(w, from, out) ==
    /\ Goto(w, from, "note")
    /\ outcome' = [outcome EXCEPT ![w] = out]
    /\ PutConn(w)
    /\ writer' = IF writer = w THEN Nobody ELSE writer
    /\ pending' = IF writer = w THEN FALSE ELSE pending
    /\ UNCHANGED <<mode, view, counters, stats>>

Commit(w) ==
    /\ ~ReaderInTheWay
    /\ ExecReturns(w, "write", "ok")
    /\ rows' = rows + 1
    /\ UNCHANGED cancelled

\* The busy timeout passes, waiting for the writer or for the readers.
BusyTimeout(w) ==
    /\ \/ writer # Nobody /\ ExecReturns(w, "exec", "locked")
       \/ pending /\ ExecReturns(w, "write", "locked")
    /\ UNCHANGED <<rows, cancelled>>

\* The client has gone: the insert is interrupted, or has just committed.
Interrupted(w) ==
    /\ \/ ExecReturns(w, "exec", "failed") /\ UNCHANGED rows
       \/ ExecReturns(w, "write", "failed") /\ UNCHANGED rows
       \/ ~ReaderInTheWay /\ ExecReturns(w, "write", "failed") /\ rows' = rows + 1
    /\ cancelled' = cancelled \cup {w}

\* The handler's switch: ok, isLocked (answered 200 all the same), or 500.
Note(w) ==
    /\ Goto(w, "note", "done")
    /\ ok' = ok + (IF outcome[w] = "ok" THEN 1 ELSE 0)
    /\ locked' = locked + (IF outcome[w] = "locked" THEN 1 ELSE 0)
    /\ failed' = failed + (IF outcome[w] = "failed" THEN 1 ELSE 0)
    /\ UNCHANGED <<mode, file, pool, outcome, cancelled, stats>>

-----------------------------------------------------------------------------
(* GET /stats *)

\* A fresh read on a connection of the pool; a pending writer keeps it out.
StatsCounts ==
    /\ statsPc = "new"
    /\ \/ warmIdle > 0 /\ ~pending /\ statsPc' = "snapshot"
       \/ statsPc' = "erred"
    /\ report' = [report EXCEPT !.rows = rows]
    /\ window' = InFlight
    /\ UNCHANGED <<mode, file, pool, pc, outcome, cancelled, counters>>

\* The held snapshot, under snapMu.
StatsAsksSnapshot ==
    /\ statsPc = "snapshot"
    /\ view' = IF view = NoView THEN rows ELSE view
    /\ report' = [report EXCEPT !.snapshot = view']
    /\ statsPc' \in {"ok", "erred"}
    /\ UNCHANGED <<mode, rows, writer, pending, pool, pc, outcome, cancelled, counters, window>>

\* The counters, each by itself; the locked writes and the size of the WAL
\* file, which nothing is compared with, are left out.
StatsLoads ==
    /\ \/ statsPc = "ok" /\ statsPc' = "failed" /\ report' = [report EXCEPT !.ok = ok]
       \/ statsPc = "failed" /\ statsPc' = "done" /\ report' = [report EXCEPT !.failed = failed]
    /\ UNCHANGED <<mode, file, pool, pc, outcome, cancelled, counters, window>>

Idle == InFlight = {} /\ UNCHANGED vars

Next ==
    \/ \E w \in Writes :
        \/ Refuse(w) \/ Start(w) \/ GetConn(w) \/ Prepare(w) \/ SetUpFails(w)
        \/ BeginWrite(w) \/ WaitForReaders(w) \/ Commit(w) \/ BusyTimeout(w)
        \/ Interrupted(w) \/ Note(w)
    \/ StatsCounts \/ StatsAsksSnapshot \/ StatsLoads
    \/ Idle

Spec == Init /\ [][Next]_vars

-----------------------------------------------------------------------------
(* Properties *)

\* The lesson's claim: the reader opened before the traffic keeps its view.  In
\* DELETE mode that stops every write, in WAL mode writes go on beside it, and
\* in both /stats still finds the seed rows in it.
ReaderKeepsItsView ==
    /\ mode = "DELETE" => rows = 0
    /\ statsPc = "done" => report.snapshot = 0

\* Contention alone never fails a request: however the writers meet, a write
\* that is not abandoned by its client ends ok or locked, because no set-up has
\* to wait for a lock.
ContentionNeverFails == failed <= Cardinality(cancelled)

\* Rows and answers agree: no write answered ok is missing, and /stats, which
\* reads the rows before it loads the counters, is off by no more than the
\* requests in flight meanwhile and those that failed.
RowsAreAccounted ==
    /\ ok <= rows
    /\ statsPc = "done" =>
        report.rows - report.ok \in (-Cardinality(window))..
                                        (Cardinality(window) + report.failed)
=============================================================================
