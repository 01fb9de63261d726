------------------------------ MODULE QueueTx ------------------------------
(***************************************************************************)
(* core.Work of the background-job-queue lesson and the part of Postgres   *)
(* it leans on: row locks, READ COMMITTED statement snapshots and the      *)
(* re-check of a row that changed while the claim waited for it.           *)
(*                                                                         *)
(* A caller c of Work has two halves.  pc[c] is the Go side: the statement *)
(* Work is in.  srv[c] is the Postgres session that serves it.  The halves *)
(* part when the caller's context ends: the caller returns an error while  *)
(* its session lives on until Postgres notices, still holding its locks    *)
(* and possibly still executing the COMMIT it was sent.                    *)
(***************************************************************************)
EXTENDS Naturals, FiniteSets

CONSTANTS Callers,    \* concurrent calls of Work (base workers or requests)
          MaxJobs,    \* bound: rows the table may hold
          NoCaller    \* the value of lock for a row nobody holds

ASSUME QueueAssumption == MaxJobs \in Nat /\ NoCaller \notin Callers

VARIABLES
    rows,   \* rows[i]: committed status of job i, "absent" before its insert
    lock,   \* lock[i]: the session whose transaction holds row i's lock
    pc,     \* Go side of each call
    srv,    \* Postgres side of each call
    snap,   \* ids the running claim statement's snapshot has still to visit
    job     \* id the claim returned (0: none yet)

txVars == <<rows, lock, pc, srv, snap, job>>

Ids == 1..MaxJobs

\* Where the Go side can be. "new" to "inserted", "won", "ok" and "refused"
\* belong to the adapter's handler around Work; the rest are inside Work.
Pc == {"new", "admitted", "insert", "inserted", "ready", "begun", "claim",
       "work", "commit", "won", "ok", "empty", "failed", "refused"}

Srv == {"none", "insert", "open", "scan", "claimed", "empty",
        "committing", "committed"}

Status == {"absent", "pending", "done"}

Pending == {i \in Ids : rows[i] = "pending"}
Done == {i \in Ids : rows[i] = "done"}

\* Row locks are released when the transaction ends, all at once.
Released(c) == [i \in Ids |-> IF lock[i] = c THEN NoCaller ELSE lock[i]]

-----------------------------------------------------------------------------
(* The Go side of Work *)

\* tx, err := db.Begin(ctx): a connection with an open transaction.
Begin(c) ==
    /\ pc[c] = "ready"
    /\ pc' = [pc EXCEPT ![c] = "begun"]
    /\ srv' = [srv EXCEPT ![c] = "open"]
    /\ UNCHANGED <<rows, lock, snap, job>>

\* The claim query starts: READ COMMITTED takes its snapshot now, so it sees
\* the rows that are committed and pending at this moment and no later one.
ClaimStarts(c) ==
    /\ pc[c] = "begun" /\ srv[c] = "open"
    /\ pc' = [pc EXCEPT ![c] = "claim"]
    /\ srv' = [srv EXCEPT ![c] = "scan"]
    /\ snap' = [snap EXCEPT ![c] = Pending]
    /\ UNCHANGED <<rows, lock, job>>

\* The claim's row is scanned into id; Work sleeps workTime with the row held.
ClaimReturns(c) ==
    /\ pc[c] = "claim" /\ srv[c] = "claimed"
    /\ pc' = [pc EXCEPT ![c] = "work"]
    /\ UNCHANGED <<rows, lock, srv, snap, job>>

\* finishQuery updates the held row, invisible to others, and COMMIT is sent.
Finish(c) ==
    /\ pc[c] = "work" /\ srv[c] = "claimed"
    /\ pc' = [pc EXCEPT ![c] = "commit"]
    /\ srv' = [srv EXCEPT ![c] = "committing"]
    /\ UNCHANGED <<rows, lock, snap, job>>

\* Mutant of CommitReturns: Work returns its claim without hearing of COMMIT.
CommitReturnsEarly(c) ==
    /\ pc[c] = "commit"
    /\ pc' = [pc EXCEPT ![c] = "won"]
    /\ UNCHANGED <<rows, lock, srv, snap, job>>

\* Commit returns nil: Work returns Claim{JobID: id} to its caller.
CommitReturns(c) ==
    /\ pc[c] = "commit" /\ srv[c] = "committed"
    /\ pc' = [pc EXCEPT ![c] = "won"]
    /\ UNCHANGED <<rows, lock, srv, snap, job>>

\* Mutant of ClaimFindsNone: the deferred Rollback is missing.
ClaimFindsNoneUnrolled(c) ==
    /\ pc[c] = "claim" /\ srv[c] = "empty"
    /\ pc' = [pc EXCEPT ![c] = "empty"]
    /\ UNCHANGED <<rows, lock, srv, snap, job>>

\* No row: Scan returns pgx.ErrNoRows and the deferred Rollback ends the
\* transaction before Work returns, with every lock its scan had taken.
ClaimFindsNone(c) ==
    /\ pc[c] = "claim" /\ srv[c] = "empty"
    /\ pc' = [pc EXCEPT ![c] = "empty"]
    /\ srv' = [srv EXCEPT ![c] = "none"]
    /\ lock' = Released(c)
    /\ UNCHANGED <<rows, snap, job>>

\* The statement Work waits for fails in Postgres (statement_timeout, 5 s):
\* the transaction aborts there, its locks go, and Work returns the error.
StatementFails(c) ==
    /\ \/ pc[c] = "begun" /\ srv[c] = "open"
       \/ pc[c] = "claim" /\ srv[c] = "scan"
       \/ pc[c] = "work" /\ srv[c] = "claimed"
       \/ pc[c] = "commit" /\ srv[c] = "committing"
    /\ pc' = [pc EXCEPT ![c] = "failed"]
    /\ srv' = [srv EXCEPT ![c] = "none"]
    /\ lock' = Released(c)
    /\ UNCHANGED <<rows, snap, job>>

\* The caller's context ends or the connection breaks: Work returns an error,
\* Rollback cannot reach the server any more, the session is left behind.
ContextEnds(c) ==
    /\ pc[c] \in {"ready", "begun", "claim", "work", "commit"}
    /\ pc' = [pc EXCEPT ![c] = "failed"]
    /\ UNCHANGED <<rows, lock, srv, snap, job>>

-----------------------------------------------------------------------------
(* The Postgres side *)

\* Mutant of IsNext: "order by id" is missing.
IsNextAny(c, i) == i \in snap[c]

\* The smallest id the snapshot still holds: the scan follows "order by id".
IsNext(c, i) == i \in snap[c] /\ \A j \in snap[c] : i <= j

\* Mutant of ScanLocks: the row is claimed as the snapshot saw it, without
\* another look at its latest version.
ScanLocksNoRecheck(c) ==
    /\ srv[c] = "scan"
    /\ \E i \in Ids :
        /\ IsNext(c, i)
        /\ lock[i] \in {NoCaller, c}
        /\ lock' = [lock EXCEPT ![i] = c]
        /\ srv' = [srv EXCEPT ![c] = "claimed"]
        /\ job' = [job EXCEPT ![c] = i]
        /\ snap' = [snap EXCEPT ![c] = {}]
    /\ UNCHANGED <<rows, pc>>

\* Mutant of ScanLocks: "for update" is missing, the row is read unlocked.
ScanLocksNotForUpdate(c) ==
    /\ srv[c] = "scan"
    /\ \E i \in Ids :
        /\ IsNext(c, i)
        /\ srv' = [srv EXCEPT ![c] = "claimed"]
        /\ job' = [job EXCEPT ![c] = i]
        /\ snap' = [snap EXCEPT ![c] = {}]
    /\ UNCHANGED <<rows, lock, pc>>

\* The scan locks its next row.  The lock is taken on the row's latest version
\* and the condition status = 'pending' is evaluated again on that version: a
\* row that another transaction finished meanwhile is dropped, but stays locked.
ScanLocks(c) ==
    /\ srv[c] = "scan"
    /\ \E i \in Ids :
        /\ IsNext(c, i)
        /\ lock[i] \in {NoCaller, c}
        /\ lock' = [lock EXCEPT ![i] = c]
        /\ \/ /\ rows[i] = "pending"
              /\ srv' = [srv EXCEPT ![c] = "claimed"]
              /\ job' = [job EXCEPT ![c] = i]
              /\ snap' = [snap EXCEPT ![c] = {}]
           \/ /\ rows[i] # "pending"
              /\ snap' = [snap EXCEPT ![c] = @ \ {i}]
              /\ UNCHANGED <<srv, job>>
    /\ UNCHANGED <<rows, pc>>

\* Mutant of ScanSkips: the variants' claim queries are mixed up.
ScanSkipsInEveryMode(c, mode) ==
    /\ srv[c] = "scan"
    /\ \E i \in Ids :
        /\ IsNext(c, i)
        /\ lock[i] \notin {NoCaller, c}
        /\ snap' = [snap EXCEPT ![c] = @ \ {i}]
    /\ UNCHANGED <<rows, lock, pc, srv, job>>

\* "skip locked" passes over a row another transaction holds; without it the
\* scan waits here.
ScanSkips(c, mode) ==
    /\ srv[c] = "scan" /\ mode = "skip_locked"
    /\ \E i \in Ids :
        /\ IsNext(c, i)
        /\ lock[i] \notin {NoCaller, c}
        /\ snap' = [snap EXCEPT ![c] = @ \ {i}]
    /\ UNCHANGED <<rows, lock, pc, srv, job>>

\* The snapshot is used up without a row: the query returns none.
ScanEnds(c) ==
    /\ srv[c] = "scan" /\ snap[c] = {}
    /\ srv' = [srv EXCEPT ![c] = "empty"]
    /\ UNCHANGED <<rows, lock, pc, snap, job>>

\* Postgres commits: the row is done for everyone and the locks are free,
\* whether or not the caller is still there to hear it.
Commits(c) ==
    /\ srv[c] = "committing"
    /\ rows' = [rows EXCEPT ![job[c]] = "done"]
    /\ lock' = Released(c)
    /\ srv' = [srv EXCEPT ![c] = "committed"]
    /\ UNCHANGED <<pc, snap, job>>

\* Postgres notices that an abandoned session has no client: it rolls back.
SessionEnds(c) ==
    /\ pc[c] = "failed"
    /\ srv[c] \notin {"none", "committed"}
    /\ srv' = [srv EXCEPT ![c] = "none"]
    /\ lock' = Released(c)
    /\ UNCHANGED <<rows, pc, snap, job>>

WorkGo(c) == Begin(c) \/ ClaimStarts(c) \/ ClaimReturns(c) \/ Finish(c)

Postgres(c, mode) ==
    ScanLocks(c) \/ ScanSkips(c, mode) \/ ScanEnds(c) \/ Commits(c)
=============================================================================
