----------------------------- MODULE JobServer -----------------------------
(***************************************************************************)
(* The HTTP adapter of the background-job-queue lesson: POST /operation    *)
(* enqueues one job and runs core.Work once, over a connection pool, and   *)
(* tallies the outcome.  One queue is modelled, of either variant: the     *)
(* variants have private schemas and pools and share only perf.Limit.      *)
(***************************************************************************)
EXTENDS QueueTx

CONSTANTS PoolSize,   \* POOL_SIZE: connections of the variant's pool
          RunLimit    \* perf.Limit's max

ASSUME ServerAssumption ==
    /\ PoolSize \in Nat \ {0}
    /\ RunLimit \in Nat

VARIABLES
    mode,       \* the variant: which claim query Work is given
    ins,        \* id the sequence gave each request's insert (0: none yet)
    nextId,     \* the table's id sequence
    served,     \* perf.Limit's counter
    enqueued, empty, failed,   \* the variant's atomic counters
    claims, jobs               \* under q.mu: successful calls, distinct ids

tally == <<enqueued, empty, failed, claims, jobs>>
vars == <<txVars, mode, ins, nextId, served, tally>>

Modes == {"blocking", "skip_locked"}

TypeOK ==
    /\ rows \in [Ids -> Status]
    /\ lock \in [Ids -> Callers \cup {NoCaller}]
    /\ pc \in [Callers -> Pc]
    /\ srv \in [Callers -> Srv]
    /\ snap \in [Callers -> SUBSET Ids]
    /\ job \in [Callers -> Ids \cup {0}]
    /\ ins \in [Callers -> Ids \cup {0}]
    /\ mode \in Modes
    /\ nextId \in Nat /\ served \in Nat
    /\ enqueued \in Nat /\ empty \in Nat /\ failed \in Nat
    /\ claims \in Nat /\ jobs \in SUBSET Ids

Init ==
    /\ rows = [i \in Ids |-> "absent"]
    /\ lock = [i \in Ids |-> NoCaller]
    /\ pc = [c \in Callers |-> "new"]
    /\ srv = [c \in Callers |-> "none"]
    /\ snap = [c \in Callers |-> {}]
    /\ job = [c \in Callers |-> 0]
    /\ ins = [c \in Callers |-> 0]
    /\ mode \in Modes /\ nextId = 1 /\ served = 0
    /\ enqueued = 0 /\ empty = 0 /\ failed = 0 /\ claims = 0 /\ jobs = {}

-----------------------------------------------------------------------------
\* Requests that hold a pool connection right now.
InUse == {c \in Callers :
            pc[c] \in {"insert", "inserted", "begun", "claim", "work", "commit"}}

ConnectionFree == Cardinality(InUse) < PoolSize

\* perf.Limit counts the request and lets it through to the handler.
Admit(c) ==
    /\ pc[c] = "new" /\ served < RunLimit
    /\ served' = served + 1
    /\ pc' = [pc EXCEPT ![c] = "admitted"]
    /\ UNCHANGED <<rows, lock, srv, snap, job, mode, ins, nextId, tally>>

\* perf.Limit answers 429 when the run's request budget is used up; the
\* handler answers 400 to an unknown variant, which has used up budget too.
Refuse(c) ==
    /\ pc[c] = "new"
    /\ served' = served + 1
    /\ pc' = [pc EXCEPT ![c] = "refused"]
    /\ UNCHANGED <<rows, lock, srv, snap, job, mode, ins, nextId, tally>>

\* q.db.Exec(enqueue) gets a connection; the insert takes the next id.
Enqueue(c) ==
    /\ pc[c] = "admitted"
    /\ ConnectionFree /\ nextId \in Ids
    /\ pc' = [pc EXCEPT ![c] = "insert"]
    /\ srv' = [srv EXCEPT ![c] = "insert"]
    /\ ins' = [ins EXCEPT ![c] = nextId]
    /\ nextId' = nextId + 1
    /\ UNCHANGED <<rows, lock, snap, job, mode, served, tally>>

\* Postgres commits the insert, even when its request has given up.
InsertCommits(c) ==
    /\ srv[c] = "insert"
    /\ rows' = [rows EXCEPT ![ins[c]] = "pending"]
    /\ srv' = [srv EXCEPT ![c] = "none"]
    /\ pc' = [pc EXCEPT ![c] = IF @ = "insert" THEN "inserted" ELSE @]
    /\ UNCHANGED <<lock, snap, job, mode, ins, nextId, served, tally>>

\* Exec returns: the connection goes back to the pool and the job is counted.
InsertReturns(c) ==
    /\ pc[c] = "inserted"
    /\ pc' = [pc EXCEPT ![c] = "ready"]
    /\ enqueued' = enqueued + 1
    /\ UNCHANGED <<rows, lock, srv, snap, job, mode, ins, nextId, served,
                   empty, failed, claims, jobs>>

\* Exec fails for the request, waiting for a connection or for the insert:
\* 503, whatever becomes of the insert.
InsertFails(c) ==
    /\ pc[c] \in {"admitted", "insert", "inserted"}
    /\ pc' = [pc EXCEPT ![c] = "failed"]
    /\ failed' = failed + 1
    /\ UNCHANGED <<rows, lock, srv, snap, job, mode, ins, nextId, served,
                   enqueued, empty, claims, jobs>>

\* Work gets its connection and runs its statements.
Working(c) ==
    /\ pc[c] = "ready" => ConnectionFree
    /\ WorkGo(c)
    /\ UNCHANGED <<mode, ins, nextId, served, tally>>

WorkSucceeds(c) ==
    /\ CommitReturns(c)
    /\ UNCHANGED <<mode, ins, nextId, served, tally>>

\* errors.Is(err, pgx.ErrNoRows): the empty counter and 409.
WorkFindsNone(c) ==
    /\ ClaimFindsNone(c)
    /\ empty' = empty + 1
    /\ UNCHANGED <<mode, ins, nextId, served, enqueued, failed, claims, jobs>>

\* Any other error of Work: the failed counter and 503.
WorkFails(c) ==
    /\ StatementFails(c) \/ ContextEnds(c)
    /\ failed' = failed + 1
    /\ UNCHANGED <<mode, ins, nextId, served, enqueued, empty, claims, jobs>>

\* Under q.mu: one more claim, its job id noted; then 200.
Tally(c) ==
    /\ pc[c] = "won"
    /\ pc' = [pc EXCEPT ![c] = "ok"]
    /\ claims' = claims + 1
    /\ jobs' = jobs \cup {job[c]}
    /\ UNCHANGED <<rows, lock, srv, snap, job, mode, ins, nextId, served,
                   enqueued, empty, failed>>

Database(c) ==
    /\ Postgres(c, mode) \/ SessionEnds(c)
    /\ UNCHANGED <<mode, ins, nextId, served, tally>>

Request(c) ==
    \/ Admit(c) \/ Refuse(c) \/ Enqueue(c) \/ InsertReturns(c) \/ InsertFails(c)
    \/ Working(c) \/ WorkSucceeds(c) \/ WorkFindsNone(c) \/ WorkFails(c)
    \/ Tally(c)

Answered == {"ok", "empty", "failed", "refused"}

\* Nothing is left to do: every request is answered, every session gone.
Quiescent == \A c \in Callers :
                pc[c] \in Answered /\ srv[c] \in {"none", "committed"}

Idle == Quiescent /\ UNCHANGED vars

Next ==
    \/ \E c \in Callers : Request(c) \/ InsertCommits(c) \/ Database(c)
    \/ Idle

Spec == Init /\ [][Next]_vars

-----------------------------------------------------------------------------
(* Properties *)

\* The exactly-once claim: two calls of Work never hold, or have finished, the
\* same job, although both may have seen it pending in their snapshots.
OwnsJob(c) == srv[c] \in {"claimed", "committing", "committed"}

ExclusiveJobs ==
    \A c, d \in Callers :
        c # d /\ OwnsJob(c) /\ OwnsJob(d) => job[c] # job[d]

\* k6's teardown check distinct_jobs === claims: the tally of successful calls
\* and the set of ids they returned agree at every moment /stats may read them.
ClaimsDistinct == claims = Cardinality(jobs)

\* Counters and table agree.  A job reported to a client is done.  Once
\* everything is answered, the table holds no more done jobs than the claims
\* plus the requests whose COMMIT outcome the server never learned, and "only
\* failed or empty claims leave a job pending" (perf/analyze.sql).
JobsAccounted ==
    /\ jobs \subseteq Done
    /\ Quiescent =>
        /\ Cardinality(Done) \in claims .. claims + failed
        /\ Cardinality(Pending) <= empty + failed
        /\ failed = 0 => Cardinality(Pending) = enqueued - claims

\* With the waiting claim query a request is told "no pending job to claim"
\* only when the job it enqueued itself has been finished by another request:
\* the 409 is never caused by a rollback or by a row merely being locked.
EmptyOnlyAfterOwnJobDone ==
    mode = "blocking" =>
        \A c \in Callers : pc[c] = "empty" => rows[ins[c]] = "done"

\* A scan holds locks only on ids below the ones it has still to visit, so
\* transactions wait for each other along increasing ids and never in a cycle.
OrderedLocking ==
    \A c \in Callers : srv[c] = "scan" =>
        \A i \in Ids, j \in snap[c] : lock[i] = c => i < j

\* Every path out of Work gives its row locks back: a lock belongs to a running
\* session whose call is still inside Work, or has failed and left it behind.
\* A request answered 200 or 409 holds no row.
NoOrphanLock ==
    \A i \in Ids, c \in Callers :
        lock[i] = c =>
            /\ srv[c] \in {"scan", "claimed", "empty", "committing"}
            /\ pc[c] \in {"claim", "work", "commit", "failed"}

\* A job becomes done only through the transaction that holds its row, and is
\* never reopened.
FinishedByHolder ==
    [][\A i \in Ids :
        /\ rows[i] = "done" => rows'[i] = "done"
        /\ rows[i] # "done" /\ rows'[i] = "done" =>
            \E c \in Callers : lock[i] = c /\ job[c] = i]_vars
=============================================================================
