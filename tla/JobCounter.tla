----------------------------- MODULE JobCounter -----------------------------
(***************************************************************************)
(* core.Apply of the completed-job-counter lesson under its HTTP adapter:  *)
(* concurrent deliveries of events, each one transaction that (strategy    *)
(* "idempotent") claims the event by a unique insert and then increments   *)
(* its strategy's counter row.                                             *)
(*                                                                         *)
(* As in QueueTx, pc is the Go side of a delivery and srv its Postgres     *)
(* session; the session outlives a delivery whose context ended.           *)
(***************************************************************************)
EXTENDS Naturals, FiniteSets

CONSTANTS Deliveries,   \* deliveries (HTTP requests), retries included
          Events,       \* event ids
          PoolSize,     \* connections of the pool
          Nobody        \* holder of a free lock

Modes == {"naive", "idempotent"}

ASSUME CounterAssumption ==
    /\ PoolSize \in Nat \ {0}
    /\ Nobody \notin Deliveries
    /\ IsFiniteSet(Events) /\ IsFiniteSet(Deliveries)

VARIABLES
    mode, ev,    \* mode[d], ev[d]: strategy and event id of delivery d
    seen,        \* committed rows of job_seen
    total,       \* total[m]: committed counter row of strategy m
    inserting,   \* inserting[e]: transaction with an uncommitted row e
    rowLock,     \* rowLock[m]: transaction that has updated counter row m
    pc, srv,     \* Go side and Postgres side of each delivery
    claimed,     \* claimed[d]: Apply's claimed
    got,         \* got[d]: the total its update returned
    deliveries, failed, events    \* the adapter's tally per strategy

db == <<seen, total, inserting, rowLock>>
tally == <<deliveries, failed, events>>
vars == <<mode, ev, db, pc, srv, claimed, got, tally>>

Pc == {"new", "begun", "claim", "update", "updating", "commit", "confirmed",
       "noted", "ok", "failed", "refused"}
Srv == {"none", "open", "inserting", "claimed", "duplicate", "updating",
        "updated", "committing", "committed"}

TypeOK ==
    /\ mode \in [Deliveries -> Modes] /\ ev \in [Deliveries -> Events]
    /\ seen \in SUBSET Events
    /\ total \in [Modes -> Nat]
    /\ inserting \in [Events -> Deliveries \cup {Nobody}]
    /\ rowLock \in [Modes -> Deliveries \cup {Nobody}]
    /\ pc \in [Deliveries -> Pc] /\ srv \in [Deliveries -> Srv]
    \* the naive strategy has no insert
    /\ \A d \in Deliveries :
        mode[d] = "naive" => srv[d] \notin {"inserting", "duplicate"}
    /\ claimed \in [Deliveries -> BOOLEAN]
    /\ got \in [Deliveries -> Nat]
    /\ deliveries \in [Modes -> Nat] /\ failed \in [Modes -> Nat]
    /\ events \in [Modes -> SUBSET Events]

\* reset has emptied both tables and seeded one counter row per strategy.
Init ==
    /\ mode \in [Deliveries -> Modes] /\ ev \in [Deliveries -> Events]
    /\ seen = {} /\ total = [m \in Modes |-> 0]
    /\ inserting = [e \in Events |-> Nobody]
    /\ rowLock = [m \in Modes |-> Nobody]
    /\ pc = [d \in Deliveries |-> "new"]
    /\ srv = [d \in Deliveries |-> "none"]
    /\ claimed = [d \in Deliveries |-> FALSE]
    /\ got = [d \in Deliveries |-> 0]
    /\ deliveries = [m \in Modes |-> 0] /\ failed = [m \in Modes |-> 0]
    /\ events = [m \in Modes |-> {}]

-----------------------------------------------------------------------------
(* Apply and the handler around it *)

InUse == {d \in Deliveries :
            pc[d] \in {"begun", "claim", "update", "updating", "commit"}}

\* perf.Limit answers 429, or the variant, id or attempt is out of range and
\* the handler answers 400: Apply is not called and nothing is counted.
Refuse(d) ==
    /\ pc[d] = "new"
    /\ pc' = [pc EXCEPT ![d] = "refused"]
    /\ UNCHANGED <<mode, ev, db, srv, claimed, got, tally>>

\* db.Acquire gives a connection and Apply begins its transaction.
Begin(d) ==
    /\ pc[d] = "new" /\ Cardinality(InUse) < PoolSize
    /\ pc' = [pc EXCEPT ![d] = "begun"]
    /\ srv' = [srv EXCEPT ![d] = "open"]
    /\ UNCHANGED <<mode, ev, db, claimed, got, tally>>

\* Naive claims every delivery without asking the database.
NaiveClaims(d) ==
    /\ pc[d] = "begun" /\ mode[d] = "naive" /\ srv[d] = "open"
    /\ pc' = [pc EXCEPT ![d] = "update"]
    /\ srv' = [srv EXCEPT ![d] = "claimed"]
    /\ claimed' = [claimed EXCEPT ![d] = TRUE]
    /\ UNCHANGED <<mode, ev, db, got, tally>>

\* Idempotent sends "insert ... on conflict do nothing".
InsertSent(d) ==
    /\ pc[d] = "begun" /\ mode[d] = "idempotent" /\ srv[d] = "open"
    /\ pc' = [pc EXCEPT ![d] = "claim"]
    /\ srv' = [srv EXCEPT ![d] = "inserting"]
    /\ UNCHANGED <<mode, ev, db, claimed, got, tally>>

\* Mutant of InsertReturns: RowsAffected is not looked at.
InsertReturnsAlwaysClaims(d) ==
    /\ pc[d] = "claim" /\ srv[d] \in {"claimed", "duplicate"}
    /\ claimed' = [claimed EXCEPT ![d] = TRUE]
    /\ pc' = [pc EXCEPT ![d] = "update"]
    /\ srv' = [srv EXCEPT ![d] = "claimed"]
    /\ UNCHANGED <<mode, ev, db, got, tally>>

\* RowsAffected() == 1: the delivery may count, else it is a duplicate and
\* Apply goes straight to Commit.
InsertReturns(d) ==
    /\ pc[d] = "claim"
    /\ \/ /\ srv[d] = "claimed"
          /\ claimed' = [claimed EXCEPT ![d] = TRUE]
          /\ pc' = [pc EXCEPT ![d] = "update"]
          /\ UNCHANGED srv
       \/ /\ srv[d] = "duplicate"
          /\ pc' = [pc EXCEPT ![d] = "commit"]
          /\ srv' = [srv EXCEPT ![d] = "committing"]
          /\ UNCHANGED claimed
    /\ UNCHANGED <<mode, ev, db, got, tally>>

UpdateSent(d) ==
    /\ pc[d] = "update" /\ srv[d] = "claimed"
    /\ pc' = [pc EXCEPT ![d] = "updating"]
    /\ srv' = [srv EXCEPT ![d] = "updating"]
    /\ UNCHANGED <<mode, ev, db, claimed, got, tally>>

\* The new total comes back and COMMIT is sent.
UpdateReturns(d) ==
    /\ pc[d] = "updating" /\ srv[d] = "updated"
    /\ pc' = [pc EXCEPT ![d] = "commit"]
    /\ srv' = [srv EXCEPT ![d] = "committing"]
    /\ UNCHANGED <<mode, ev, db, claimed, got, tally>>

\* Mutant of CommitReturns: Apply returns without hearing of COMMIT.
CommitReturnsEarly(d) ==
    /\ pc[d] = "commit"
    /\ pc' = [pc EXCEPT ![d] = "confirmed"]
    /\ UNCHANGED <<mode, ev, db, srv, claimed, got, tally>>

\* Apply returns without error; the handler counts the delivery, then notes
\* its event under the mutex, then answers 200.
CommitReturns(d) ==
    /\ pc[d] = "commit" /\ srv[d] = "committed"
    /\ pc' = [pc EXCEPT ![d] = "confirmed"]
    /\ UNCHANGED <<mode, ev, db, srv, claimed, got, tally>>

CountDelivery(d) ==
    /\ pc[d] = "confirmed"
    /\ pc' = [pc EXCEPT ![d] = "noted"]
    /\ deliveries' = [deliveries EXCEPT ![mode[d]] = @ + 1]
    /\ UNCHANGED <<mode, ev, db, srv, claimed, got, failed, events>>

NoteEvent(d) ==
    /\ pc[d] = "noted"
    /\ pc' = [pc EXCEPT ![d] = "ok"]
    /\ events' = [events EXCEPT ![mode[d]] = @ \cup {ev[d]}]
    /\ UNCHANGED <<mode, ev, db, srv, claimed, got, deliveries, failed>>

\* Acquire or a statement of Apply fails for the delivery: 503.
Fails(d) ==
    /\ pc' = [pc EXCEPT ![d] = "failed"]
    /\ failed' = [failed EXCEPT ![mode[d]] = @ + 1]

\* What a transaction held is free once it ends.
Freed(f, d) == [x \in DOMAIN f |-> IF f[x] = d THEN Nobody ELSE f[x]]

\* Postgres aborts the transaction and says so (statement_timeout).
StatementFails(d) ==
    /\ srv[d] \in {"open", "inserting", "claimed", "updating", "committing"}
    /\ pc[d] \in {"begun", "claim", "update", "updating", "commit"}
    /\ Fails(d)
    /\ srv' = [srv EXCEPT ![d] = "none"]
    /\ inserting' = Freed(inserting, d) /\ rowLock' = Freed(rowLock, d)
    /\ UNCHANGED <<mode, ev, seen, total, claimed, got, deliveries, events>>

\* The delivery's context ends: its session is left to Postgres.
ContextEnds(d) ==
    /\ pc[d] \in {"new", "begun", "claim", "update", "updating", "commit"}
    /\ Fails(d)
    /\ UNCHANGED <<mode, ev, db, srv, claimed, got, deliveries, events>>

-----------------------------------------------------------------------------
(* Postgres *)

\* The unique index decides: a committed row is a conflict; another
\* transaction's uncommitted row has to be waited for; else the row is ours.
InsertDecides(d) ==
    /\ srv[d] = "inserting"
    /\ \/ /\ ev[d] \in seen
          /\ srv' = [srv EXCEPT ![d] = "duplicate"]
          /\ UNCHANGED inserting
       \/ /\ ev[d] \notin seen /\ inserting[ev[d]] = Nobody
          /\ srv' = [srv EXCEPT ![d] = "claimed"]
          /\ inserting' = [inserting EXCEPT ![ev[d]] = d]
    /\ UNCHANGED <<mode, ev, seen, total, rowLock, pc, claimed, got, tally>>

\* The update waits for the counter row and then adds to its latest version.
UpdateApplies(d) ==
    /\ srv[d] = "updating" /\ rowLock[mode[d]] = Nobody
    /\ rowLock' = [rowLock EXCEPT ![mode[d]] = d]
    /\ got' = [got EXCEPT ![d] = total[mode[d]] + 1]
    /\ srv' = [srv EXCEPT ![d] = "updated"]
    /\ UNCHANGED <<mode, ev, seen, total, inserting, pc, claimed, tally>>

\* The commit publishes the seen row and the new total together.
Commits(d) ==
    /\ srv[d] = "committing"
    /\ srv' = [srv EXCEPT ![d] = "committed"]
    /\ seen' = seen \cup {e \in Events : inserting[e] = d}
    /\ total' = [m \in Modes |-> IF rowLock[m] = d THEN got[d] ELSE total[m]]
    /\ inserting' = Freed(inserting, d) /\ rowLock' = Freed(rowLock, d)
    /\ UNCHANGED <<mode, ev, pc, claimed, got, tally>>

\* An abandoned session is noticed and rolled back.
SessionEnds(d) ==
    /\ pc[d] = "failed" /\ srv[d] \notin {"none", "committed"}
    /\ srv' = [srv EXCEPT ![d] = "none"]
    /\ inserting' = Freed(inserting, d) /\ rowLock' = Freed(rowLock, d)
    /\ UNCHANGED <<mode, ev, seen, total, pc, claimed, got, tally>>

-----------------------------------------------------------------------------
ApplySteps(d) ==
    \/ NaiveClaims(d) \/ InsertSent(d) \/ InsertReturns(d)
    \/ UpdateSent(d) \/ UpdateReturns(d) \/ CommitReturns(d)
    \/ CountDelivery(d) \/ NoteEvent(d)

Postgres(d) ==
    InsertDecides(d) \/ UpdateApplies(d) \/ Commits(d) \/ SessionEnds(d)

Quiescent == \A d \in Deliveries :
                pc[d] \in {"ok", "failed", "refused"} /\ srv[d] \in {"none", "committed"}

Idle == Quiescent /\ UNCHANGED vars

Next ==
    \/ \E d \in Deliveries :
        \/ Refuse(d) \/ Begin(d) \/ ApplySteps(d) \/ Postgres(d)
        \/ StatementFails(d) \/ ContextEnds(d)
    \/ Idle

Spec == Init /\ [][Next]_vars

-----------------------------------------------------------------------------
(* Properties *)

\* The counter row and job_seen agree at every commit, and what clients were
\* told is in them: every confirmed event is counted, no confirmed increment
\* is lost, and once all is answered the naive total exceeds the confirmed deliveries,
\* the idempotent one the confirmed events, by no more than the failures.
ConfirmedIsCounted ==
    /\ total["idempotent"] = Cardinality(seen)
    /\ events["idempotent"] \subseteq seen
    /\ deliveries["naive"] <= total["naive"]
    /\ Quiescent =>
        /\ total["naive"] <= deliveries["naive"] + failed["naive"]
        /\ Cardinality(seen \ events["idempotent"]) <= failed["idempotent"]

\* The detailed protocol implements the abstract counter.
Abstract == INSTANCE ExactlyOnce WITH counted <- seen, total <- total["idempotent"]

ImplementsExactlyOnce == Abstract!Spec
=============================================================================
