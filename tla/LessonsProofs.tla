--------------------------- MODULE LessonsProofs ----------------------------
(***************************************************************************)
(* Proofs about the completed-job counter, for any number of deliveries,   *)
(* events and pool connections, and about the adapters of sqlite-wal-lab,  *)
(* cache-aside and pipelining-work.                                        *)
(*                                                                         *)
(* The unique row of job_seen and the lock of the counter row make commits *)
(* of the idempotent strategy exclusive: a session that holds an           *)
(* uncommitted row holds it for an event nobody has counted, and the total *)
(* its update has read is still the latest one when it commits.            *)
(*                                                                         *)
(* The other adapters load a /stats report one counter after the other:    *)
(* their invariants follow the requests outside the report's window, which *)
(* have not started or have been counted.                                  *)
(***************************************************************************)
EXTENDS MCLessons, FiniteSetTheorems, WellFoundedInduction, TLAPS

-----------------------------------------------------------------------------
(* The inductive invariant *)

\* A delivery without a transaction has no session; a confirmed one's COMMIT
\* has succeeded.
SessionFollowsDelivery ==
    \A d \in Deliveries :
        /\ pc[d] \in {"new", "refused"} => srv[d] = "none"
        /\ pc[d] \in {"confirmed", "noted", "ok"} => srv[d] = "committed"

\* An uncommitted row of job_seen belongs to a running idempotent transaction,
\* for an event that is not counted yet.
InsertIsExclusive ==
    \A e \in Events, d \in Deliveries :
        inserting[e] = d =>
            /\ mode[d] = "idempotent" /\ ev[d] = e /\ e \notin seen
            /\ srv[d] \in {"claimed", "updating", "updated", "committing"}

\* Between its insert and its commit a transaction that may count holds its row.
ClaimIsHeld ==
    \A d \in Deliveries :
        mode[d] = "idempotent" /\ srv[d] \in {"claimed", "updating", "updated"}
            => inserting[ev[d]] = d

\* Who holds a counter row has added to its latest version.
UpdateIsExclusive ==
    \A m \in Modes, d \in Deliveries :
        rowLock[m] = d =>
            /\ mode[d] = m /\ srv[d] \in {"updated", "committing"}
            /\ got[d] = total[m] + 1

UpdateIsHeld == \A d \in Deliveries : srv[d] = "updated" => rowLock[mode[d]] = d

\* A commit publishes the seen row and the increment, or neither.
Counts(d) == rowLock[mode[d]] = d /\ (mode[d] = "idempotent" => inserting[ev[d]] = d)
Repeats(d) == /\ mode[d] = "idempotent" /\ ev[d] \in seen
              /\ rowLock[mode[d]] # d /\ inserting[ev[d]] # d

CommitIsWhole ==
    \A d \in Deliveries : srv[d] = "committing" => Counts(d) \/ Repeats(d)

\* A duplicate is one of an event that is counted, and so is what committed.
CommittedIsSeen ==
    \A d \in Deliveries :
        srv[d] = "duplicate" \/ (srv[d] = "committed" /\ mode[d] = "idempotent")
            => ev[d] \in seen

\* Every counted event has a committed delivery, every noted one an answer.
SeenHasDelivery ==
    /\ \A e \in seen : \E d \in Deliveries :
            mode[d] = "idempotent" /\ ev[d] = e /\ srv[d] = "committed"
    /\ \A d \in Deliveries : pc[d] = "ok" => ev[d] \in events[mode[d]]

\* The counter rows and the tally count deliveries.
Committed(m) == {d \in Deliveries : mode[d] = m /\ srv[d] = "committed"}
Counted(m) == {d \in Deliveries : mode[d] = m /\ pc[d] \in {"noted", "ok"}}
Failed(m) == {d \in Deliveries : mode[d] = m /\ pc[d] = "failed"}

TotalsAreExact ==
    /\ total["naive"] = Cardinality(Committed("naive"))
    /\ total["idempotent"] = Cardinality(seen)
    /\ events["idempotent"] \subseteq seen

TallyIsExact ==
    \A m \in Modes :
        /\ deliveries[m] = Cardinality(Counted(m))
        /\ failed[m] = Cardinality(Failed(m))

\* What ties deliveries, sessions and tables together, without the counting.
Protocol ==
    /\ SessionFollowsDelivery
    /\ InsertIsExclusive
    /\ ClaimIsHeld
    /\ UpdateIsExclusive
    /\ UpdateIsHeld
    /\ CommitIsWhole
    /\ CommittedIsSeen
    /\ SeenHasDelivery

CounterInv == TypeOK /\ Protocol /\ TotalsAreExact /\ TallyIsExact

-----------------------------------------------------------------------------
(* Type correctness *)

\* Empty tables, no sessions and a zero tally satisfy the invariant.
LEMMA CounterInit == Init => CounterInv
<1> SUFFICES ASSUME Init PROVE CounterInv
  OBVIOUS
<1> USE DEF Init
<1>1. TypeOK
  BY CounterAssumption DEF TypeOK, Modes, Pc, Srv
<1>2. Protocol
  BY CounterAssumption
     DEF Protocol, SessionFollowsDelivery, InsertIsExclusive, ClaimIsHeld,
         UpdateIsExclusive, UpdateIsHeld, CommitIsWhole, CommittedIsSeen,
         SeenHasDelivery, Modes
<1>3. /\ Committed("naive") = {}
      /\ \A m \in Modes : Counted(m) = {} /\ Failed(m) = {}
  BY DEF Committed, Counted, Failed
<1> QED
  BY <1>1, <1>2, <1>3, FS_EmptySet DEF CounterInv, TotalsAreExact, TallyIsExact, Modes

\* Every step of a delivery, of Postgres or of the handler keeps the types.
LEMMA CounterTypeStep == TypeOK /\ [Next]_vars => TypeOK'
<1> SUFFICES ASSUME TypeOK, [Next]_vars PROVE TypeOK'
  OBVIOUS
<1> USE DEF TypeOK, db, tally, Pc, Srv
<1>1. ASSUME NEW d \in Deliveries, Refuse(d) PROVE TypeOK'
  BY <1>1 DEF Refuse
<1>2. ASSUME NEW d \in Deliveries, Begin(d) PROVE TypeOK'
  BY <1>2 DEF Begin
<1>3. ASSUME NEW d \in Deliveries, NaiveClaims(d) PROVE TypeOK'
  BY <1>3 DEF NaiveClaims
<1>4. ASSUME NEW d \in Deliveries, InsertSent(d) PROVE TypeOK'
  BY <1>4 DEF InsertSent
<1>5. ASSUME NEW d \in Deliveries, InsertReturns(d) PROVE TypeOK'
  BY <1>5 DEF InsertReturns
<1>6. ASSUME NEW d \in Deliveries, UpdateSent(d) PROVE TypeOK'
  BY <1>6 DEF UpdateSent
<1>7. ASSUME NEW d \in Deliveries, UpdateReturns(d) PROVE TypeOK'
  BY <1>7 DEF UpdateReturns
<1>8. ASSUME NEW d \in Deliveries, CommitReturns(d) PROVE TypeOK'
  BY <1>8 DEF CommitReturns
<1>9. ASSUME NEW d \in Deliveries, CountDelivery(d) PROVE TypeOK'
  BY <1>9 DEF CountDelivery
<1>10. ASSUME NEW d \in Deliveries, NoteEvent(d) PROVE TypeOK'
  BY <1>10 DEF NoteEvent
<1>11. ASSUME NEW d \in Deliveries, StatementFails(d) PROVE TypeOK'
  BY <1>11 DEF StatementFails, Fails, Freed
<1>12. ASSUME NEW d \in Deliveries, ContextEnds(d) PROVE TypeOK'
  BY <1>12 DEF ContextEnds, Fails
<1>13. ASSUME NEW d \in Deliveries, InsertDecides(d) PROVE TypeOK'
  BY <1>13 DEF InsertDecides
<1>14. ASSUME NEW d \in Deliveries, UpdateApplies(d) PROVE TypeOK'
  BY <1>14 DEF UpdateApplies
<1>15. ASSUME NEW d \in Deliveries, Commits(d) PROVE TypeOK'
  BY <1>15 DEF Commits, Freed
<1>16. ASSUME NEW d \in Deliveries, SessionEnds(d) PROVE TypeOK'
  BY <1>16 DEF SessionEnds, Freed
<1>17. CASE UNCHANGED vars
  BY <1>17 DEF vars
<1> QED
  BY <1>1, <1>2, <1>3, <1>4, <1>5, <1>6, <1>7, <1>8, <1>9, <1>10, <1>11, <1>12,
     <1>13, <1>14, <1>15, <1>16, <1>17 DEF Next, ApplySteps, Postgres, Idle

-----------------------------------------------------------------------------
(* The protocol *)

\* Every step keeps deliveries, sessions and tables together: a row of job_seen
\* or of the counter is held by the running transaction that wrote it.
LEMMA ProtocolStep == TypeOK /\ Protocol /\ [Next]_vars => Protocol'
<1> SUFFICES ASSUME TypeOK, Protocol, [Next]_vars PROVE Protocol'
  OBVIOUS
<1>0. TypeOK'
  BY CounterTypeStep
<1> USE CounterAssumption
    DEF TypeOK, db, tally, Protocol, SessionFollowsDelivery, InsertIsExclusive,
        ClaimIsHeld, UpdateIsExclusive, UpdateIsHeld, CommitIsWhole, Counts,
        Repeats, CommittedIsSeen, SeenHasDelivery
<1>1. ASSUME NEW d \in Deliveries, Refuse(d) PROVE Protocol'
  BY <1>0, <1>1 DEF Refuse
<1>2. ASSUME NEW d \in Deliveries, Begin(d) PROVE Protocol'
  BY <1>0, <1>2 DEF Begin
<1>3. ASSUME NEW d \in Deliveries, NaiveClaims(d) PROVE Protocol'
  BY <1>0, <1>3 DEF NaiveClaims
<1>4. ASSUME NEW d \in Deliveries, InsertSent(d) PROVE Protocol'
  BY <1>0, <1>4 DEF InsertSent
<1>5. ASSUME NEW d \in Deliveries, InsertReturns(d) PROVE Protocol'
  <2>1. CASE srv[d] = "claimed"
    BY <1>0, <1>5, <2>1 DEF InsertReturns
  <2>2. CASE srv[d] = "duplicate"
    <3>1. Repeats(d)
      BY <1>5, <2>2 DEF Modes
    <3>2. /\ pc' = [pc EXCEPT ![d] = "commit"]
          /\ srv' = [srv EXCEPT ![d] = "committing"]
          /\ UNCHANGED <<mode, ev, db, got, tally>>
      BY <1>5, <2>2 DEF InsertReturns
    <3> QED
      BY <2>2, <3>1, <3>2
  <2> QED
    BY <1>5, <2>1, <2>2 DEF InsertReturns
<1>6. ASSUME NEW d \in Deliveries, UpdateSent(d) PROVE Protocol'
  BY <1>0, <1>6 DEF UpdateSent
<1>7. ASSUME NEW d \in Deliveries, UpdateReturns(d) PROVE Protocol'
  BY <1>0, <1>7 DEF UpdateReturns
<1>8. ASSUME NEW d \in Deliveries, CommitReturns(d) PROVE Protocol'
  BY <1>0, <1>8 DEF CommitReturns
<1>9. ASSUME NEW d \in Deliveries, CountDelivery(d) PROVE Protocol'
  BY <1>0, <1>9 DEF CountDelivery
<1>10. ASSUME NEW d \in Deliveries, NoteEvent(d) PROVE Protocol'
  BY <1>0, <1>10 DEF NoteEvent
<1>11. ASSUME NEW d \in Deliveries, StatementFails(d) PROVE Protocol'
  BY <1>0, <1>11 DEF StatementFails, Fails, Freed
<1>12. ASSUME NEW d \in Deliveries, ContextEnds(d) PROVE Protocol'
  BY <1>0, <1>12 DEF ContextEnds, Fails
<1>13. ASSUME NEW d \in Deliveries, InsertDecides(d) PROVE Protocol'
  <2>1. CASE ev[d] \in seen
    BY <1>0, <1>13, <2>1 DEF InsertDecides
  <2>2. CASE ev[d] \notin seen
    <3>1. /\ srv[d] = "inserting" /\ mode[d] = "idempotent"
          /\ inserting[ev[d]] = Nobody
          /\ srv' = [srv EXCEPT ![d] = "claimed"]
          /\ inserting' = [inserting EXCEPT ![ev[d]] = d]
          /\ UNCHANGED <<mode, ev, seen, total, rowLock, pc, got, tally>>
      BY <1>13, <2>2 DEF InsertDecides, Modes
    <3>2. \A c \in Deliveries : c # d => (inserting'[ev[c]] = c <=> inserting[ev[c]] = c)
      BY <3>1
    <3>3. SessionFollowsDelivery' /\ UpdateIsExclusive' /\ UpdateIsHeld'
          /\ CommittedIsSeen' /\ SeenHasDelivery'
      BY <3>1
    <3>4. InsertIsExclusive' /\ ClaimIsHeld'
      BY <2>2, <3>1, <3>2
    <3>5. CommitIsWhole'
      BY <3>1, <3>2
    <3> QED
      BY <3>3, <3>4, <3>5
  <2> QED
    BY <2>1, <2>2
<1>14. ASSUME NEW d \in Deliveries, UpdateApplies(d) PROVE Protocol'
  BY <1>0, <1>14 DEF UpdateApplies
<1>15. ASSUME NEW d \in Deliveries, Commits(d) PROVE Protocol'
  BY <1>0, <1>15 DEF Commits, Freed
<1>16. ASSUME NEW d \in Deliveries, SessionEnds(d) PROVE Protocol'
  BY <1>0, <1>16 DEF SessionEnds, Freed
<1>17. CASE UNCHANGED vars
  BY <1>17 DEF vars
<1> QED
  BY <1>1, <1>2, <1>3, <1>4, <1>5, <1>6, <1>7, <1>8, <1>9, <1>10, <1>11, <1>12,
     <1>13, <1>14, <1>15, <1>16, <1>17 DEF Next, ApplySteps, Postgres, Idle

-----------------------------------------------------------------------------
(* The counters *)

\* What a commit publishes: a naive delivery adds one; an idempotent one counts
\* its event for the first time, or nothing.
LEMMA CommitLemma ==
    ASSUME TypeOK, Protocol, NEW d \in Deliveries, Commits(d)
    PROVE  \/ /\ mode[d] = "naive" /\ seen' = seen
              /\ total' = [total EXCEPT !["naive"] = @ + 1]
           \/ /\ mode[d] = "idempotent" /\ ev[d] \in Events \ seen
              /\ seen' = seen \cup {ev[d]}
              /\ total' = [total EXCEPT !["idempotent"] = @ + 1]
           \/ mode[d] = "idempotent" /\ seen' = seen /\ total' = total
<1> USE DEF TypeOK, Protocol, Modes
<1>1. Counts(d) \/ Repeats(d)
  BY DEF Commits, CommitIsWhole
<1>2. \A m \in Modes : m # mode[d] => rowLock[m] # d
  BY DEF UpdateIsExclusive
<1>3. \A e \in Events : e # ev[d] => inserting[e] # d
  BY DEF InsertIsExclusive
<1>4. CASE Counts(d)
  <2>1. total' = [total EXCEPT ![mode[d]] = @ + 1]
    BY <1>2, <1>4 DEF Commits, Counts, UpdateIsExclusive
  <2>2. CASE mode[d] = "naive"
    <3>1. seen' = seen
      BY <2>2 DEF Commits, InsertIsExclusive
    <3> QED
      BY <2>1, <2>2, <3>1
  <2>3. CASE mode[d] = "idempotent"
    <3>1. ev[d] \in Events \ seen /\ seen' = seen \cup {ev[d]}
      BY <1>3, <1>4, <2>3 DEF Commits, Counts, InsertIsExclusive
    <3> QED
      BY <2>1, <2>3, <3>1
  <2> QED
    BY <2>2, <2>3
<1>5. CASE Repeats(d)
  <2>1. total' = total
    BY <1>2, <1>5 DEF Commits, Repeats
  <2>2. seen' = seen
    BY <1>3, <1>5 DEF Commits, Repeats
  <2> QED
    BY <1>5, <2>1, <2>2 DEF Repeats
<1> QED
  BY <1>1, <1>4, <1>5

\* What the counters are compared with are finite sets of deliveries.
LEMMA DeliverySetsAreFinite ==
    \A m : /\ IsFiniteSet(Committed(m)) /\ IsFiniteSet(Counted(m))
          /\ IsFiniteSet(Failed(m))
<1> TAKE m
<1>1. /\ Committed(m) \in SUBSET Deliveries
      /\ Counted(m) \in SUBSET Deliveries /\ Failed(m) \in SUBSET Deliveries
  BY DEF Committed, Counted, Failed
<1> QED
  BY <1>1, CounterAssumption, FS_Subset

\* Only a commit changes the tables, and it adds one delivery and one event, or
\* neither.
LEMMA TotalsStep ==
    TypeOK /\ Protocol /\ TotalsAreExact /\ [Next]_vars => TotalsAreExact'
<1> SUFFICES ASSUME TypeOK, Protocol, TotalsAreExact, [Next]_vars
             PROVE  TotalsAreExact'
  OBVIOUS
<1> USE DEF TypeOK
<1>1. ASSUME NEW d \in Deliveries, Commits(d) PROVE TotalsAreExact'
  <2>1. /\ UNCHANGED <<mode, events>> /\ srv[d] # "committed"
        /\ srv' = [srv EXCEPT ![d] = "committed"]
    BY <1>1 DEF Commits, tally
  <2>2. CASE mode[d] = "naive"
    <3>1. /\ Committed("naive")' = Committed("naive") \cup {d}
          /\ d \notin Committed("naive")
      BY <2>1, <2>2 DEF Committed
    <3>2. /\ total'["naive"] = total["naive"] + 1
          /\ total'["idempotent"] = total["idempotent"] /\ seen' = seen
      BY <1>1, <2>2, CommitLemma DEF Modes
    <3>3. IsFiniteSet(Committed("naive"))
      BY DeliverySetsAreFinite
    <3>4. Cardinality(Committed("naive") \cup {d}) = Cardinality(Committed("naive")) + 1
      BY <3>1, <3>3, FS_AddElement
    <3> QED
      BY <2>1, <3>1, <3>2, <3>4 DEF TotalsAreExact
  <2>3. CASE mode[d] = "idempotent"
    <3>1. Committed("naive")' = Committed("naive")
      BY <2>1, <2>3 DEF Committed
    <3>2. /\ total'["naive"] = total["naive"]
          /\ \/ total'["idempotent"] = total["idempotent"] /\ seen' = seen
             \/ /\ total'["idempotent"] = total["idempotent"] + 1
                /\ ev[d] \notin seen /\ seen' = seen \cup {ev[d]}
      BY <1>1, <2>3, CommitLemma DEF Modes
    <3>3. IsFiniteSet(seen)
      BY CounterAssumption, FS_Subset
    <3>4. Cardinality(seen') = total'["idempotent"]
      <4>1. ev[d] \notin seen => Cardinality(seen \cup {ev[d]}) = Cardinality(seen) + 1
        BY <3>3, FS_AddElement
      <4> QED
        BY <3>2, <4>1 DEF TotalsAreExact
    <3> QED
      BY <2>1, <3>1, <3>2, <3>4 DEF TotalsAreExact
  <2> QED
    BY <2>2, <2>3 DEF Modes
<1>2. ASSUME NEW d \in Deliveries, NoteEvent(d) PROVE TotalsAreExact'
  <2>1. mode[d] = "idempotent" => ev[d] \in seen
    BY <1>2 DEF NoteEvent, Protocol, SessionFollowsDelivery, CommittedIsSeen
  <2>2. Committed("naive")' = Committed("naive")
    BY <1>2 DEF NoteEvent, Committed
  <2> QED
    BY <1>2, <2>1, <2>2 DEF NoteEvent, db, TotalsAreExact, Modes
<1>3. ASSUME UNCHANGED <<mode, seen, total, events>>,
             \A d \in Deliveries : srv[d] = "committed" <=> srv'[d] = "committed"
      PROVE  TotalsAreExact'
  <2>1. Committed("naive")' = Committed("naive")
    BY <1>3 DEF Committed
  <2> QED
    BY <1>3, <2>1 DEF TotalsAreExact
<1>4. ASSUME NEW d \in Deliveries,
             \/ Refuse(d) \/ Begin(d) \/ NaiveClaims(d) \/ InsertSent(d)
             \/ InsertReturns(d) \/ UpdateSent(d) \/ UpdateReturns(d)
             \/ CommitReturns(d) \/ CountDelivery(d)
      PROVE  TotalsAreExact'
  <2>1. UNCHANGED <<mode, seen, total, events>>
    BY <1>4 DEF Refuse, Begin, NaiveClaims, InsertSent, InsertReturns, UpdateSent,
                UpdateReturns, CommitReturns, CountDelivery, db, tally
  <2>2. \/ srv' = srv
        \/ /\ srv[d] # "committed"
           /\ \E v \in Srv \ {"committed"} : srv' = [srv EXCEPT ![d] = v]
    BY <1>4 DEF Refuse, Begin, NaiveClaims, InsertSent, InsertReturns, UpdateSent,
                UpdateReturns, CommitReturns, CountDelivery, Protocol,
                SessionFollowsDelivery, Srv
  <2> QED
    BY <1>3, <2>1, <2>2
<1>5. ASSUME NEW d \in Deliveries,
             \/ StatementFails(d) \/ ContextEnds(d)
             \/ InsertDecides(d) \/ UpdateApplies(d) \/ SessionEnds(d)
      PROVE  TotalsAreExact'
  <2>1. UNCHANGED <<mode, seen, total, events>>
    BY <1>5 DEF StatementFails, ContextEnds, InsertDecides, UpdateApplies,
                SessionEnds, Fails, db, tally
  <2>2. \/ srv' = srv
        \/ /\ srv[d] # "committed"
           /\ \E v \in Srv \ {"committed"} : srv' = [srv EXCEPT ![d] = v]
    BY <1>5 DEF StatementFails, ContextEnds, InsertDecides, UpdateApplies,
                SessionEnds, Srv
  <2> QED
    BY <1>3, <2>1, <2>2
<1>6. CASE UNCHANGED vars
  BY <1>3, <1>6 DEF vars, db, tally
<1> QED
  BY <1>1, <1>2, <1>4, <1>5, <1>6 DEF Next, ApplySteps, Postgres, Idle

\* The adapter's tally: one delivery counted or failed per answered request.
LEMMA TallyStep ==
    TypeOK /\ TallyIsExact /\ [Next]_vars => TallyIsExact'
<1> SUFFICES ASSUME TypeOK, TallyIsExact, [Next]_vars PROVE TallyIsExact'
  OBVIOUS
<1> USE DEF TypeOK
<1>1. ASSUME NEW d \in Deliveries, CountDelivery(d) PROVE TallyIsExact'
  <2> SUFFICES ASSUME NEW m \in Modes
               PROVE  /\ deliveries'[m] = Cardinality(Counted(m)')
                      /\ failed'[m] = Cardinality(Failed(m)')
    BY DEF TallyIsExact
  <2>1. Failed(m)' = Failed(m) /\ failed' = failed
    BY <1>1 DEF CountDelivery, Failed
  <2>2. CASE m = mode[d]
    <3>1. Counted(m)' = Counted(m) \cup {d} /\ d \notin Counted(m)
      BY <1>1, <2>2 DEF CountDelivery, Counted
    <3>2. Cardinality(Counted(m) \cup {d}) = Cardinality(Counted(m)) + 1
      BY <3>1, FS_AddElement, DeliverySetsAreFinite
    <3> QED
      BY <1>1, <2>1, <2>2, <3>1, <3>2 DEF CountDelivery, TallyIsExact
  <2>3. CASE m # mode[d]
    <3>1. Counted(m)' = Counted(m)
      BY <1>1, <2>3 DEF CountDelivery, Counted
    <3> QED
      BY <1>1, <2>1, <2>3, <3>1 DEF CountDelivery, TallyIsExact
  <2> QED
    BY <2>2, <2>3
<1>2. ASSUME NEW d \in Deliveries, StatementFails(d) \/ ContextEnds(d)
      PROVE  TallyIsExact'
  <2> SUFFICES ASSUME NEW m \in Modes
               PROVE  /\ deliveries'[m] = Cardinality(Counted(m)')
                      /\ failed'[m] = Cardinality(Failed(m)')
    BY DEF TallyIsExact
  <2>1. /\ UNCHANGED <<mode, deliveries>> /\ Fails(d)
        /\ pc[d] \notin {"noted", "ok", "failed"}
    BY <1>2 DEF StatementFails, ContextEnds
  <2>2. Counted(m)' = Counted(m)
    BY <2>1 DEF Fails, Counted
  <2>3. CASE m = mode[d]
    <3>1. Failed(m)' = Failed(m) \cup {d} /\ d \notin Failed(m)
      BY <2>1, <2>3 DEF Fails, Failed
    <3>2. Cardinality(Failed(m) \cup {d}) = Cardinality(Failed(m)) + 1
      BY <3>1, FS_AddElement, DeliverySetsAreFinite
    <3> QED
      BY <2>1, <2>2, <2>3, <3>1, <3>2 DEF Fails, TallyIsExact
  <2>4. CASE m # mode[d]
    <3>1. Failed(m)' = Failed(m)
      BY <2>1, <2>4 DEF Fails, Failed
    <3> QED
      BY <2>1, <2>2, <2>4, <3>1 DEF Fails, TallyIsExact
  <2> QED
    BY <2>3, <2>4
<1>3. ASSUME UNCHANGED <<mode, deliveries, failed>>,
             \A d \in Deliveries :
                /\ pc[d] \in {"noted", "ok"} <=> pc'[d] \in {"noted", "ok"}
                /\ pc[d] = "failed" <=> pc'[d] = "failed"
      PROVE  TallyIsExact'
  <2>1. \A m \in Modes : Counted(m)' = Counted(m) /\ Failed(m)' = Failed(m)
    BY <1>3 DEF Counted, Failed
  <2> QED
    BY <1>3, <2>1 DEF TallyIsExact
<1>4. ASSUME NEW d \in Deliveries,
             \/ Refuse(d) \/ Begin(d) \/ NaiveClaims(d) \/ InsertSent(d)
             \/ InsertReturns(d) \/ UpdateSent(d) \/ UpdateReturns(d)
             \/ CommitReturns(d) \/ NoteEvent(d)
      PROVE  TallyIsExact'
  <2>1. UNCHANGED <<mode, deliveries, failed>>
    BY <1>4 DEF Refuse, Begin, NaiveClaims, InsertSent, InsertReturns, UpdateSent,
                UpdateReturns, CommitReturns, NoteEvent, tally
  <2>2. \/ /\ pc[d] = "noted" /\ pc' = [pc EXCEPT ![d] = "ok"]
        \/ /\ pc[d] \notin {"noted", "ok", "failed"}
           /\ \E v \in Pc \ {"noted", "ok", "failed"} : pc' = [pc EXCEPT ![d] = v]
    BY <1>4 DEF Refuse, Begin, NaiveClaims, InsertSent, InsertReturns, UpdateSent,
                UpdateReturns, CommitReturns, NoteEvent, Pc
  <2> QED
    BY <1>3, <2>1, <2>2
<1>5. ASSUME NEW d \in Deliveries, Postgres(d) PROVE TallyIsExact'
  <2>1. UNCHANGED <<mode, deliveries, failed, pc>>
    BY <1>5 DEF Postgres, InsertDecides, UpdateApplies, Commits, SessionEnds, tally
  <2> QED
    BY <1>3, <2>1
<1>6. CASE UNCHANGED vars
  BY <1>3, <1>6 DEF vars, tally
<1> QED
  BY <1>1, <1>2, <1>4, <1>5, <1>6 DEF Next, ApplySteps, Idle

\* Every step keeps the invariant.
LEMMA CounterStep == CounterInv /\ [Next]_vars => CounterInv'
  BY CounterTypeStep, ProtocolStep, TotalsStep, TallyStep DEF CounterInv

-----------------------------------------------------------------------------
(* What clients were told *)

\* The last part of ConfirmedIsCounted: an event counted and never confirmed
\* has a failed delivery, and different events have different ones.
LEMMA UnconfirmedHaveFailed ==
    ASSUME CounterInv, Quiescent
    PROVE  Cardinality(seen \ events["idempotent"]) <= failed["idempotent"]
<1> DEFINE T == seen \ events["idempotent"]
           F == Failed("idempotent")
           S == {d \in F : ev[d] \in T}
           f == [d \in S |-> ev[d]]
<1> USE DEF CounterInv, TypeOK
<1>1. ASSUME NEW e \in T PROVE \E d \in S : ev[d] = e
  <2>1. PICK d \in Deliveries :
            mode[d] = "idempotent" /\ ev[d] = e /\ srv[d] = "committed"
    BY <1>1 DEF Protocol, SeenHasDelivery
  <2>2. pc[d] # "ok"
    BY <1>1, <2>1 DEF Protocol, SeenHasDelivery
  <2>3. pc[d] # "refused"
    BY <2>1 DEF Protocol, SessionFollowsDelivery
  <2> QED
    BY <1>1, <2>1, <2>2, <2>3 DEF Quiescent, Failed
<1>2. IsFiniteSet(F) /\ S \in SUBSET F
  BY DeliverySetsAreFinite
<1>3. IsFiniteSet(S) /\ Cardinality(S) <= Cardinality(F)
  BY <1>2, FS_Subset
<1>4. f \in Surjection(S, T)
  BY <1>1 DEF Surjection
<1>5. IsFiniteSet(T) /\ Cardinality(T) <= Cardinality(S)
  BY <1>3, <1>4, FS_Surjection
<1>6. Cardinality(F) = failed["idempotent"]
  BY DEF TallyIsExact, Modes
<1>7. Cardinality(T) \in Nat /\ Cardinality(S) \in Nat /\ Cardinality(F) \in Nat
  BY <1>2, <1>3, <1>5, FS_CardinalityType
<1> HIDE DEF T, S, F
<1>8. Cardinality(T) <= failed["idempotent"]
  BY <1>3, <1>5, <1>6, <1>7
<1> QED
  BY <1>8 DEF T

\* The naive counter lies between the deliveries confirmed and those confirmed
\* or failed.
LEMMA NaiveIsBounded ==
    ASSUME CounterInv
    PROVE  /\ deliveries["naive"] <= total["naive"]
           /\ Quiescent => total["naive"] <= deliveries["naive"] + failed["naive"]
<1> DEFINE C == Committed("naive")
           D == Counted("naive")
           F == Failed("naive")
<1> USE DEF CounterInv, TypeOK
<1>1. /\ Cardinality(C) = total["naive"]
      /\ Cardinality(D) = deliveries["naive"] /\ Cardinality(F) = failed["naive"]
  BY DEF TotalsAreExact, TallyIsExact, Modes
<1>2. IsFiniteSet(C) /\ IsFiniteSet(D) /\ IsFiniteSet(F)
  BY DeliverySetsAreFinite
<1>3. D \in SUBSET C
  BY DEF Protocol, SessionFollowsDelivery, Committed, Counted
<1>4. Cardinality(D) <= Cardinality(C)
  BY <1>2, <1>3, FS_Subset
<1>5. ASSUME Quiescent PROVE Cardinality(C) <= Cardinality(D) + Cardinality(F)
  <2>1. C \in SUBSET (D \cup F)
    BY <1>5 DEF Quiescent, Protocol, SessionFollowsDelivery, Committed, Counted,
                Failed
  <2>2. D \cap F = {}
    BY DEF Counted, Failed
  <2>3. /\ IsFiniteSet(D \cup F)
        /\ Cardinality(D \cup F) = Cardinality(D) + Cardinality(F) - Cardinality(D \cap F)
    BY <1>2, FS_Union
  <2>4. Cardinality(C) <= Cardinality(D \cup F)
    BY <2>1, <2>3, FS_Subset
  <2>5. Cardinality(D \cap F) = 0
    BY <2>2, FS_EmptySet
  <2>6. Cardinality(C) \in Nat /\ Cardinality(D) \in Nat /\ Cardinality(F) \in Nat
    BY <1>2, FS_CardinalityType
  <2> HIDE DEF C, D, F
  <2> QED
    BY <2>3, <2>4, <2>5, <2>6
<1> HIDE DEF C, D, F
<1> QED
  BY <1>1, <1>4, <1>5

\* The invariant gives the property: the tables hold what clients were told.
LEMMA InvImpliesConfirmed == CounterInv => ConfirmedIsCounted
<1> SUFFICES ASSUME CounterInv PROVE ConfirmedIsCounted
  OBVIOUS
<1>1. total["idempotent"] = Cardinality(seen) /\ events["idempotent"] \subseteq seen
  BY DEF CounterInv, TotalsAreExact
<1> QED
  BY <1>1, UnconfirmedHaveFailed, NaiveIsBounded DEF ConfirmedIsCounted

-----------------------------------------------------------------------------
(* The theorems *)

\* The invariant holds in every state of every behaviour.
THEOREM CounterInvariant == Spec => []CounterInv
  BY CounterInit, CounterStep, PTL DEF Spec

\* Every variable keeps its type.
THEOREM CounterTypeCorrect == Spec => []TypeOK
<1>1. CounterInv => TypeOK
  BY DEF CounterInv
<1> QED
  BY <1>1, CounterInvariant, PTL

\* What core.Apply confirmed is in the tables, and no more than that and the
\* failures once all is answered.
THEOREM ConfirmedStays == Spec => []ConfirmedIsCounted
  BY InvImpliesConfirmed, CounterInvariant, PTL

\* A step of the counter counts one new event, or leaves the total alone.
LEMMA StepImplements ==
    ASSUME CounterInv, [Next]_vars
    PROVE  [Abstract!Next]_<<seen, total["idempotent"]>>
<1> USE DEF CounterInv, TypeOK
<1>1. ASSUME NEW d \in Deliveries, Commits(d)
      PROVE  [Abstract!Next]_<<seen, total["idempotent"]>>
  <2>1. \/ seen' = seen /\ total'["idempotent"] = total["idempotent"]
        \/ /\ ev[d] \in Events \ seen /\ seen' = seen \cup {ev[d]}
           /\ total'["idempotent"] = total["idempotent"] + 1
    BY <1>1, CommitLemma DEF Modes
  <2> QED
    BY <2>1 DEF Abstract!Next, Abstract!Count
<1>2. ASSUME NEW d \in Deliveries,
             \/ Refuse(d) \/ Begin(d) \/ ApplySteps(d)
             \/ StatementFails(d) \/ ContextEnds(d)
      PROVE  UNCHANGED <<seen, total["idempotent"]>>
  BY <1>2 DEF Refuse, Begin, ApplySteps, NaiveClaims, InsertSent, InsertReturns,
              UpdateSent, UpdateReturns, CommitReturns, CountDelivery, NoteEvent,
              StatementFails, ContextEnds, db
<1>3. ASSUME NEW d \in Deliveries,
             InsertDecides(d) \/ UpdateApplies(d) \/ SessionEnds(d)
      PROVE  UNCHANGED <<seen, total["idempotent"]>>
  BY <1>3 DEF InsertDecides, UpdateApplies, SessionEnds
<1>4. CASE UNCHANGED vars
  BY <1>4 DEF vars, db
<1> QED
  BY <1>1, <1>2, <1>3, <1>4 DEF Next, Postgres, Idle

\* The idempotent strategy implements the abstract counter of ExactlyOnce:
\* every event is counted at most once, whatever is delivered again, waits for
\* another's insert, fails or is abandoned.
THEOREM CountsExactlyOnce == Spec => ImplementsExactlyOnce
<1>1. Init => Abstract!Init
  BY DEF Init, Abstract!Init, Modes
<1> QED
  BY <1>1, StepImplements, CounterInvariant, PTL
     DEF Spec, ImplementsExactlyOnce, Abstract!Spec

-----------------------------------------------------------------------------
(* The counter as the adapter run.ts serves among the four *)

servedVars == <<vars, lesson, statsVars, cacheOnly, pipelineOnly, sqliteOnly>>

\* The counter's invariant, in behaviours that serve the counter.
LEMMA ServedCounterInvariant == LessonsSpec => [](lesson = "counter" => CounterInv)
<1>1. LessonsInit => (lesson = "counter" => CounterInv)
  BY CounterInit DEF LessonsInit
<1>2. (lesson = "counter" => CounterInv) /\ [LessonsNext]_servedVars
        => (lesson = "counter" => CounterInv)'
  <2> SUFFICES ASSUME lesson = "counter" => CounterInv, [LessonsNext]_servedVars,
                      lesson' = "counter"
               PROVE  CounterInv'
    OBVIOUS
  <2>1. lesson = "counter"
    BY DEF LessonsNext, ServeCounter, ServeCacheAside, ServePipelining,
           ServeSqliteWal, servedVars
  <2>2. [Next]_vars
    BY <2>1 DEF LessonsNext, ServeCounter, ServeCacheAside, ServePipelining,
                ServeSqliteWal, servedVars
  <2> QED
    BY <2>1, <2>2, CounterStep
<1> QED
  BY <1>1, <1>2, PTL DEF LessonsSpec, servedVars

\* What the counter's clients were told is in its tables.
THEOREM ServedConfirmedStays == LessonsSpec => []CounterConfirmedIsCounted
<1>1. (lesson = "counter" => CounterInv) => CounterConfirmedIsCounted
  BY InvImpliesConfirmed DEF CounterConfirmedIsCounted
<1> QED
  BY <1>1, ServedCounterInvariant, PTL

\* Whichever lesson is served, the counter's tables change as ExactlyOnce says.
THEOREM ServedCountsExactlyOnce == LessonsSpec => ImplementsExactlyOnce
<1>1. LessonsInit => Abstract!Init
  BY DEF LessonsInit, Init, CounterOff, Abstract!Init, Modes
<1>2. (lesson = "counter" => CounterInv) /\ [LessonsNext]_servedVars
        => [Abstract!Next]_<<seen, total["idempotent"]>>
  <2> SUFFICES ASSUME lesson = "counter" => CounterInv, [LessonsNext]_servedVars
               PROVE  [Abstract!Next]_<<seen, total["idempotent"]>>
    OBVIOUS
  <2>1. CASE ServeCounter
    BY <2>1, StepImplements DEF ServeCounter
  <2>2. CASE ServeCacheAside \/ ServePipelining \/ ServeSqliteWal
    BY <2>2 DEF ServeCacheAside, ServePipelining, ServeSqliteWal, counterOnly
  <2>3. CASE UNCHANGED servedVars
    BY <2>3 DEF servedVars, vars, db
  <2> QED
    BY <2>1, <2>2, <2>3 DEF LessonsNext
<1> QED
  BY <1>1, <1>2, ServedCounterInvariant, PTL
     DEF LessonsSpec, servedVars, ImplementsExactlyOnce, Abstract!Spec

-----------------------------------------------------------------------------
(* The sqlite-wal-lab adapter.  Its pool is warm for good, so no request     *)
(* reads the schema under a pending writer, and a set-up that fails was      *)
(* abandoned by its client.  The /stats report is compared with the writes   *)
(* outside its window, whose outcome does not change while it is written.    *)

SqlitePc == {"new", "conn", "prepare", "exec", "write", "note", "done"}
SqliteStatsPc == {"new", "snapshot", "ok", "failed", "done", "erred"}
Outcomes == {"none", "ok", "locked", "failed"}

SqliteTypeOK ==
    /\ mode \in {"DELETE", "WAL"}
    /\ rows \in Nat /\ ok \in Nat /\ locked \in Nat /\ failed \in Nat
    /\ pc \in [Deliveries -> SqlitePc] /\ outcome \in [Deliveries -> Outcomes]
    /\ cancelled \subseteq Deliveries /\ window \subseteq Deliveries
    /\ statsPc \in SqliteStatsPc
    /\ report \in [rows : Nat, snapshot : Nat, ok : Nat, failed : Nat]

\* warm left nothing to open: no connection is ever a cold one.
PoolStaysWarm == cold = {} /\ unopened = 0

\* The snapshot is established before the first write, and keeps DELETE mode's
\* commits out.
SnapshotIsHeld ==
    /\ view = 0 /\ report.snapshot = 0
    /\ mode = "DELETE" => rows = 0

\* The outcome is known once the insert has returned, and it is a failure just
\* when the client has gone.
OutcomeFollowsInsert ==
    \A w \in Deliveries :
        /\ pc[w] \notin {"note", "done"} => outcome[w] = "none" /\ w \notin cancelled
        /\ pc[w] = "note" => (outcome[w] = "failed" <=> w \in cancelled)
        /\ outcome[w] = "failed" => w \in cancelled

With(o) == {w \in Deliveries : outcome[w] = o}
NotedOk == {w \in Deliveries : pc[w] = "done" /\ outcome[w] = "ok"}
NotedFailed == {w \in Deliveries : pc[w] = "done" /\ w \in cancelled}

CountersAreExact ==
    /\ ok = Cardinality(NotedOk) /\ failed = Cardinality(NotedFailed)
    /\ Cardinality(With("ok")) <= rows
    /\ rows <= Cardinality(With("ok")) + Cardinality(With("failed"))

\* While /stats reads, what is outside its window is not in flight; the rows it
\* has counted are those of the writes outside, and some of the window's.
ReportIsClose ==
    LET okOutside == Cardinality(With("ok") \ window)
        failedOutside == Cardinality(With("failed") \ window)
    IN  /\ statsPc \in {"snapshot", "ok", "failed"} =>
            /\ \A w \in Deliveries \ window : pc[w] \in {"new", "done"}
            /\ okOutside <= report.rows
            /\ report.rows <= okOutside + failedOutside + Cardinality(window)
        /\ statsPc = "failed" =>
            /\ okOutside <= report.ok
            /\ report.ok <= okOutside + Cardinality(window)
        /\ statsPc = "done" =>
            /\ report.ok <= report.rows + Cardinality(window)
            /\ report.rows <= report.ok + Cardinality(window) + report.failed

SqliteInv ==
    /\ SqliteTypeOK
    /\ PoolStaysWarm
    /\ SnapshotIsHeld
    /\ OutcomeFollowsInsert
    /\ CountersAreExact
    /\ ReportIsClose

\* What a step of a write does to the outcomes and the counters: nothing; the
\* set-up is abandoned; the insert returns; the handler notes the outcome.
Elsewhere(w) ==
    \A v \in Deliveries \ {w} : pc'[v] = pc[v] /\ outcome'[v] = outcome[v]

Proceeds(w) ==
    /\ pc'[w] # "note" /\ (pc'[w] = "done" => pc[w] = "new")
    /\ pc[w] \notin {"note", "done"}
    /\ UNCHANGED <<outcome, cancelled, rows, ok, failed>>

SetUpAbandoned(w) ==
    /\ pc[w] \in {"conn", "prepare"} /\ pc'[w] = "done"
    /\ cancelled' = cancelled \cup {w}
    /\ failed' = failed + 1
    /\ UNCHANGED <<outcome, rows, ok>>

InsertReturned(w) ==
    /\ pc[w] \in {"exec", "write"} /\ pc'[w] = "note"
    /\ \/ outcome'[w] = "ok" /\ rows' = rows + 1 /\ cancelled' = cancelled
       \/ outcome'[w] = "locked" /\ rows' = rows /\ cancelled' = cancelled
       \/ outcome'[w] = "failed" /\ rows' \in {rows, rows + 1} /\ cancelled' = cancelled \cup {w}
    /\ UNCHANGED <<ok, failed>>

OutcomeNoted(w) ==
    /\ pc[w] = "note" /\ pc'[w] = "done"
    /\ \/ outcome[w] = "ok" /\ ok' = ok + 1 /\ failed' = failed
       \/ outcome[w] = "locked" /\ ok' = ok /\ failed' = failed
       \/ outcome[w] = "failed" /\ ok' = ok /\ failed' = failed + 1
       \/ outcome[w] = "none" /\ ok' = ok /\ failed' = failed
    /\ UNCHANGED <<outcome, cancelled, rows>>

WriteMoves(w) ==
    /\ Elsewhere(w)
    /\ Proceeds(w) \/ SetUpAbandoned(w) \/ InsertReturned(w) \/ OutcomeNoted(w)
    /\ UNCHANGED <<statsPc, report>>
    /\ \/ window' = window
       \/ pc[w] = "new" /\ window' = window \cup {w} /\ statsPc \notin {"done"}
    /\ pc[w] = "new" => pc'[w] = "done" \/ w \in window' \/ statsPc \in {"new", "done", "erred"}

SqliteWrites(w) ==
    \/ SqliteWal!Refuse(w) \/ SqliteWal!Start(w) \/ SqliteWal!GetConn(w)
    \/ SqliteWal!Prepare(w) \/ SqliteWal!SetUpFails(w) \/ SqliteWal!BeginWrite(w)
    \/ SqliteWal!WaitForReaders(w) \/ SqliteWal!Commit(w)
    \/ SqliteWal!BusyTimeout(w) \/ SqliteWal!Interrupted(w) \/ SqliteWal!Note(w)

SqliteCore == SqliteTypeOK /\ PoolStaysWarm /\ SnapshotIsHeld /\ OutcomeFollowsInsert

\* No step of a write opens a connection, passes the reader in DELETE mode, or
\* fails without its client having gone.
LEMMA SqliteWriteStep ==
    ASSUME SqliteCore, NEW w \in Deliveries, SqliteWrites(w)
    PROVE  SqliteCore' /\ WriteMoves(w)
<1> USE DEF SqliteCore, SqliteTypeOK, SqlitePc, SqliteStatsPc, Outcomes, PoolStaysWarm,
            SnapshotIsHeld, OutcomeFollowsInsert, WriteMoves, Elsewhere,
            SqliteWal!Goto, SqliteWal!file, SqliteWal!pool, SqliteWal!counters,
            SqliteWal!stats
<1>1. CASE SqliteWal!Refuse(w)
  BY <1>1 DEF SqliteWal!Refuse, Proceeds
<1>2. CASE SqliteWal!Start(w)
  BY <1>2 DEF SqliteWal!Start, SqliteWal!Reading, Proceeds
<1>3. CASE SqliteWal!GetConn(w)
  BY <1>3 DEF SqliteWal!GetConn, Proceeds
<1>4. CASE SqliteWal!Prepare(w)
  BY <1>4 DEF SqliteWal!Prepare, Proceeds
<1>5. CASE SqliteWal!SetUpFails(w)
  BY <1>5 DEF SqliteWal!SetUpFails, SqliteWal!PutConn, SetUpAbandoned
<1>6. CASE SqliteWal!BeginWrite(w)
  BY <1>6 DEF SqliteWal!BeginWrite, Proceeds
<1>7. CASE SqliteWal!WaitForReaders(w)
  BY <1>7 DEF SqliteWal!WaitForReaders, Proceeds
<1>8. CASE SqliteWal!Commit(w)
  BY <1>8 DEF SqliteWal!Commit, SqliteWal!ExecReturns, SqliteWal!PutConn,
              SqliteWal!ReaderInTheWay, SqliteWal!NoView, InsertReturned
<1>9. CASE SqliteWal!BusyTimeout(w)
  BY <1>9 DEF SqliteWal!BusyTimeout, SqliteWal!ExecReturns, SqliteWal!PutConn,
              InsertReturned
<1>10. CASE SqliteWal!Interrupted(w)
  <2>1. /\ \/ pc[w] = "exec" /\ rows' = rows
           \/ pc[w] = "write" /\ rows' = rows
           \/ pc[w] = "write" /\ mode # "DELETE" /\ rows' = rows + 1
        /\ pc' = [pc EXCEPT ![w] = "note"]
        /\ outcome' = [outcome EXCEPT ![w] = "failed"]
        /\ cancelled' = cancelled \cup {w}
        /\ cold' = cold \ {w} /\ unopened' = unopened
        /\ UNCHANGED <<mode, view, ok, locked, failed, statsPc, report, window>>
    <3> USE DEF SqliteWal!ExecReturns, SqliteWal!PutConn
    <3>1. CASE SqliteWal!ExecReturns(w, "exec", "failed") /\ rows' = rows
      BY <1>10, <3>1 DEF SqliteWal!Interrupted
    <3>2. CASE SqliteWal!ExecReturns(w, "write", "failed") /\ rows' = rows
      BY <1>10, <3>2 DEF SqliteWal!Interrupted
    <3>3. CASE /\ ~SqliteWal!ReaderInTheWay
               /\ SqliteWal!ExecReturns(w, "write", "failed") /\ rows' = rows + 1
      <4>1. mode # "DELETE"
        BY <3>3 DEF SqliteWal!ReaderInTheWay, SqliteWal!NoView
      <4> QED
        BY <1>10, <3>3, <4>1 DEF SqliteWal!Interrupted
    <3> QED
      BY <1>10, <3>1, <3>2, <3>3 DEF SqliteWal!Interrupted
  <2>2. WriteMoves(w)
    BY <2>1 DEF InsertReturned
  <2>3. SqliteTypeOK' /\ PoolStaysWarm' /\ SnapshotIsHeld'
    BY <2>1
  <2>4. OutcomeFollowsInsert'
    BY <2>1
  <2> QED
    BY <2>2, <2>3, <2>4
<1>11. CASE SqliteWal!Note(w)
  BY <1>11 DEF SqliteWal!Note, OutcomeNoted
<1> QED
  BY <1>1, <1>2, <1>3, <1>4, <1>5, <1>6, <1>7, <1>8, <1>9, <1>10, <1>11 DEF SqliteWrites

\* The sets of writes that the counters and the report are compared with.
LEMMA WriteSetsAreFinite ==
    ASSUME SqliteTypeOK
    PROVE  /\ \A o : IsFiniteSet(With(o)) /\ IsFiniteSet(With(o) \ window)
           /\ IsFiniteSet(NotedOk) /\ IsFiniteSet(NotedFailed)
           /\ IsFiniteSet(window) /\ IsFiniteSet(cancelled)
<1>1. /\ \A o : With(o) \in SUBSET Deliveries /\ With(o) \ window \in SUBSET Deliveries
      /\ NotedOk \in SUBSET Deliveries /\ NotedFailed \in SUBSET Deliveries
      /\ window \in SUBSET Deliveries /\ cancelled \in SUBSET Deliveries
  BY DEF SqliteTypeOK, With, NotedOk, NotedFailed
<1>2. \A T \in SUBSET Deliveries : IsFiniteSet(T)
  BY FS_Subset, CounterAssumption
<1> QED
  BY <1>1, <1>2

\* Adding one write to a set of them adds one to its size.
LEMMA OneMore ==
    ASSUME NEW S \in SUBSET Deliveries, NEW w \in Deliveries \ S
    PROVE  /\ IsFiniteSet(S) /\ Cardinality(S) \in Nat
           /\ Cardinality(S \cup {w}) = Cardinality(S) + 1
<1>1. IsFiniteSet(S)
  BY FS_Subset, CounterAssumption
<1> QED
  BY <1>1, FS_CardinalityType, FS_AddElement

\* A step of a write keeps the counters equal to what they count, and the rows
\* between the confirmed writes and those that may have been applied.
LEMMA SqliteCountersStep ==
    ASSUME SqliteCore, SqliteCore', CountersAreExact, NEW w \in Deliveries, WriteMoves(w)
    PROVE  CountersAreExact'
<1> USE DEF SqliteCore, SqliteTypeOK, CountersAreExact
<1>0. /\ With("ok") \in SUBSET Deliveries /\ With("failed") \in SUBSET Deliveries
      /\ NotedOk \in SUBSET Deliveries /\ NotedFailed \in SUBSET Deliveries
      /\ Cardinality(With("ok")) \in Nat /\ Cardinality(With("failed")) \in Nat
  BY WriteSetsAreFinite, FS_CardinalityType DEF With, NotedOk, NotedFailed
<1> USE DEF WriteMoves, Elsewhere, OutcomeFollowsInsert
<1>1. CASE Proceeds(w)
  <2>1. /\ With("ok")' = With("ok") /\ With("failed")' = With("failed")
        /\ NotedOk' = NotedOk /\ NotedFailed' = NotedFailed
    BY <1>1 DEF Proceeds, With, NotedOk, NotedFailed
  <2> QED
    BY <1>1, <2>1 DEF Proceeds
<1>2. CASE SetUpAbandoned(w)
  <2>1. /\ With("ok")' = With("ok") /\ With("failed")' = With("failed")
        /\ NotedOk' = NotedOk
    BY <1>2 DEF SetUpAbandoned, With, NotedOk
  <2>2. w \notin NotedFailed /\ NotedFailed' = NotedFailed \cup {w}
    BY <1>2 DEF SetUpAbandoned, NotedFailed
  <2>3. Cardinality(NotedFailed') = Cardinality(NotedFailed) + 1
    BY <1>0, <2>2, OneMore
  <2> QED
    BY <1>2, <2>1, <2>3 DEF SetUpAbandoned
<1>3. CASE InsertReturned(w)
  <2>1. NotedOk' = NotedOk /\ NotedFailed' = NotedFailed
    BY <1>3 DEF InsertReturned, NotedOk, NotedFailed
  <2>2. w \notin With("ok") /\ w \notin With("failed")
    BY <1>3 DEF InsertReturned, With
  <2>3. /\ Cardinality(With("ok") \cup {w}) = Cardinality(With("ok")) + 1
        /\ Cardinality(With("failed") \cup {w}) = Cardinality(With("failed")) + 1
    BY <1>0, <2>2, OneMore
  <2>4. CASE outcome'[w] = "ok"
    <3>1. With("ok")' = With("ok") \cup {w} /\ With("failed")' = With("failed")
      BY <1>3, <2>4 DEF InsertReturned, With
    <3>2. rows' = rows + 1 /\ UNCHANGED <<ok, failed>>
      BY <1>3, <2>4 DEF InsertReturned
    <3>3. /\ Cardinality(With("ok"))' = Cardinality(With("ok")) + 1
          /\ Cardinality(With("failed"))' = Cardinality(With("failed"))
      BY <2>3, <3>1
    <3>4. /\ Cardinality(With("ok"))' <= rows'
          /\ rows' <= Cardinality(With("ok"))' + Cardinality(With("failed"))'
      BY <1>0, <3>2, <3>3
    <3> QED
      BY <2>1, <3>2, <3>4
  <2>5. CASE outcome'[w] = "locked"
    <3>1. With("ok")' = With("ok") /\ With("failed")' = With("failed")
      BY <1>3, <2>5 DEF InsertReturned, With
    <3>2. rows' = rows /\ UNCHANGED <<ok, failed>>
      BY <1>3, <2>5 DEF InsertReturned
    <3> QED
      BY <1>0, <2>1, <3>1, <3>2
  <2>6. CASE outcome'[w] = "failed"
    <3>1. With("ok")' = With("ok") /\ With("failed")' = With("failed") \cup {w}
      BY <1>3, <2>6 DEF InsertReturned, With
    <3>2. rows' \in {rows, rows + 1} /\ UNCHANGED <<ok, failed>>
      BY <1>3, <2>6 DEF InsertReturned
    <3>3. /\ Cardinality(With("ok"))' = Cardinality(With("ok"))
          /\ Cardinality(With("failed"))' = Cardinality(With("failed")) + 1
      BY <2>3, <3>1
    <3>4. /\ Cardinality(With("ok"))' <= rows'
          /\ rows' <= Cardinality(With("ok"))' + Cardinality(With("failed"))'
      BY <1>0, <3>2, <3>3
    <3> QED
      BY <2>1, <3>2, <3>4
  <2> QED
    BY <1>3, <2>4, <2>5, <2>6 DEF InsertReturned
<1>4. CASE OutcomeNoted(w)
  <2>1. With("ok")' = With("ok") /\ With("failed")' = With("failed") /\ rows' = rows
    BY <1>4 DEF OutcomeNoted, With
  <2>2. w \notin NotedOk /\ w \notin NotedFailed
    BY <1>4 DEF OutcomeNoted, NotedOk, NotedFailed
  <2>3. /\ Cardinality(NotedOk \cup {w}) = Cardinality(NotedOk) + 1
        /\ Cardinality(NotedFailed \cup {w}) = Cardinality(NotedFailed) + 1
    BY <1>0, <2>2, OneMore
  <2>4. CASE outcome[w] = "ok"
    <3>1. NotedOk' = NotedOk \cup {w} /\ NotedFailed' = NotedFailed
      BY <1>4, <2>4 DEF OutcomeNoted, NotedOk, NotedFailed
    <3>2. ok' = ok + 1 /\ failed' = failed
      BY <1>4, <2>4 DEF OutcomeNoted
    <3> QED
      BY <2>1, <2>3, <3>1, <3>2
  <2>5. CASE outcome[w] = "failed"
    <3>1. NotedOk' = NotedOk /\ NotedFailed' = NotedFailed \cup {w}
      BY <1>4, <2>5 DEF OutcomeNoted, NotedOk, NotedFailed
    <3>2. ok' = ok /\ failed' = failed + 1
      BY <1>4, <2>5 DEF OutcomeNoted
    <3> QED
      BY <2>1, <2>3, <3>1, <3>2
  <2>6. CASE outcome[w] \in {"locked", "none"}
    <3>1. NotedOk' = NotedOk /\ NotedFailed' = NotedFailed
      BY <1>4, <2>6 DEF OutcomeNoted, NotedOk, NotedFailed
    <3>2. ok' = ok /\ failed' = failed
      BY <1>4, <2>6 DEF OutcomeNoted
    <3> QED
      BY <2>1, <3>1, <3>2
  <2> QED
    BY <2>4, <2>5, <2>6 DEF Outcomes
<1> QED
  BY <1>1, <1>2, <1>3, <1>4

\* A step of a write leaves the writes outside the window of a report that is
\* being written alone.
LEMMA SqliteReportStep ==
    ASSUME SqliteCore, SqliteCore', ReportIsClose, NEW w \in Deliveries, WriteMoves(w)
    PROVE  ReportIsClose'
<1> USE DEF SqliteCore, SqliteTypeOK, WriteMoves
<1>1. CASE statsPc \in {"snapshot", "ok", "failed"}
  <2>1. \A v \in Deliveries \ window : pc[v] \in {"new", "done"}
    BY <1>1 DEF ReportIsClose
  <2>2. \A v \in Deliveries \ window' : pc'[v] \in {"new", "done"}
    BY <1>1, <2>1 DEF Elsewhere, Proceeds, SetUpAbandoned, InsertReturned, OutcomeNoted
  <2>3. /\ With("ok")' \ window' = With("ok") \ window
        /\ With("failed")' \ window' = With("failed") \ window
    <3>1. w \in window' \/ outcome'[w] = outcome[w]
      BY <2>1 DEF Proceeds, SetUpAbandoned, InsertReturned, OutcomeNoted
    <3>2. w \in window' \ window => outcome[w] = "none"
      BY DEF OutcomeFollowsInsert
    <3> QED
      BY <3>1, <3>2, <2>1 DEF With, Elsewhere
  <2>4. window \subseteq window' /\ IsFiniteSet(window) /\ IsFiniteSet(window')
    BY WriteSetsAreFinite, FS_AddElement
  <2>5. /\ Cardinality(window) <= Cardinality(window')
        /\ Cardinality(window) \in Nat /\ Cardinality(window') \in Nat
    BY <2>4, FS_Subset, FS_CardinalityType
  <2>6. /\ Cardinality(With("ok") \ window) \in Nat
        /\ Cardinality(With("failed") \ window) \in Nat
    BY WriteSetsAreFinite, FS_CardinalityType
  <2>7. UNCHANGED <<statsPc, report>>
    OBVIOUS
  <2>8. report.rows \in Nat /\ report.ok \in Nat
    OBVIOUS
  <2>9. /\ Cardinality(With("ok") \ window)' = Cardinality(With("ok") \ window)
        /\ Cardinality(With("failed") \ window)' = Cardinality(With("failed") \ window)
    BY <2>3
  <2>10. /\ Cardinality(With("ok") \ window)' <= report'.rows
         /\ report'.rows <= Cardinality(With("ok") \ window)'
                                + Cardinality(With("failed") \ window)' + Cardinality(window)'
    BY <1>1, <2>5, <2>6, <2>7, <2>8, <2>9 DEF ReportIsClose
  <2>11. statsPc = "failed" =>
            /\ Cardinality(With("ok") \ window)' <= report'.ok
            /\ report'.ok <= Cardinality(With("ok") \ window)' + Cardinality(window)'
    BY <2>5, <2>6, <2>7, <2>8, <2>9 DEF ReportIsClose
  <2> QED
    BY <1>1, <2>2, <2>7, <2>10, <2>11 DEF ReportIsClose
<1>2. CASE statsPc = "done"
  BY <1>2 DEF ReportIsClose
<1>3. CASE statsPc \in {"new", "erred"}
  BY <1>3 DEF ReportIsClose
<1> QED
  BY <1>1, <1>2, <1>3 DEF SqliteStatsPc

\* Two finite sets of writes have together no more members than their sizes add
\* up to, and just as many when they are disjoint.
LEMMA Together ==
    ASSUME NEW S \in SUBSET Deliveries, NEW T \in SUBSET Deliveries
    PROVE  /\ IsFiniteSet(S) /\ Cardinality(S) \in Nat
           /\ IsFiniteSet(T) /\ Cardinality(T) \in Nat
           /\ Cardinality(S \cup T) \in Nat
           /\ Cardinality(S \cup T) <= Cardinality(S) + Cardinality(T)
           /\ S \cap T = {} => Cardinality(S \cup T) = Cardinality(S) + Cardinality(T)
           /\ S \subseteq T => Cardinality(S) <= Cardinality(T)
<1>1. IsFiniteSet(S) /\ IsFiniteSet(T) /\ IsFiniteSet(S \cup T) /\ IsFiniteSet(S \cap T)
  BY FS_Subset, CounterAssumption, S \cup T \in SUBSET Deliveries,
     S \cap T \in SUBSET Deliveries
<1>2. /\ Cardinality(S) \in Nat /\ Cardinality(T) \in Nat
      /\ Cardinality(S \cup T) \in Nat /\ Cardinality(S \cap T) \in Nat
  BY <1>1, FS_CardinalityType
<1>3. Cardinality(S \cup T) = Cardinality(S) + Cardinality(T) - Cardinality(S \cap T)
  BY <1>1, FS_Union
<1>4. S \cap T = {} => Cardinality(S \cap T) = 0
  BY FS_EmptySet
<1>5. S \subseteq T => Cardinality(S) <= Cardinality(T)
  BY <1>1, FS_Subset
<1> QED
  BY <1>1, <1>2, <1>3, <1>4, <1>5

SqliteStats ==
    SqliteWal!StatsCounts \/ SqliteWal!StatsAsksSnapshot \/ SqliteWal!StatsLoads

\* The steps of /stats take no part in the writes.
LEMMA SqliteStatsStep ==
    ASSUME SqliteInv, SqliteStats
    PROVE  SqliteInv'
<1> USE DEF SqliteInv, SqliteTypeOK, SqliteWal!file, SqliteWal!pool, SqliteWal!counters,
            SqliteStatsPc
<1>1. /\ UNCHANGED <<mode, rows, view, cold, unopened, pc, outcome, cancelled, ok, locked,
                     failed>>
      /\ SqliteTypeOK' /\ report'.snapshot = 0
  <2>1. CASE SqliteWal!StatsCounts
    BY <2>1 DEF SqliteWal!StatsCounts, SqliteWal!InFlight, SnapshotIsHeld
  <2>2. CASE SqliteWal!StatsAsksSnapshot
    <3>1. view = 0 /\ view' = 0
      BY <2>2 DEF SqliteWal!StatsAsksSnapshot, SqliteWal!NoView, SnapshotIsHeld
    <3>2. report' = [report EXCEPT !.snapshot = 0] /\ statsPc' \in {"ok", "erred"}
      BY <2>2, <3>1 DEF SqliteWal!StatsAsksSnapshot
    <3> QED
      BY <2>2, <3>1, <3>2 DEF SqliteWal!StatsAsksSnapshot
  <2>3. CASE SqliteWal!StatsLoads
    BY <2>3 DEF SqliteWal!StatsLoads, SnapshotIsHeld
  <2> QED
    BY <2>1, <2>2, <2>3 DEF SqliteStats
<1>2. PoolStaysWarm' /\ SnapshotIsHeld' /\ OutcomeFollowsInsert'
  BY <1>1 DEF PoolStaysWarm, SnapshotIsHeld, OutcomeFollowsInsert
<1>3. /\ With("ok")' = With("ok") /\ With("failed")' = With("failed")
      /\ NotedOk' = NotedOk /\ NotedFailed' = NotedFailed
  BY <1>1 DEF With, NotedOk, NotedFailed
<1>4. CountersAreExact'
  BY <1>1, <1>3 DEF CountersAreExact
<1> DEFINE Ok == With("ok")
           Failed_ == With("failed")
<1>5. Ok \in SUBSET Deliveries /\ Failed_ \in SUBSET Deliveries /\ Ok \cap Failed_ = {}
  BY DEF With
<1>6. ReportIsClose'
  <2>1. CASE SqliteWal!StatsCounts
    <3> DEFINE W == window'
               O == Ok \ W
               F == Failed_ \ W
    <3>1. /\ statsPc' \in {"snapshot", "erred"} /\ report'.rows = rows
          /\ W \in SUBSET Deliveries
          /\ \A v \in Deliveries \ W : pc[v] \in {"new", "done"}
      BY <2>1 DEF SqliteWal!StatsCounts, SqliteWal!InFlight
    <3>2. O \in SUBSET Deliveries /\ F \in SUBSET Deliveries /\ (F \cup W) \in SUBSET Deliveries
      BY <1>5, <3>1
    <3>3. /\ Cardinality(O) \in Nat /\ Cardinality(O) <= Cardinality(Ok)
          /\ Cardinality(Ok) \in Nat
      BY <1>5, <3>2, Together
    <3>4. Cardinality(Ok \cup Failed_) = Cardinality(Ok) + Cardinality(Failed_)
      BY <1>5, Together
    <3>5. Cardinality(Ok \cup Failed_) <= Cardinality(O \cup (F \cup W))
      <4>1. Ok \cup Failed_ \subseteq O \cup (F \cup W)
        OBVIOUS
      <4> QED
        BY <1>5, <3>1, <3>2, <4>1, Together
    <3>6. /\ Cardinality(O \cup (F \cup W)) <= Cardinality(O) + Cardinality(F \cup W)
          /\ Cardinality(F \cup W) <= Cardinality(F) + Cardinality(W)
          /\ Cardinality(O \cup (F \cup W)) \in Nat /\ Cardinality(F \cup W) \in Nat
          /\ Cardinality(F) \in Nat /\ Cardinality(W) \in Nat /\ Cardinality(Failed_) \in Nat
      BY <1>5, <3>1, <3>2, Together
    <3>7. Cardinality(Ok) <= rows /\ rows <= Cardinality(Ok) + Cardinality(Failed_)
      BY DEF CountersAreExact
    <3>8. rows \in Nat
      OBVIOUS
    <3>9. Cardinality(O) <= rows /\ rows <= Cardinality(O) + Cardinality(F) + Cardinality(W)
      <4> HIDE DEF Ok, Failed_, O, F, W, SqliteInv
      <4> QED
        BY <3>3, <3>4, <3>5, <3>6, <3>7, <3>8
    <3>10. O = (With("ok") \ window)' /\ F = (With("failed") \ window)'
      BY <1>3
    <3> HIDE DEF O, F
    <3> QED
      BY <1>1, <3>1, <3>9, <3>10 DEF ReportIsClose
  <2>2. CASE SqliteWal!StatsAsksSnapshot
    <3>1. /\ statsPc = "snapshot" /\ statsPc' \in {"ok", "erred"} /\ window' = window
          /\ report'.rows = report.rows
      BY <2>2 DEF SqliteWal!StatsAsksSnapshot
    <3> QED
      BY <1>1, <1>3, <3>1 DEF ReportIsClose
  <2>3. CASE SqliteWal!StatsLoads
    <3> DEFINE O == Ok \ window
               F == Failed_ \ window
    <3>1. window' = window /\ report'.rows = report.rows
      BY <2>3 DEF SqliteWal!StatsLoads
    <3>2. /\ O \in SUBSET Deliveries /\ F \in SUBSET Deliveries
          /\ NotedOk \in SUBSET Deliveries /\ NotedFailed \in SUBSET Deliveries
      BY DEF With, NotedOk, NotedFailed
    <3>3. ok = Cardinality(NotedOk) /\ failed = Cardinality(NotedFailed)
      BY DEF CountersAreExact
    <3>4. /\ Cardinality(O) \in Nat /\ Cardinality(F) \in Nat /\ Cardinality(window) \in Nat
      BY <3>2, Together
    <3>5. O = (With("ok") \ window)' /\ F = (With("failed") \ window)'
      BY <1>3, <3>1
    <3>6. CASE statsPc = "ok"
      <4>1. statsPc' = "failed" /\ report'.ok = ok
        BY <2>3, <3>6 DEF SqliteWal!StatsLoads
      <4>2. /\ \A v \in Deliveries \ window : pc[v] \in {"new", "done"}
            /\ Cardinality(O) <= report.rows
            /\ report.rows <= Cardinality(O) + Cardinality(F) + Cardinality(window)
        BY <3>6 DEF ReportIsClose
      <4>3. O \subseteq NotedOk /\ NotedOk \subseteq O \cup window
        BY <4>2 DEF With, NotedOk, OutcomeFollowsInsert
      <4>4. /\ Cardinality(O) <= Cardinality(NotedOk)
            /\ Cardinality(NotedOk) <= Cardinality(O \cup window)
            /\ Cardinality(O \cup window) <= Cardinality(O) + Cardinality(window)
            /\ Cardinality(NotedOk) \in Nat /\ Cardinality(O \cup window) \in Nat
        <5>1. O \cup window \in SUBSET Deliveries
          BY <3>2
        <5> QED
          BY <3>2, <4>3, <5>1, Together
      <4>5. Cardinality(O) <= ok /\ ok <= Cardinality(O) + Cardinality(window)
        <5> HIDE DEF O
        <5> QED
          BY <3>3, <3>4, <4>4
      <4> HIDE DEF O, F
      <4> QED
        BY <1>1, <3>1, <3>5, <4>1, <4>2, <4>5 DEF ReportIsClose
    <3>7. CASE statsPc = "failed"
      <4>1. statsPc' = "done" /\ report'.ok = report.ok /\ report'.failed = failed
        BY <2>3, <3>7 DEF SqliteWal!StatsLoads
      <4>2. /\ \A v \in Deliveries \ window : pc[v] \in {"new", "done"}
            /\ Cardinality(O) <= report.rows
            /\ report.rows <= Cardinality(O) + Cardinality(F) + Cardinality(window)
            /\ Cardinality(O) <= report.ok
            /\ report.ok <= Cardinality(O) + Cardinality(window)
        BY <3>7 DEF ReportIsClose
      <4>3. F \subseteq NotedFailed
        BY <4>2 DEF With, NotedFailed, OutcomeFollowsInsert
      <4>4. Cardinality(F) <= failed
        BY <3>2, <3>3, <4>3, Together
      <4>5. report.ok \in Nat /\ report.rows \in Nat /\ failed \in Nat
        OBVIOUS
      <4>6. /\ report.ok <= report.rows + Cardinality(window)
            /\ report.rows <= report.ok + Cardinality(window) + failed
        <5> HIDE DEF O, F, SqliteInv
        <5> QED
          BY <3>4, <4>2, <4>4, <4>5
      <4> HIDE DEF O, F
      <4> QED
        BY <3>1, <4>1, <4>6 DEF ReportIsClose
    <3> QED
      BY <2>3, <3>6, <3>7 DEF SqliteWal!StatsLoads
  <2> QED
    BY <2>1, <2>2, <2>3 DEF SqliteStats
<1> QED
  BY <1>1, <1>2, <1>4, <1>6

\* Seeded schema, warm pool, held snapshot and no request.
LEMMA SqliteInit == SqliteWal!Init => SqliteInv
<1> SUFFICES ASSUME SqliteWal!Init PROVE SqliteInv
  OBVIOUS
<1> USE DEF SqliteWal!Init, SqliteWal!OpenSnapshot, SqliteWal!Warm
<1>1. SqliteTypeOK
  BY DEF SqliteTypeOK, SqlitePc, SqliteStatsPc, Outcomes
<1>2. PoolStaysWarm
  BY CounterAssumption DEF PoolStaysWarm
<1>3. SnapshotIsHeld /\ OutcomeFollowsInsert /\ ReportIsClose
  BY DEF SnapshotIsHeld, OutcomeFollowsInsert, ReportIsClose
<1>4. With("ok") = {} /\ With("failed") = {} /\ NotedOk = {} /\ NotedFailed = {}
  BY DEF With, NotedOk, NotedFailed
<1> QED
  <2>1. Cardinality({}) = 0
    BY FS_EmptySet
  <2>2. rows = 0 /\ ok = 0 /\ failed = 0
    OBVIOUS
  <2>3. CountersAreExact
    <3> HIDE DEF SqliteWal!Init
    <3> QED
      BY <1>4, <2>1, <2>2 DEF CountersAreExact
  <2> QED
    BY <1>1, <1>2, <1>3, <2>3 DEF SqliteInv

\* Every step of the adapter keeps the invariant.
LEMMA SqliteStep ==
    ASSUME SqliteInv, SqliteWal!Next \/ UNCHANGED SqliteWal!vars
    PROVE  SqliteInv'
<1>1. ASSUME NEW w \in Deliveries, SqliteWrites(w)
      PROVE  SqliteInv'
  <2>1. SqliteCore' /\ WriteMoves(w)
    BY <1>1, SqliteWriteStep DEF SqliteInv, SqliteCore
  <2> QED
    BY <2>1, SqliteCountersStep, SqliteReportStep DEF SqliteInv, SqliteCore
<1>2. CASE UNCHANGED SqliteWal!vars
  BY <1>2 DEF SqliteInv, SqliteTypeOK, PoolStaysWarm, SnapshotIsHeld,
              OutcomeFollowsInsert, CountersAreExact, ReportIsClose, With, NotedOk,
              NotedFailed, SqliteWal!vars, SqliteWal!file, SqliteWal!pool,
              SqliteWal!counters, SqliteWal!stats
<1> QED
  BY <1>1, <1>2, SqliteStatsStep
     DEF SqliteWal!Next, SqliteWal!Idle, SqliteStats, SqliteWrites

\* The adapter's invariant, in behaviours that serve sqlite-wal-lab.
LEMMA ServedSqliteInvariant == LessonsSpec => [](lesson = "sqlite" => SqliteInv)
<1>1. LessonsInit => (lesson = "sqlite" => SqliteInv)
  BY SqliteInit DEF LessonsInit
<1>2. (lesson = "sqlite" => SqliteInv) /\ [LessonsNext]_servedVars
        => (lesson = "sqlite" => SqliteInv)'
  <2> SUFFICES ASSUME lesson = "sqlite" => SqliteInv, [LessonsNext]_servedVars,
                      lesson' = "sqlite"
               PROVE  SqliteInv'
    OBVIOUS
  <2>1. lesson = "sqlite"
    BY DEF LessonsNext, ServeCounter, ServeCacheAside, ServePipelining,
           ServeSqliteWal, servedVars
  <2>2. SqliteWal!Next \/ UNCHANGED SqliteWal!vars
    BY <2>1 DEF LessonsNext, ServeCounter, ServeCacheAside, ServePipelining,
                ServeSqliteWal, servedVars, vars, tally, statsVars, sqliteOnly,
                SqliteWal!vars, SqliteWal!file, SqliteWal!pool, SqliteWal!counters,
                SqliteWal!stats
  <2> QED
    BY <2>1, <2>2, SqliteStep
<1> QED
  BY <1>1, <1>2, PTL DEF LessonsSpec, servedVars

\* The reader that open began keeps its view: /stats finds the seed rows in it,
\* and in DELETE mode no insert commits.
THEOREM ReaderIsUndisturbed == LessonsSpec => []ReaderKeepsItsView
<1>1. (lesson = "sqlite" => SqliteInv) => ReaderKeepsItsView
  BY DEF ReaderKeepsItsView, SqliteWal!ReaderKeepsItsView, SqliteInv, SnapshotIsHeld
<1> QED
  BY <1>1, ServedSqliteInvariant, PTL

\* SqliteWal counts with the Cardinality of its own FiniteSets, which is ours.
LEMMA SqliteCounts == \A S : SqliteWal!Cardinality(S) = Cardinality(S)
  BY DEF SqliteWal!Cardinality, Cardinality, SqliteWal!IsFiniteSet, IsFiniteSet

\* However writers and readers meet, only a write whose client has gone fails:
\* the warm pool leaves no set-up that would wait for a lock.
THEOREM OnlyTheAbandonedFail == LessonsSpec => []ContentionNeverFails
<1>1. SqliteInv => failed <= Cardinality(cancelled)
  <2> SUFFICES ASSUME SqliteInv PROVE failed <= Cardinality(cancelled)
    OBVIOUS
  <2>1. /\ NotedFailed \in SUBSET Deliveries /\ cancelled \in SUBSET Deliveries
        /\ NotedFailed \subseteq cancelled
    BY DEF SqliteInv, SqliteTypeOK, NotedFailed
  <2> QED
    BY <2>1, Together DEF SqliteInv, CountersAreExact
<1>2. (lesson = "sqlite" => SqliteInv) => ContentionNeverFails
  BY <1>1, SqliteCounts DEF ContentionNeverFails, SqliteWal!ContentionNeverFails
<1> QED
  BY <1>2, ServedSqliteInvariant, PTL

\* Rows and answers of sqlite-wal-lab agree, in the tables at any time and in a
\* report up to the writes of its window and the failed ones.
THEOREM RowsStayAccounted ==
    LessonsSpec => [](lesson = "sqlite" => SqliteWal!RowsAreAccounted)
<1>1. SqliteInv => SqliteWal!RowsAreAccounted
  <2> SUFFICES ASSUME SqliteInv PROVE SqliteWal!RowsAreAccounted
    OBVIOUS
  <2>1. /\ NotedOk \in SUBSET Deliveries /\ With("ok") \in SUBSET Deliveries
        /\ NotedOk \subseteq With("ok") /\ window \in SUBSET Deliveries
    BY DEF SqliteInv, SqliteTypeOK, NotedOk, With
  <2>2. /\ Cardinality(NotedOk) <= Cardinality(With("ok")) /\ Cardinality(NotedOk) \in Nat
        /\ Cardinality(With("ok")) \in Nat /\ Cardinality(window) \in Nat
    BY <2>1, Together
  <2>3. /\ ok = Cardinality(NotedOk) /\ Cardinality(With("ok")) <= rows /\ rows \in Nat
        /\ report.rows \in Nat /\ report.ok \in Nat /\ report.failed \in Nat
    BY DEF SqliteInv, SqliteTypeOK, CountersAreExact
  <2>4. ok <= rows
    BY <2>2, <2>3
  <2>5. ASSUME statsPc = "done"
        PROVE  report.rows - report.ok \in (-Cardinality(window))..
                                             (Cardinality(window) + report.failed)
    BY <2>2, <2>3, <2>5 DEF SqliteInv, ReportIsClose
  <2> QED
    BY <2>4, <2>5, SqliteCounts DEF SqliteWal!RowsAreAccounted
<1>2. (lesson = "sqlite" => SqliteInv) => (lesson = "sqlite" => SqliteWal!RowsAreAccounted)
  BY <1>1
<1> QED
  BY <1>2, ServedSqliteInvariant, PTL

-----------------------------------------------------------------------------
(* cache-aside: the invariant *)

CachePc ==
    {"new", "get", "query", "set", "read", "served", "miss"} \cup CacheAside!Answered
CacheStatsPc == {"new", "served", "hits", "misses", "redundant", "done", "failed"}

CacheTypeOK ==
    /\ cached \in SUBSET Events /\ expiries \in Nat /\ of \in [Deliveries -> Events]
    /\ pc \in [Deliveries -> CachePc]
    /\ source \in [Deliveries -> {"none", "cache", "postgres"}]
    /\ clock \in Nat /\ start \in [Deliveries -> Nat] /\ end \in [Deliveries -> Nat]
    /\ lastMissEnd \in [Events -> Nat]
    /\ served \in Nat /\ hits \in Nat /\ misses \in Nat /\ redundant \in Nat /\ failed \in Nat
    /\ statsPc \in CacheStatsPc /\ window \in SUBSET Deliveries
    /\ report \in [served : Nat, hits : Nat, misses : Nat, redundant : Nat]

\* The source is known exactly once ReadProfile has returned, and no time is
\* ahead of the clock.
ReadsInOrder ==
    \A r \in Deliveries :
        /\ pc[r] \in {"read", "served", "miss", "ok"} <=> source[r] # "none"
        /\ pc[r] = "miss" => source[r] = "postgres"
        /\ start[r] <= clock /\ end[r] <= clock

From(src) == {r \in Deliveries : source[r] = src}
Served == {r \in Deliveries : pc[r] \in {"served", "miss", "ok"}}
Hit == {r \in Deliveries : pc[r] = "ok" /\ source[r] = "cache"}
Missed == {r \in Deliveries : pc[r] \in {"miss", "ok"} /\ source[r] = "postgres"}
Booked == {r \in Deliveries : pc[r] = "ok" /\ source[r] = "postgres"}

\* The handler's counters count reads.
CacheCountersAreExact ==
    /\ served = Cardinality(Served)
    /\ hits = Cardinality(Hit)
    /\ misses = Cardinality(Missed)

\* While /stats loads its counters, a read outside its window has not started or
\* has its answer: what it has loaded differs from the settled reads by no more
\* than the window.
CacheReportIsClose ==
    /\ statsPc \in {"served", "hits", "misses", "redundant"} =>
        \A r \in Deliveries \ window : pc[r] \in {"new"} \cup CacheAside!Answered
    /\ statsPc \in {"hits", "misses", "redundant"} =>
        /\ Cardinality(Served \ window) <= report.served
        /\ report.served <= Cardinality(Served \ window) + Cardinality(window)
    /\ statsPc = "misses" =>
        /\ Cardinality(Hit \ window) <= report.hits
        /\ report.hits <= Cardinality(From("cache"))
    /\ statsPc = "redundant" =>
        /\ Cardinality(Served \ window) <= report.hits + report.misses
        /\ report.hits + report.misses <= Cardinality(Served \ window) + Cardinality(window)
        /\ Cardinality(Booked \ window) <= report.misses
    /\ statsPc = "done" =>
        /\ report.served <= report.hits + report.misses + Cardinality(window)
        /\ report.hits + report.misses <= report.served + Cardinality(window)
        /\ report.redundant <= report.misses + Cardinality(window)

-----------------------------------------------------------------------------
(* cache-aside: what happened to the keys *)

\* A read that has found its key missing and has not failed.
HasMissed(r) == pc[r] \in {"query", "set"} \/ source[r] = "postgres"

\* log lists the profiles whose keys expired; last[p] is the latest expiry of p,
\* and before[r] the latest one of its profile before r found the key missing.
\* A fill is followed by an expiry before the next read misses.
FillsAreSeparated(log, last, before) ==
    /\ log \in [1..expiries -> Events] /\ last \in [Events -> 0..expiries]
    /\ before \in [Deliveries -> 0..expiries]
    /\ \A p \in Events : last[p] > 0 => log[last[p]] = p
    /\ \A r \in Deliveries :
        /\ before[r] <= last[of[r]]
        /\ before[r] > 0 => log[before[r]] = of[r]
        /\ source[r] = "postgres" /\ of[r] \notin cached => before[r] < last[of[r]]
    /\ \A r, s \in Deliveries :
        source[r] = "postgres" /\ HasMissed(s) /\ of[r] = of[s] /\ end[r] <= start[s]
            => before[r] < before[s]

\* fresh are the booked misses that were not called redundant: no two of a
\* profile overlap, and every booked profile has one.
FreshDoNotOverlap(fresh) ==
    /\ fresh \subseteq Booked /\ Cardinality(fresh) + redundant = Cardinality(Booked)
    /\ \A r \in fresh : end[r] <= lastMissEnd[of[r]]
    /\ \A r, s \in fresh :
        r # s /\ of[r] = of[s] => end[r] <= start[s] \/ end[s] <= start[r]
    /\ \A r \in Booked : \E s \in fresh : of[s] = of[r]
    /\ \A p \in Events : lastMissEnd[p] > 0 => \E s \in fresh : of[s] = p

KeysHaveHistory == \E log, last, before : FillsAreSeparated(log, last, before)
MissesAreSorted == \E fresh : FreshDoNotOverlap(fresh)

CacheInv ==
    /\ CacheTypeOK /\ ReadsInOrder /\ CacheCountersAreExact /\ CacheReportIsClose
    /\ KeysHaveHistory /\ MissesAreSorted

-----------------------------------------------------------------------------
(* cache-aside: the invariant is inductive *)

CacheReads(r) ==
    \/ CacheAside!Refuse(r) \/ CacheAside!Start(r) \/ CacheAside!GetHits(r)
    \/ CacheAside!GetMisses(r) \/ CacheAside!QueryReturns(r) \/ CacheAside!SetReturns(r)
    \/ CacheAside!ReadFails(r) \/ CacheAside!CountServed(r) \/ CacheAside!CountHit(r)
    \/ CacheAside!CountMiss(r) \/ CacheAside!BookMiss(r)

\* What the reports see of a step of read r: it moves alone, learns its source at
\* most once, and is in the window if it is under way while /stats loads.
ReadMoves(r) ==
    /\ UNCHANGED <<of, statsPc, report>>
    /\ \A s \in Deliveries \ {r} : pc'[s] = pc[s] /\ source'[s] = source[s]
    /\ source'[r] = source[r] \/ source[r] = "none"
    /\ \/ pc[r] = "new" /\ pc'[r] = "refused" /\ window' = window
       \/ /\ pc[r] = "new" /\ pc'[r] = "get"
          /\ window' = IF CacheAside!Loading THEN window \cup {r} ELSE window
       \/ pc[r] \notin {"new"} \cup CacheAside!Answered /\ window' = window

\* Every step of a read keeps the types and the order of its times.
LEMMA CacheReadStep ==
    ASSUME CacheTypeOK, ReadsInOrder, NEW r \in Deliveries, CacheReads(r)
    PROVE  CacheTypeOK' /\ ReadsInOrder' /\ ReadMoves(r)
<1> USE DEF CacheTypeOK, ReadsInOrder, ReadMoves, CachePc, CacheStatsPc,
            CacheAside!Goto, CacheAside!Answered, CacheAside!store, CacheAside!times,
            CacheAside!counters, CacheAside!stats
<1>1. CASE CacheAside!Refuse(r)
  BY <1>1 DEF CacheAside!Refuse
<1>2. CASE CacheAside!Start(r)
  BY <1>2 DEF CacheAside!Start
<1>3. CASE CacheAside!GetHits(r)
  BY <1>3 DEF CacheAside!GetHits, CacheAside!Returns
<1>4. CASE CacheAside!GetMisses(r)
  BY <1>4 DEF CacheAside!GetMisses
<1>5. CASE CacheAside!QueryReturns(r)
  BY <1>5 DEF CacheAside!QueryReturns
<1>6. CASE CacheAside!SetReturns(r)
  BY <1>6 DEF CacheAside!SetReturns, CacheAside!Returns
<1>7. CASE CacheAside!ReadFails(r)
  BY <1>7 DEF CacheAside!ReadFails
<1>8. CASE CacheAside!CountServed(r)
  BY <1>8 DEF CacheAside!CountServed
<1>9. CASE CacheAside!CountHit(r)
  BY <1>9 DEF CacheAside!CountHit
<1>10. CASE CacheAside!CountMiss(r)
  BY <1>10 DEF CacheAside!CountMiss
<1>11. CASE CacheAside!BookMiss(r)
  BY <1>11 DEF CacheAside!BookMiss
<1> QED
  BY <1>1, <1>2, <1>3, <1>4, <1>5, <1>6, <1>7, <1>8, <1>9, <1>10, <1>11 DEF CacheReads

\* Every counter moves with the read it counts.
LEMMA CacheCountersStep ==
    ASSUME CacheTypeOK, ReadsInOrder, CacheCountersAreExact,
           NEW r \in Deliveries, CacheReads(r)
    PROVE  CacheCountersAreExact'
<1>1. ReadMoves(r) /\ CacheTypeOK'
  BY CacheReadStep
<1>2. Served \in SUBSET Deliveries /\ Hit \in SUBSET Deliveries /\ Missed \in SUBSET Deliveries
  BY DEF Served, Hit, Missed
<1> USE DEF CacheTypeOK, ReadsInOrder, CacheAside!Goto, CacheAside!Answered,
            CacheAside!counters, Served, Hit, Missed, CachePc
<1>3. CASE CacheAside!CountServed(r)
  <2>1. /\ r \notin Served /\ Served' = Served \cup {r} /\ Hit' = Hit /\ Missed' = Missed
        /\ served' = served + 1 /\ hits' = hits /\ misses' = misses
    BY <1>3 DEF CacheAside!CountServed
  <2> HIDE DEF Served, Hit, Missed
  <2> QED
    BY <1>2, <2>1, OneMore DEF CacheCountersAreExact
<1>4. CASE CacheAside!CountHit(r)
  <2>1. /\ r \notin Hit /\ Hit' = Hit \cup {r} /\ Served' = Served /\ Missed' = Missed
        /\ served' = served /\ hits' = hits + 1 /\ misses' = misses
    BY <1>4 DEF CacheAside!CountHit
  <2> HIDE DEF Served, Hit, Missed
  <2> QED
    BY <1>2, <2>1, OneMore DEF CacheCountersAreExact
<1>5. CASE CacheAside!CountMiss(r)
  <2>1. /\ r \notin Missed /\ Missed' = Missed \cup {r} /\ Served' = Served /\ Hit' = Hit
        /\ served' = served /\ hits' = hits /\ misses' = misses + 1
    BY <1>5 DEF CacheAside!CountMiss
  <2> HIDE DEF Served, Hit, Missed
  <2> QED
    BY <1>2, <2>1, OneMore DEF CacheCountersAreExact
<1>6. ASSUME UNCHANGED <<served, hits, misses>>, Served' = Served, Hit' = Hit, Missed' = Missed
      PROVE  CacheCountersAreExact'
  <2> HIDE DEF Served, Hit, Missed
  <2> QED
    BY <1>6 DEF CacheCountersAreExact
<1>7. CASE CacheAside!BookMiss(r)
  BY <1>6, <1>7 DEF CacheAside!BookMiss
<1>8. CASE CacheAside!Refuse(r) \/ CacheAside!Start(r)
  BY <1>6, <1>8 DEF CacheAside!Refuse, CacheAside!Start
<1>9. CASE CacheAside!GetHits(r) \/ CacheAside!GetMisses(r)
  BY <1>6, <1>9 DEF CacheAside!GetHits, CacheAside!GetMisses, CacheAside!Returns
<1>10. CASE CacheAside!QueryReturns(r) \/ CacheAside!SetReturns(r)
  BY <1>6, <1>10 DEF CacheAside!QueryReturns, CacheAside!SetReturns, CacheAside!Returns
<1>11. CASE CacheAside!ReadFails(r)
  BY <1>6, <1>11 DEF CacheAside!ReadFails
<1> QED
  BY <1>3, <1>4, <1>5, <1>7, <1>8, <1>9, <1>10, <1>11 DEF CacheReads

\* A step of a read leaves the settled reads alone and only widens the window.
LEMMA CacheReportStep ==
    ASSUME CacheTypeOK, ReadsInOrder, CacheReportIsClose,
           NEW r \in Deliveries, ReadMoves(r), CacheTypeOK'
    PROVE  CacheReportIsClose'
<1> USE DEF CacheTypeOK, CacheStatsPc
<1>1. CASE CacheAside!Loading
  <2>1. /\ window \subseteq window' /\ window' \in SUBSET Deliveries
        /\ statsPc' = statsPc /\ report' = report
    BY DEF ReadMoves
  <2>2. statsPc \in {"served", "hits", "misses", "redundant"}
    BY <1>1 DEF CacheAside!Loading
  <2>3. \A s \in Deliveries \ window : pc[s] \in {"new"} \cup CacheAside!Answered
    BY <2>2 DEF CacheReportIsClose
  <2>4. \A s \in Deliveries \ window' : pc'[s] \in {"new"} \cup CacheAside!Answered
    BY <1>1, <2>3 DEF ReadMoves, CacheAside!Answered
  <2>5. /\ (Served \ window)' = Served \ window
        /\ (Hit \ window)' = Hit \ window
        /\ (Booked \ window)' = Booked \ window
    BY <1>1, <2>3 DEF ReadMoves, CacheAside!Answered, Served, Hit, Booked, ReadsInOrder
  <2>6. From("cache") \subseteq From("cache")' /\ From("cache")' \in SUBSET Deliveries
    BY DEF ReadMoves, From
  <2>7. /\ Cardinality(window) <= Cardinality(window') /\ Cardinality(window) \in Nat
        /\ Cardinality(window') \in Nat
        /\ Cardinality(From("cache")) <= Cardinality(From("cache")')
        /\ Cardinality(From("cache")) \in Nat /\ Cardinality(From("cache")') \in Nat
    BY <2>1, <2>6, Together
  <2>8. Cardinality(Served \ window) \in Nat
    BY Together DEF Served
  <2>9. report.served \in Nat /\ report.hits \in Nat /\ report.misses \in Nat
    OBVIOUS
  <2> DEFINE Settled == Cardinality(Served \ window)
             HitOut == Cardinality(Hit \ window)
             BookedOut == Cardinality(Booked \ window)
  <2>10. Settled' = Settled /\ HitOut' = HitOut /\ BookedOut' = BookedOut /\ Settled \in Nat
    BY <2>5, <2>8
  <2> HIDE DEF CacheTypeOK, Settled, HitOut, BookedOut
  <2>11. statsPc \in {"hits", "misses", "redundant"} =>
            Settled' <= report'.served /\ report'.served <= Settled' + Cardinality(window')
    BY <2>1, <2>7, <2>9, <2>10 DEF CacheReportIsClose, Settled
  <2>12. statsPc = "misses" =>
            HitOut' <= report'.hits /\ report'.hits <= Cardinality(From("cache")')
    BY <2>1, <2>7, <2>9, <2>10 DEF CacheReportIsClose, HitOut
  <2>13. statsPc = "redundant" =>
            /\ Settled' <= report'.hits + report'.misses
            /\ report'.hits + report'.misses <= Settled' + Cardinality(window')
            /\ BookedOut' <= report'.misses
    BY <2>1, <2>7, <2>9, <2>10 DEF CacheReportIsClose, Settled, BookedOut
  <2> QED
    BY <2>1, <2>2, <2>4, <2>11, <2>12, <2>13 DEF CacheReportIsClose, Settled, HitOut, BookedOut
<1>2. CASE ~CacheAside!Loading
  BY <1>2 DEF ReadMoves, CacheAside!Loading, CacheReportIsClose
<1> QED
  BY <1>1, <1>2

\* A read that finds its key missing is labelled with the latest expiry of its
\* profile, which is later than every fill that had returned when it started.
LEMMA HistoryReadStep ==
    ASSUME CacheTypeOK, ReadsInOrder, KeysHaveHistory, NEW r \in Deliveries, CacheReads(r)
    PROVE  KeysHaveHistory'
<1> USE DEF CacheTypeOK, ReadsInOrder
<1>1. PICK log, last, before : FillsAreSeparated(log, last, before)
  BY DEF KeysHaveHistory
<1>0. /\ log \in [1..expiries -> Events] /\ last \in [Events -> 0..expiries]
      /\ before \in [Deliveries -> 0..expiries]
      /\ \A p \in Events : last[p] > 0 => log[last[p]] = p
  BY <1>1 DEF FillsAreSeparated
<1>2. CASE CacheAside!GetMisses(r)
  <2>0. PICK labelled : labelled = [before EXCEPT ![r] = last[of[r]]]
    OBVIOUS
  <2>1. /\ pc[r] = "get" /\ of[r] \notin cached /\ pc' = [pc EXCEPT ![r] = "query"]
        /\ UNCHANGED <<cached, expiries, of, source, start, end>>
    BY <1>2 DEF CacheAside!GetMisses, CacheAside!Goto, CacheAside!store, CacheAside!times
  <2>2. source[r] = "none"
    BY <2>1
  <2>3. /\ labelled \in [Deliveries -> 0..expiries] /\ labelled[r] = last[of[r]]
        /\ \A s \in Deliveries \ {r} : labelled[s] = before[s]
    BY <1>0, <2>0
  <2>4. \A s \in Deliveries :
            /\ labelled[s] <= last[of[s]]
            /\ labelled[s] > 0 => log[labelled[s]] = of[s]
            /\ source[s] = "postgres" /\ of[s] \notin cached => labelled[s] < last[of[s]]
    <3> TAKE s \in Deliveries
    <3>1. CASE s = r
      BY <1>0, <2>2, <2>3, <3>1
    <3>2. CASE s # r
      BY <1>1, <2>3, <3>2 DEF FillsAreSeparated
    <3> QED
      BY <3>1, <3>2
  <2>5. \A s, t \in Deliveries :
            source[s] = "postgres" /\ HasMissed(t)' /\ of[s] = of[t] /\ end[s] <= start[t]
                => labelled[s] < labelled[t]
    <3> TAKE s, t \in Deliveries
    <3>1. t # r => (HasMissed(t)' => HasMissed(t))
      BY <2>1 DEF HasMissed
    <3>2. source[s] = "postgres" => s # r
      BY <2>2
    <3>3. CASE t = r
      BY <1>1, <2>1, <2>3, <3>2, <3>3 DEF FillsAreSeparated
    <3>4. CASE t # r
      BY <1>1, <2>3, <3>1, <3>2, <3>4 DEF FillsAreSeparated
    <3> QED
      BY <3>3, <3>4
  <2>6. FillsAreSeparated(log, last, labelled)'
    BY <1>0, <2>1, <2>3, <2>4, <2>5 DEF FillsAreSeparated
  <2> QED
    BY <2>6 DEF KeysHaveHistory
<1>3. CASE CacheAside!SetReturns(r)
  <2>1. /\ pc[r] = "set" /\ pc' = [pc EXCEPT ![r] = "read"]
        /\ cached' = cached \cup {of[r]} /\ source' = [source EXCEPT ![r] = "postgres"]
        /\ end' = [end EXCEPT ![r] = clock + 1]
        /\ UNCHANGED <<expiries, of, start>>
    BY <1>3 DEF CacheAside!SetReturns, CacheAside!Returns, CacheAside!Goto
  <2>2. \A s \in Deliveries :
            source'[s] = "postgres" /\ of[s] \notin cached' => before[s] < last[of[s]]
    BY <1>1, <2>1 DEF FillsAreSeparated
  <2>3. \A s, t \in Deliveries :
            source'[s] = "postgres" /\ HasMissed(t)' /\ of[s] = of[t] /\ end'[s] <= start[t]
                => before[s] < before[t]
    <3> TAKE s, t \in Deliveries
    <3>1. HasMissed(t)' => HasMissed(t)
      BY <2>1 DEF HasMissed
    <3>2. s = r => ~(end'[s] <= start[t])
      BY <2>1
    <3>3. s # r => source'[s] = source[s] /\ end'[s] = end[s]
      BY <2>1
    <3> QED
      BY <1>1, <3>1, <3>2, <3>3 DEF FillsAreSeparated
  <2>4. FillsAreSeparated(log, last, before)'
    BY <1>0, <1>1, <2>1, <2>2, <2>3 DEF FillsAreSeparated
  <2> QED
    BY <2>4 DEF KeysHaveHistory
<1>4. CASE CacheAside!Start(r)
  <2>1. /\ pc[r] = "new" /\ pc' = [pc EXCEPT ![r] = "get"]
        /\ start' = [start EXCEPT ![r] = clock]
        /\ UNCHANGED <<cached, expiries, of, source, end>>
    BY <1>4 DEF CacheAside!Start, CacheAside!Goto, CacheAside!store
  <2>2. source[r] = "none"
    BY <2>1
  <2>3. FillsAreSeparated(log, last, before)'
    BY <1>1, <2>1, <2>2 DEF FillsAreSeparated, HasMissed
  <2> QED
    BY <2>3 DEF KeysHaveHistory
<1>5. CASE CacheAside!GetHits(r)
  <2>1. /\ pc[r] = "get" /\ pc' = [pc EXCEPT ![r] = "read"]
        /\ source' = [source EXCEPT ![r] = "cache"]
        /\ end' = [end EXCEPT ![r] = clock + 1]
        /\ UNCHANGED <<cached, expiries, of, start>>
    BY <1>5 DEF CacheAside!GetHits, CacheAside!Returns, CacheAside!Goto, CacheAside!store
  <2>2. source[r] = "none"
    BY <2>1
  <2>3. FillsAreSeparated(log, last, before)'
    BY <1>1, <2>1, <2>2 DEF FillsAreSeparated, HasMissed
  <2> QED
    BY <2>3 DEF KeysHaveHistory
<1>6. ASSUME UNCHANGED <<expiries, of, source, start, end>>, cached \subseteq cached',
             \A s \in Deliveries : HasMissed(s)' => HasMissed(s)
      PROVE  KeysHaveHistory'
  <2>1. FillsAreSeparated(log, last, before)'
    BY <1>1, <1>6 DEF FillsAreSeparated
  <2> QED
    BY <2>1 DEF KeysHaveHistory
<1>7. CASE CacheAside!QueryReturns(r) \/ CacheAside!Refuse(r) \/ CacheAside!ReadFails(r)
  BY <1>6, <1>7 DEF CacheAside!QueryReturns, CacheAside!Refuse, CacheAside!ReadFails,
                    CacheAside!Goto, CacheAside!store, CacheAside!times, HasMissed
<1>8. CASE CacheAside!CountServed(r) \/ CacheAside!CountHit(r)
  BY <1>6, <1>8 DEF CacheAside!CountServed, CacheAside!CountHit,
                    CacheAside!Goto, CacheAside!store, CacheAside!times, HasMissed
<1>9. CASE CacheAside!CountMiss(r) \/ CacheAside!BookMiss(r)
  BY <1>6, <1>9 DEF CacheAside!CountMiss, CacheAside!BookMiss,
                    CacheAside!Goto, CacheAside!store, CacheAside!times, HasMissed
<1> QED
  BY <1>2, <1>3, <1>4, <1>5, <1>7, <1>8, <1>9 DEF CacheReads

\* An expiry is later than every fill so far.
LEMMA HistoryExpiryStep ==
    ASSUME CacheTypeOK, KeysHaveHistory, NEW p \in Events, CacheAside!Expire(p)
    PROVE  KeysHaveHistory'
<1> USE DEF CacheTypeOK
<1>1. PICK log, last, before : FillsAreSeparated(log, last, before)
  BY DEF KeysHaveHistory
<1>2. /\ cached' = cached \ {p} /\ expiries' = expiries + 1
      /\ UNCHANGED <<of, pc, source, start, end>>
  BY DEF CacheAside!Expire, CacheAside!times
<1> DEFINE n == expiries + 1
<1>a. PICK longer : longer = [i \in 1..n |-> IF i = n THEN p ELSE log[i]]
  OBVIOUS
<1>b. PICK later : later = [last EXCEPT ![p] = n]
  OBVIOUS
<1>3. longer \in [1..expiries' -> Events]
  BY <1>1, <1>2, <1>a DEF FillsAreSeparated
<1>4. later \in [Events -> 0..expiries'] /\ before \in [Deliveries -> 0..expiries']
  BY <1>1, <1>2, <1>b DEF FillsAreSeparated
<1>5. \A i \in 1..expiries : longer[i] = log[i]
  BY <1>a
<1>6. longer[n] = p
  BY <1>a
<1>7. \A q \in Events : later[q] > 0 => longer[later[q]] = q
  BY <1>1, <1>5, <1>6, <1>b, SMTT(30) DEF FillsAreSeparated
<1>8. /\ later[p] = n /\ \A q \in Events \ {p} : later[q] = last[q]
      /\ log \in [1..expiries -> Events] /\ last \in [Events -> 0..expiries]
      /\ before \in [Deliveries -> 0..expiries]
  BY <1>1, <1>b DEF FillsAreSeparated
<1>9. \A r \in Deliveries :
        /\ before[r] <= later[of[r]]
        /\ source[r] = "postgres" /\ of[r] \notin cached' => before[r] < later[of[r]]
  <2> TAKE r \in Deliveries
  <2>1. of[r] \in Events /\ before[r] \in 0..expiries /\ last[of[r]] \in 0..expiries
    BY <1>8
  <2>2. CASE of[r] = p
    BY <1>8, <2>1, <2>2
  <2>3. CASE of[r] # p
    BY <1>1, <1>2, <1>8, <2>1, <2>3 DEF FillsAreSeparated
  <2> QED
    BY <2>2, <2>3
<1>10. \A r \in Deliveries : before[r] > 0 => longer[before[r]] = of[r]
  <2> TAKE r \in Deliveries
  <2>1. before[r] > 0 => before[r] \in 1..expiries /\ log[before[r]] = of[r]
    <3>1. before[r] \in 0..expiries /\ (before[r] > 0 => log[before[r]] = of[r])
      BY <1>1 DEF FillsAreSeparated
    <3> QED
      BY <3>1
  <2> QED
    BY <1>5, <2>1
<1>11. \A r, s \in Deliveries :
        source[r] = "postgres" /\ HasMissed(s)' /\ of[r] = of[s] /\ end[r] <= start[s]
            => before[r] < before[s]
  BY <1>1, <1>2 DEF FillsAreSeparated, HasMissed
<1>12. FillsAreSeparated(longer, later, before)'
  BY <1>2, <1>3, <1>4, <1>7, <1>9, <1>10, <1>11 DEF FillsAreSeparated
<1> QED
  BY <1>12 DEF KeysHaveHistory

\* Booking a miss: it is fresh if it began after every booked miss had returned.
LEMMA FreshStep ==
    ASSUME CacheTypeOK, CacheTypeOK', ReadsInOrder, MissesAreSorted,
           NEW r \in Deliveries, CacheReads(r)
    PROVE  MissesAreSorted'
<1> USE DEF CacheTypeOK, ReadsInOrder
<1>1. PICK fresh : FreshDoNotOverlap(fresh)
  BY DEF MissesAreSorted
<1>2. Booked \in SUBSET Deliveries /\ fresh \in SUBSET Deliveries
  BY <1>1 DEF Booked, FreshDoNotOverlap
<1>3. Cardinality(fresh) \in Nat /\ Cardinality(Booked) \in Nat
  BY <1>2, Together
<1>4. CASE CacheAside!BookMiss(r)
  <2>1. /\ pc[r] = "miss" /\ source[r] = "postgres" /\ pc' = [pc EXCEPT ![r] = "ok"]
        /\ redundant' = redundant + (IF start[r] < lastMissEnd[of[r]] THEN 1 ELSE 0)
        /\ lastMissEnd' = [lastMissEnd EXCEPT ![of[r]] = IF end[r] > @ THEN end[r] ELSE @]
        /\ UNCHANGED <<of, source, start, end>>
    BY <1>4 DEF CacheAside!BookMiss, CacheAside!Goto
  <2>2. Booked' = Booked \cup {r} /\ r \notin Booked /\ r \notin fresh
    BY <1>1, <2>1 DEF Booked, FreshDoNotOverlap
  <2>3. Cardinality(Booked') = Cardinality(Booked) + 1
    BY <1>2, <2>2, OneMore
  <2>4. \A p \in Events : lastMissEnd[p] <= lastMissEnd'[p]
    BY <2>1
  <2>5. CASE start[r] < lastMissEnd[of[r]]
    <3>1. /\ fresh \subseteq Booked' /\ Cardinality(fresh) + redundant' = Cardinality(Booked')
      BY <1>1, <1>3, <2>1, <2>2, <2>3, <2>5 DEF FreshDoNotOverlap
    <3>2. lastMissEnd[of[r]] > 0
      BY <2>5
    <3>3. \A s \in Booked' : \E t \in fresh : of[t] = of[s]
      BY <1>1, <2>2, <3>2 DEF FreshDoNotOverlap
    <3>4. \A s \in fresh : end[s] <= lastMissEnd'[of[s]]
      BY <1>1, <1>2, <2>4 DEF FreshDoNotOverlap
    <3>5. \A p \in Events : lastMissEnd'[p] > 0 => \E s \in fresh : of[s] = p
      BY <1>1, <2>1, <3>2 DEF FreshDoNotOverlap
    <3>6. FreshDoNotOverlap(fresh)'
      BY <1>1, <2>1, <3>1, <3>3, <3>4, <3>5 DEF FreshDoNotOverlap
    <3> QED
      BY <3>6 DEF MissesAreSorted
  <2>6. CASE ~(start[r] < lastMissEnd[of[r]])
    <3> DEFINE more == fresh \cup {r}
    <3>1. Cardinality(more) = Cardinality(fresh) + 1
      BY <1>2, <2>2, OneMore
    <3>2. more \subseteq Booked' /\ Cardinality(more) + redundant' = Cardinality(Booked')
      BY <1>1, <1>3, <2>1, <2>2, <2>3, <2>6, <3>1 DEF FreshDoNotOverlap
    <3>3. \A s \in fresh : end[s] <= lastMissEnd[of[s]] /\ of[s] \in Events
      BY <1>1, <1>2 DEF FreshDoNotOverlap
    <3>4. \A s \in more : end[s] <= lastMissEnd'[of[s]]
      BY <1>2, <2>1, <2>4, <3>3
    <3>5. \A s \in fresh : of[s] = of[r] => end[s] <= start[r]
      BY <1>2, <2>6, <3>3
    <3>6. \A s, t \in more :
            s # t /\ of[s] = of[t] => end[s] <= start[t] \/ end[t] <= start[s]
      BY <1>1, <3>5 DEF FreshDoNotOverlap
    <3>7. \A s \in Booked' : \E t \in more : of[t] = of[s]
      BY <1>1, <2>2 DEF FreshDoNotOverlap
    <3>8. \A p \in Events : lastMissEnd'[p] > 0 => \E s \in more : of[s] = p
      BY <1>1, <2>1 DEF FreshDoNotOverlap
    <3>9. FreshDoNotOverlap(more)'
      <4> HIDE DEF more
      <4> QED
        BY <2>1, <3>2, <3>4, <3>6, <3>7, <3>8 DEF FreshDoNotOverlap
    <3> QED
      BY <3>9 DEF MissesAreSorted
  <2> QED
    BY <2>5, <2>6
<1>5. ASSUME UNCHANGED <<of, redundant, lastMissEnd>>, Booked' = Booked,
             \A s \in Booked : start'[s] = start[s] /\ end'[s] = end[s]
      PROVE  MissesAreSorted'
  <2>1. FreshDoNotOverlap(fresh)'
    BY <1>1, <1>5 DEF FreshDoNotOverlap
  <2> QED
    BY <2>1 DEF MissesAreSorted
<1> USE DEF CacheAside!Goto, CacheAside!store, CacheAside!times, CacheAside!counters, Booked
<1>6. CASE CacheAside!Refuse(r) \/ CacheAside!Start(r) \/ CacheAside!GetMisses(r)
  BY <1>5, <1>6 DEF CacheAside!Refuse, CacheAside!Start, CacheAside!GetMisses
<1>7. CASE CacheAside!GetHits(r) \/ CacheAside!SetReturns(r)
  BY <1>5, <1>7 DEF CacheAside!GetHits, CacheAside!SetReturns, CacheAside!Returns
<1>8. CASE CacheAside!QueryReturns(r) \/ CacheAside!ReadFails(r) \/ CacheAside!CountServed(r)
  BY <1>5, <1>8 DEF CacheAside!QueryReturns, CacheAside!ReadFails, CacheAside!CountServed
<1>9. CASE CacheAside!CountHit(r) \/ CacheAside!CountMiss(r)
  BY <1>5, <1>9 DEF CacheAside!CountHit, CacheAside!CountMiss
<1> QED
  BY <1>4, <1>6, <1>7, <1>8, <1>9 DEF CacheReads

\* The history of the keys is about the cache, the reads and their times alone.
LEMMA HistoryStays ==
    ASSUME KeysHaveHistory, UNCHANGED <<cached, expiries, of, pc, source, start, end>>
    PROVE  KeysHaveHistory'
<1>1. PICK log, last, before : FillsAreSeparated(log, last, before)
  BY DEF KeysHaveHistory
<1>2. FillsAreSeparated(log, last, before)'
  BY <1>1 DEF FillsAreSeparated, HasMissed
<1> QED
  BY <1>2 DEF KeysHaveHistory

\* GET /stats loads what the counters hold while the reads of its window go on.
LEMMA CacheStatsStep ==
    ASSUME CacheInv, CacheAside!StatsStarts \/ CacheAside!StatsLoads
    PROVE  CacheInv'
<1> USE DEF CacheInv, CacheTypeOK, CacheStatsPc, CacheAside!store, CacheAside!times,
            CacheAside!counters
<1>1. /\ UNCHANGED <<cached, expiries, of, pc, source, start, end, clock, lastMissEnd,
                     served, hits, misses, redundant, failed>>
      /\ CacheTypeOK'
  <2>1. CASE CacheAside!StatsStarts
    BY <2>1 DEF CacheAside!StatsStarts, CacheAside!InFlight
  <2>2. CASE CacheAside!StatsLoads
    BY <2>2 DEF CacheAside!StatsLoads
  <2> QED
    BY <2>1, <2>2
<1>2. /\ Served' = Served /\ Hit' = Hit /\ Missed' = Missed /\ Booked' = Booked
      /\ From("cache")' = From("cache")
  BY <1>1 DEF Served, Hit, Missed, Booked, From
<1>3. ReadsInOrder' /\ CacheCountersAreExact'
  BY <1>1, <1>2 DEF ReadsInOrder, CacheCountersAreExact
<1>4. KeysHaveHistory' /\ MissesAreSorted'
  BY <1>1, <1>2, HistoryStays DEF MissesAreSorted, FreshDoNotOverlap
<1>5. CacheReportIsClose'
  <2>1. CASE CacheAside!StatsStarts
    BY <1>1, <2>1 DEF CacheAside!StatsStarts, CacheAside!InFlight, CacheReportIsClose
  <2>2. CASE CacheAside!StatsLoads
    <3> DEFINE S == Served \ window
               H == Hit \ window
               B == Booked \ window
               C == From("cache")
               P == From("postgres")
    <3>1. window' = window /\ statsPc \in {"served", "hits", "misses", "redundant"}
      BY <2>2 DEF CacheAside!StatsLoads
    <3>2. \A r \in Deliveries \ window : pc[r] \in {"new"} \cup CacheAside!Answered
      BY <3>1 DEF CacheReportIsClose
    <3>3. /\ S \in SUBSET Deliveries /\ H \in SUBSET Deliveries /\ B \in SUBSET Deliveries
          /\ C \in SUBSET Deliveries /\ P \in SUBSET Deliveries /\ window \in SUBSET Deliveries
          /\ Served \in SUBSET Deliveries /\ Hit \in SUBSET Deliveries
          /\ Missed \in SUBSET Deliveries /\ Booked \in SUBSET Deliveries
      BY DEF Served, Hit, Missed, Booked, From
    <3>4. /\ S = H \cup B /\ H \cap B = {}
          /\ S \subseteq Served /\ Served \subseteq S \cup window
          /\ H \subseteq Hit /\ Hit \subseteq C /\ B \subseteq Missed /\ Missed \subseteq P
          /\ Booked \subseteq B \cup window
          /\ C \cap P = {} /\ C \cup P \subseteq S \cup window
      BY <3>2 DEF Served, Hit, Missed, Booked, From, ReadsInOrder, CacheAside!Answered
    <3>5. /\ S = (Served \ window)' /\ H = (Hit \ window)' /\ B = (Booked \ window)'
          /\ C = From("cache")'
      BY <1>2, <3>1
    <3> HIDE DEF S, H, B, C, P
    <3>6. /\ Cardinality(S) \in Nat /\ Cardinality(H) \in Nat /\ Cardinality(B) \in Nat
          /\ Cardinality(C) \in Nat /\ Cardinality(P) \in Nat /\ Cardinality(window) \in Nat
          /\ Cardinality(S) = Cardinality(H) + Cardinality(B)
      BY <3>3, <3>4, Together
    <3>7. CASE statsPc = "served"
      <4>1. statsPc' = "hits" /\ report'.served = served
        BY <2>2, <3>7 DEF CacheAside!StatsLoads
      <4>2. Cardinality(S) <= Cardinality(Served)
        BY <3>3, <3>4, Together
      <4>3. /\ Cardinality(Served) <= Cardinality(S \cup window)
            /\ Cardinality(S \cup window) <= Cardinality(S) + Cardinality(window)
            /\ Cardinality(Served) \in Nat /\ Cardinality(S \cup window) \in Nat
        BY <3>3, <3>4, Together, S \cup window \in SUBSET Deliveries
      <4>4. Cardinality(S) <= served /\ served <= Cardinality(S) + Cardinality(window)
        BY <3>6, <4>2, <4>3 DEF CacheCountersAreExact
      <4> QED
        BY <1>1, <3>1, <3>2, <3>5, <4>1, <4>4 DEF CacheReportIsClose
    <3>8. CASE statsPc = "hits"
      <4>1. statsPc' = "misses" /\ report'.served = report.served /\ report'.hits = hits
        BY <2>2, <3>8 DEF CacheAside!StatsLoads
      <4>2. Cardinality(H) <= Cardinality(Hit) /\ Cardinality(Hit) <= Cardinality(C)
        BY <3>3, <3>4, Together
      <4>3. Cardinality(H) <= hits /\ hits <= Cardinality(C)
        BY <4>2 DEF CacheCountersAreExact
      <4>4. /\ Cardinality(S) <= report.served
            /\ report.served <= Cardinality(S) + Cardinality(window)
        BY <3>8 DEF CacheReportIsClose, S
      <4> QED
        BY <1>1, <3>1, <3>2, <3>5, <4>1, <4>3, <4>4 DEF CacheReportIsClose
    <3>9. CASE statsPc = "misses"
      <4>1. /\ statsPc' = "redundant" /\ report'.served = report.served
            /\ report'.hits = report.hits /\ report'.misses = misses
        BY <2>2, <3>9 DEF CacheAside!StatsLoads
      <4>2. /\ Cardinality(B) <= Cardinality(Missed) /\ Cardinality(Missed) <= Cardinality(P)
            /\ Cardinality(Missed) \in Nat
        BY <3>3, <3>4, Together
      <4>3. misses = Cardinality(Missed)
        BY DEF CacheCountersAreExact
      <4>4. /\ Cardinality(S) <= report.served
            /\ report.served <= Cardinality(S) + Cardinality(window)
            /\ Cardinality(H) <= report.hits /\ report.hits <= Cardinality(C)
        BY <3>9 DEF CacheReportIsClose, S, H, C
      <4>5. Cardinality(C) + Cardinality(P) <= Cardinality(S) + Cardinality(window)
        <5>1. Cardinality(C \cup P) = Cardinality(C) + Cardinality(P)
          BY <3>3, <3>4, Together
        <5>2. /\ Cardinality(C \cup P) <= Cardinality(S \cup window)
              /\ Cardinality(S \cup window) \in Nat /\ Cardinality(C \cup P) \in Nat
          BY <3>3, <3>4, Together, S \cup window \in SUBSET Deliveries,
             C \cup P \in SUBSET Deliveries
        <5>3. Cardinality(S \cup window) <= Cardinality(S) + Cardinality(window)
          BY <3>3, Together
        <5> QED
          BY <3>6, <5>1, <5>2, <5>3
      <4>6. report.hits \in Nat /\ report.misses \in Nat
        OBVIOUS
      <4>7. /\ Cardinality(S) <= report.hits + misses
            /\ report.hits + misses <= Cardinality(S) + Cardinality(window)
            /\ Cardinality(B) <= misses
        <5> HIDE DEF CacheInv
        <5> QED
          BY <3>6, <4>2, <4>3, <4>4, <4>5, <4>6
      <4> QED
        BY <1>1, <3>1, <3>2, <3>5, <4>1, <4>4, <4>7 DEF CacheReportIsClose
    <3>10. CASE statsPc = "redundant"
      <4>1. /\ statsPc' = "done" /\ report'.served = report.served
            /\ report'.hits = report.hits /\ report'.misses = report.misses
            /\ report'.redundant = redundant
        BY <2>2, <3>10 DEF CacheAside!StatsLoads
      <4>2. /\ Cardinality(S) <= report.served
            /\ report.served <= Cardinality(S) + Cardinality(window)
            /\ Cardinality(S) <= report.hits + report.misses
            /\ report.hits + report.misses <= Cardinality(S) + Cardinality(window)
            /\ Cardinality(B) <= report.misses
        BY <3>10 DEF CacheReportIsClose, S, B
      <4>3. redundant <= Cardinality(Booked) /\ Cardinality(Booked) \in Nat
        <5>1. PICK fresh : FreshDoNotOverlap(fresh)
          BY DEF MissesAreSorted
        <5>2. fresh \in SUBSET Deliveries
          BY <3>3, <5>1 DEF FreshDoNotOverlap
        <5>3. Cardinality(fresh) \in Nat /\ Cardinality(Booked) \in Nat
          BY <3>3, <5>2, Together
        <5> QED
          BY <5>1, <5>3 DEF FreshDoNotOverlap
      <4>4. /\ Cardinality(Booked) <= Cardinality(B \cup window)
            /\ Cardinality(B \cup window) <= Cardinality(B) + Cardinality(window)
            /\ Cardinality(B \cup window) \in Nat
        BY <3>3, <3>4, Together, B \cup window \in SUBSET Deliveries
      <4>5. /\ report.served \in Nat /\ report.hits \in Nat /\ report.misses \in Nat
            /\ redundant \in Nat
        OBVIOUS
      <4>6. /\ report.served <= report.hits + report.misses + Cardinality(window)
            /\ report.hits + report.misses <= report.served + Cardinality(window)
            /\ redundant <= report.misses + Cardinality(window)
        <5> HIDE DEF CacheInv
        <5> QED
          BY <3>6, <4>2, <4>3, <4>4, <4>5
      <4> QED
        BY <3>1, <4>1, <4>6 DEF CacheReportIsClose
    <3> QED
      BY <3>1, <3>7, <3>8, <3>9, <3>10
  <2> QED
    BY <2>1, <2>2
<1> QED
  BY <1>1, <1>3, <1>4, <1>5

\* A cold cache and no request.
LEMMA CacheInit == CacheAside!Init => CacheInv
<1> SUFFICES ASSUME CacheAside!Init PROVE CacheInv
  OBVIOUS
<1> USE DEF CacheAside!Init
<1>1. CacheTypeOK /\ ReadsInOrder /\ CacheReportIsClose
  BY DEF CacheTypeOK, CachePc, CacheStatsPc, ReadsInOrder, CacheReportIsClose
<1>2. Served = {} /\ Hit = {} /\ Missed = {} /\ Booked = {}
  BY DEF Served, Hit, Missed, Booked
<1>3. Cardinality({}) = 0
  BY FS_EmptySet
<1>4. CacheCountersAreExact
  BY <1>2, <1>3 DEF CacheCountersAreExact
<1>5. FreshDoNotOverlap({})
  BY <1>2, <1>3 DEF FreshDoNotOverlap
<1>6. FillsAreSeparated([i \in 1..0 |-> i], [p \in Events |-> 0], [r \in Deliveries |-> 0])
  BY DEF FillsAreSeparated
<1> QED
  BY <1>1, <1>4, <1>5, <1>6 DEF CacheInv, KeysHaveHistory, MissesAreSorted

\* Every step of the adapter and of Valkey keeps the invariant.
LEMMA CacheStep ==
    ASSUME CacheInv, CacheAside!Next \/ UNCHANGED CacheAside!vars
    PROVE  CacheInv'
<1>1. ASSUME NEW r \in Deliveries, CacheReads(r) PROVE CacheInv'
  BY <1>1, CacheReadStep, CacheCountersStep, CacheReportStep, HistoryReadStep, FreshStep
     DEF CacheInv
<1>2. ASSUME NEW p \in Events, CacheAside!Expire(p) PROVE CacheInv'
  <2>1. /\ cached' = cached \ {p} /\ expiries' = expiries + 1
        /\ UNCHANGED <<of, pc, source, clock, start, end, lastMissEnd, served, hits, misses,
                       redundant, failed, statsPc, report, window>>
    BY <1>2 DEF CacheAside!Expire, CacheAside!times, CacheAside!counters, CacheAside!stats
  <2>2. KeysHaveHistory'
    BY <1>2, HistoryExpiryStep DEF CacheInv
  <2>3. CacheTypeOK' /\ ReadsInOrder'
    BY <2>1 DEF CacheInv, CacheTypeOK, ReadsInOrder
  <2>4. CacheCountersAreExact' /\ CacheReportIsClose' /\ MissesAreSorted'
    <3>1. /\ Served' = Served /\ Hit' = Hit /\ Missed' = Missed /\ Booked' = Booked
          /\ From("cache")' = From("cache")
      BY <2>1 DEF Served, Hit, Missed, Booked, From
    <3>2. CacheCountersAreExact'
      BY <2>1, <3>1 DEF CacheInv, CacheCountersAreExact
    <3>3. CacheReportIsClose'
      BY <2>1, <3>1 DEF CacheInv, CacheReportIsClose
    <3>4. PICK fresh : FreshDoNotOverlap(fresh)
      BY DEF CacheInv, MissesAreSorted
    <3>5. FreshDoNotOverlap(fresh)'
      BY <2>1, <3>1, <3>4 DEF FreshDoNotOverlap
    <3> QED
      BY <3>2, <3>3, <3>5 DEF MissesAreSorted
  <2> QED
    BY <2>2, <2>3, <2>4 DEF CacheInv
<1>3. CASE UNCHANGED CacheAside!vars
  <2>1. UNCHANGED <<cached, expiries, of, pc, source, clock, start, end, lastMissEnd, served,
                    hits, misses, redundant, failed, statsPc, report, window>>
    BY <1>3 DEF CacheAside!vars, CacheAside!store, CacheAside!times, CacheAside!counters,
                CacheAside!stats
  <2>2. CacheTypeOK' /\ ReadsInOrder' /\ KeysHaveHistory'
    BY <2>1, HistoryStays DEF CacheInv, CacheTypeOK, ReadsInOrder
  <2>3. CacheCountersAreExact' /\ CacheReportIsClose' /\ MissesAreSorted'
    <3>1. /\ Served' = Served /\ Hit' = Hit /\ Missed' = Missed /\ Booked' = Booked
          /\ From("cache")' = From("cache")
      BY <2>1 DEF Served, Hit, Missed, Booked, From
    <3>2. CacheCountersAreExact'
      BY <2>1, <3>1 DEF CacheInv, CacheCountersAreExact
    <3>3. CacheReportIsClose'
      BY <2>1, <3>1 DEF CacheInv, CacheReportIsClose
    <3>4. PICK fresh : FreshDoNotOverlap(fresh)
      BY DEF CacheInv, MissesAreSorted
    <3>5. FreshDoNotOverlap(fresh)'
      BY <2>1, <3>1, <3>4 DEF FreshDoNotOverlap
    <3> QED
      BY <3>2, <3>3, <3>5 DEF MissesAreSorted
  <2> QED
    BY <2>2, <2>3 DEF CacheInv
<1> QED
  BY <1>1, <1>2, <1>3, CacheStatsStep DEF CacheAside!Next, CacheAside!Idle, CacheReads

\* The adapter's invariant, in behaviours that serve cache-aside.
LEMMA ServedCacheInvariant == LessonsSpec => [](lesson = "cache" => CacheInv)
<1>1. LessonsInit => (lesson = "cache" => CacheInv)
  BY CacheInit DEF LessonsInit
<1>2. (lesson = "cache" => CacheInv) /\ [LessonsNext]_servedVars
        => (lesson = "cache" => CacheInv)'
  <2> SUFFICES ASSUME lesson = "cache" => CacheInv, [LessonsNext]_servedVars,
                      lesson' = "cache"
               PROVE  CacheInv'
    OBVIOUS
  <2>1. lesson = "cache"
    BY DEF LessonsNext, ServeCounter, ServeCacheAside, ServePipelining,
           ServeSqliteWal, servedVars
  <2>2. CacheAside!Next \/ UNCHANGED CacheAside!vars
    BY <2>1 DEF LessonsNext, ServeCounter, ServeCacheAside, ServePipelining,
                ServeSqliteWal, servedVars, vars, tally, statsVars, cacheOnly,
                CacheAside!vars, CacheAside!store, CacheAside!times, CacheAside!counters,
                CacheAside!stats
  <2> QED
    BY <2>1, <2>2, CacheStep
<1> QED
  BY <1>1, <1>2, PTL DEF LessonsSpec, servedVars

\* CacheAside counts with the Cardinality of its own FiniteSets, which is ours.
LEMMA CacheCounts == \A S : CacheAside!Cardinality(S) = Cardinality(S)
  BY DEF CacheAside!Cardinality, Cardinality, CacheAside!IsFiniteSet, IsFiniteSet

\* Every booked profile has a fresh miss, and the fresh misses of a profile after
\* its first are each preceded by an expiry of their own.
LEMMA FreshAreBounded ==
    ASSUME CacheInv
    PROVE  CacheAside!RedundantIsExact
<1> USE DEF CacheInv, CacheTypeOK
<1>1. PICK log, last, before : FillsAreSeparated(log, last, before)
  BY DEF KeysHaveHistory
<1>2. PICK fresh : FreshDoNotOverlap(fresh)
  BY DEF MissesAreSorted
<1> DEFINE L == {of[r] : r \in Booked}
           E == 1..expiries
<1>3. /\ fresh \in SUBSET Deliveries /\ Booked \in SUBSET Deliveries /\ L \in SUBSET Events
      /\ fresh \subseteq Booked
  BY <1>2 DEF Booked, FreshDoNotOverlap
<1>4. /\ Cardinality(fresh) \in Nat /\ Cardinality(Booked) \in Nat /\ IsFiniteSet(fresh)
      /\ Cardinality(fresh) + redundant = Cardinality(Booked) /\ redundant \in Nat
  BY <1>2, <1>3, Together DEF FreshDoNotOverlap
<1>5. IsFiniteSet(L) /\ Cardinality(L) \in Nat
  BY <1>3, CounterAssumption, FS_Subset, FS_CardinalityType
<1>6. IsFiniteSet(E) /\ Cardinality(E) = expiries
  <2>1. 1 \in Int /\ expiries \in Int /\ expiries \in Nat
    OBVIOUS
  <2>2. /\ IsFiniteSet(1..expiries)
        /\ Cardinality(1..expiries) = IF 1 > expiries THEN 0 ELSE expiries - 1 + 1
    <3> HIDE DEF CacheInv
    <3> QED
      BY <2>1, FS_Interval
  <2> QED
    BY <2>1, <2>2
<1>7. Cardinality(L) <= Cardinality(fresh)
  <2> DEFINE f == [r \in fresh |-> of[r]]
  <2>1. f \in [fresh -> L]
    BY <1>3
  <2>2. \A p \in L : \E r \in fresh : f[r] = p
    BY <1>2 DEF FreshDoNotOverlap
  <2>3. f \in Surjection(fresh, L)
    BY <2>1, <2>2 DEF Surjection
  <2> QED
    BY <1>4, <2>3, FS_Surjection
<1>8. Cardinality(fresh) <= Cardinality(L) + expiries
  <2> DEFINE First == {r \in fresh : before[r] = 0}
             Again == {r \in fresh : before[r] # 0}
             f == [r \in First |-> of[r]]
             g == [r \in Again |-> before[r]]
  <2>1. \A r \in fresh : before[r] \in 0..expiries /\ of[r] \in L
                         /\ (before[r] # 0 => log[before[r]] = of[r])
    BY <1>1, <1>3 DEF FillsAreSeparated
  <2>2. \A r, s \in fresh : r # s /\ of[r] = of[s] => before[r] # before[s]
    <3> SUFFICES ASSUME NEW r \in fresh, NEW s \in fresh, r # s, of[r] = of[s]
                 PROVE  before[r] # before[s]
      OBVIOUS
    <3>1. source[r] = "postgres" /\ source[s] = "postgres"
      BY <1>3 DEF Booked
    <3>2. end[r] <= start[s] \/ end[s] <= start[r]
      BY <1>2 DEF FreshDoNotOverlap
    <3>3. before[r] < before[s] \/ before[s] < before[r]
      BY <1>1, <1>3, <3>1, <3>2 DEF FillsAreSeparated, HasMissed
    <3> QED
      BY <2>1, <3>3
  <2>3. f \in Injection(First, L)
    BY <2>1, <2>2 DEF Injection, IsInjective
  <2>4. g \in Injection(Again, E)
    <3>1. g \in [Again -> E]
      BY <2>1
    <3>2. \A r, s \in Again : g[r] = g[s] => r = s
      BY <2>1, <2>2
    <3> QED
      BY <3>1, <3>2 DEF Injection, IsInjective
  <2>5. Cardinality(First) <= Cardinality(L)
    BY <1>5, <2>3, FS_Injection
  <2>6. Cardinality(Again) <= Cardinality(E)
    BY <1>6, <2>4, FS_Injection
  <2>7. First \in SUBSET Deliveries /\ Again \in SUBSET Deliveries /\ fresh = First \cup Again
    BY <1>3
  <2> HIDE DEF First, Again
  <2>8. /\ Cardinality(fresh) <= Cardinality(First) + Cardinality(Again)
        /\ Cardinality(First) \in Nat /\ Cardinality(Again) \in Nat
    BY <2>7, Together
  <2> QED
    <3> HIDE DEF L, E
    <3> QED
      BY <1>4, <1>5, <1>6, <2>5, <2>6, <2>8
<1>9. Cardinality(Booked) - redundant \in Cardinality(L)..(Cardinality(L) + expiries)
  <2> HIDE DEF L, E, CacheInv
  <2>1. expiries \in Nat
    BY DEF CacheInv
  <2> QED
    BY <1>4, <1>5, <1>7, <1>8, <2>1
<1> QED
  BY <1>9, CacheCounts DEF CacheAside!RedundantIsExact, Booked

\* Of the booked misses of cache-aside one per profile is not redundant, and one
\* more at most for every expired key, in whatever order handlers book them.
THEOREM RedundantStaysExact == LessonsSpec => []RedundantIsExact
<1>1. (lesson = "cache" => CacheInv) => RedundantIsExact
  BY FreshAreBounded DEF RedundantIsExact
<1> QED
  BY <1>1, ServedCacheInvariant, PTL

\* A /stats report of cache-aside is off by no more than the reads in its window.
LEMMA CacheReportStaysClose == CacheInv => CacheAside!ReportWithinWindow
<1> SUFFICES ASSUME CacheInv, statsPc = "done"
             PROVE  /\ report.hits + report.misses - report.served
                            \in (-Cardinality(window))..Cardinality(window)
                    /\ report.redundant <= report.misses + Cardinality(window)
  BY CacheCounts DEF CacheAside!ReportWithinWindow
<1>1. /\ report.served <= report.hits + report.misses + Cardinality(window)
      /\ report.hits + report.misses <= report.served + Cardinality(window)
      /\ report.redundant <= report.misses + Cardinality(window)
  BY DEF CacheInv, CacheReportIsClose
<1>2. /\ report.served \in Nat /\ report.hits \in Nat /\ report.misses \in Nat
      /\ window \in SUBSET Deliveries
  BY DEF CacheInv, CacheTypeOK
<1>3. Cardinality(window) \in Nat
  BY <1>2, Together
<1> QED
  BY <1>1, <1>2, <1>3

-----------------------------------------------------------------------------
(* Sums over a set: Pipelining!MapThenSumSet folds with a recursive function.  *)

\* v[k] pairs for every k of s: as many as the numbers add up to.
PairsOf(v, s) == UNION {{<<k, i>> : i \in 1..v[k]} : k \in s}

\* The function MapThenSumSet recurses with.
SumFcn(v, S) ==
    CHOOSE g : g = [s \in SUBSET S |->
                      IF s = {} THEN 0
                      ELSE LET x == CHOOSE x \in s : TRUE IN v[x] + g[s \ {x}]]

\* What Pipelining sums with is that function, at the whole set.
LEMMA SumIsFcn ==
    ASSUME NEW v, NEW S
    PROVE  Pipelining!MapThenSumSet(LAMBDA k : v[k], S) = SumFcn(v, S)[S]
  BY DEF Pipelining!MapThenSumSet, Pipelining!MapThenFoldSet, SumFcn

\* The naturals are well-ordered.
LEMMA LeastElement ==
    ASSUME NEW T, T \subseteq Nat, T # {}
    PROVE  \E n \in T : \A m \in T : n <= m
<1> DEFINE LT == {p \in Nat \X Nat : p[1] < p[2]}
<1>1. IsWellFoundedOn(LT, Nat)
  BY NatLessThanWellFounded DEF OpToRel
<1>2. \A m, n \in Nat : m < n => <<m, n>> \in LT
  OBVIOUS
<1> HIDE DEF LT
<1>3. PICK n \in T : \A m \in T : ~(<<m, n>> \in LT)
  BY <1>1, WFMin
<1>4. ASSUME NEW m \in T PROVE n <= m
  <2>1. m \in Nat /\ n \in Nat
    OBVIOUS
  <2>2. ~(m < n)
    BY <1>2, <1>3, <2>1
  <2> QED
    BY <2>1, <2>2
<1> QED
  BY <1>4

\* Induction over the naturals, for a set instead of a predicate.
LEMMA NatSetInduction ==
    ASSUME NEW T, 0 \in T, \A n \in Nat : n \in T => n + 1 \in T
    PROVE  Nat \subseteq T
<1> SUFFICES ASSUME Nat \ T # {} PROVE FALSE
  OBVIOUS
<1>1. PICK n \in Nat \ T : \A m \in Nat \ T : n <= m
  BY LeastElement
<1>2. n # 0 /\ n - 1 \in Nat
  OBVIOUS
<1>3. n - 1 \in T
  BY <1>1, <1>2
<1> QED
  BY <1>2, <1>3

\* The sum over a set, as a number of pairs, satisfies the equation that defines it.
LEMMA SumEquation ==
    ASSUME NEW S, IsFiniteSet(S), NEW hi \in Nat, NEW v \in [S -> 0..hi]
    PROVE  SumFcn(v, S) = [s \in SUBSET S |->
                      IF s = {} THEN 0
                      ELSE LET x == CHOOSE x \in s : TRUE IN v[x] + SumFcn(v, S)[s \ {x}]]
<1> DEFINE G == [s \in SUBSET S |-> Cardinality(PairsOf(v, s))]
<1>1. ASSUME NEW s \in SUBSET S, NEW x \in s
      PROVE  G[s] = v[x] + G[s \ {x}]
  <2> DEFINE X == {<<x, i>> : i \in 1..v[x]}
             P == PairsOf(v, s \ {x})
  <2>1. v[x] \in Nat
    OBVIOUS
  <2>2. IsFiniteSet(X) /\ Cardinality(X) = v[x]
    <3> DEFINE f == [i \in 1..v[x] |-> <<x, i>>]
    <3>1. f \in Bijection(1..v[x], X)
      <4>1. f \in [1..v[x] -> X]
        OBVIOUS
      <4>2. \A i, j \in 1..v[x] : f[i] = f[j] => i = j
        OBVIOUS
      <4>3. \A p \in X : \E i \in 1..v[x] : f[i] = p
        OBVIOUS
      <4> QED
        BY <4>1, <4>2, <4>3 DEF Bijection, Injection, Surjection, IsInjective
    <3>2. IsFiniteSet(1..v[x]) /\ Cardinality(1..v[x]) = v[x]
      <4>1. /\ IsFiniteSet(1..v[x])
            /\ Cardinality(1..v[x]) = IF 1 > v[x] THEN 0 ELSE v[x] - 1 + 1
        BY <2>1, FS_Interval, 1 \in Int, v[x] \in Int
      <4> QED
        BY <2>1, <4>1
    <3> HIDE DEF f, X
    <3>3. ExistsBijection(1..v[x], X)
      BY <3>1 DEF ExistsBijection
    <3> QED
      BY <3>2, <3>3, FS_Bijection
  <2>3. PairsOf(v, s) = P \cup X
    BY DEF PairsOf
  <2>4. P \cap X = {}
    BY DEF PairsOf
  <2>5. IsFiniteSet(P)
    <3>1. P \subseteq S \X (1..hi)
      BY DEF PairsOf
    <3>2. IsFiniteSet(1..hi)
      BY FS_Interval, 1 \in Int, hi \in Int
    <3>3. IsFiniteSet(S \X (1..hi))
      BY <3>2, FS_Product
    <3> QED
      BY <3>1, <3>3, FS_Subset
  <2>6. Cardinality(P) \in Nat /\ Cardinality(P \cap X) = 0
    BY <2>4, <2>5, FS_CardinalityType, FS_EmptySet
  <2> HIDE DEF X, P
  <2>7. Cardinality(P \cup X) = Cardinality(P) + Cardinality(X) - Cardinality(P \cap X)
    BY <2>2, <2>5, FS_Union
  <2>8. Cardinality(P \cup X) = v[x] + Cardinality(P)
    BY <2>1, <2>2, <2>6, <2>7
  <2> QED
    BY <2>3, <2>8 DEF P
<1>2. G[{}] = 0
  <2>1. PairsOf(v, {}) = {}
    BY DEF PairsOf
  <2> QED
    BY <2>1, FS_EmptySet
<1>3. G = [s \in SUBSET S |->
             IF s = {} THEN 0 ELSE LET x == CHOOSE x \in s : TRUE IN v[x] + G[s \ {x}]]
  <2>1. \A s \in SUBSET S : s # {} => (CHOOSE x \in s : TRUE) \in s
    OBVIOUS
  <2>2. \A s \in SUBSET S :
            G[s] = IF s = {} THEN 0 ELSE LET x == CHOOSE x \in s : TRUE IN v[x] + G[s \ {x}]
    <3> HIDE DEF G
    <3> QED
      BY <1>1, <1>2, <2>1
  <2> QED
    BY <2>2
<1> HIDE DEF G
<1> QED
  BY <1>3 DEF SumFcn

\* A sum of n numbers between lo and hi is between lo times n and hi times n.
LEMMA SumIsBounded ==
    ASSUME NEW S, IsFiniteSet(S), NEW lo \in Nat, NEW hi \in Nat, NEW v \in [S -> lo..hi]
    PROVE  /\ Pipelining!MapThenSumSet(LAMBDA k : v[k], S)
                \in (lo * Cardinality(S))..(hi * Cardinality(S))
<1> DEFINE g == SumFcn(v, S)
           T == {n \in Nat : \A s \in SUBSET S : Cardinality(s) = n => g[s] \in (lo * n)..(hi * n)}
<1>1. \A s \in SUBSET S :
        /\ s = {} => g[s] = 0
        /\ s # {} => \E x \in s : g[s] = v[x] + g[s \ {x}]
  <2>0. v \in [S -> 0..hi]
    OBVIOUS
  <2>1. g = [s \in SUBSET S |->
             IF s = {} THEN 0 ELSE LET x == CHOOSE x \in s : TRUE IN v[x] + g[s \ {x}]]
    BY <2>0, SumEquation
  <2>2. \A s \in SUBSET S : s # {} => (CHOOSE x \in s : TRUE) \in s
    OBVIOUS
  <2> HIDE DEF g
  <2> QED
    BY <2>1, <2>2
<1>2. \A s \in SUBSET S : IsFiniteSet(s) /\ Cardinality(s) \in Nat /\ (Cardinality(s) = 0 <=> s = {})
  BY FS_Subset, FS_CardinalityType, FS_EmptySet
<1> HIDE DEF g
<1>3. 0 \in T
  BY <1>1, <1>2
<1>4. ASSUME NEW n \in Nat, n \in T PROVE n + 1 \in T
  <2> SUFFICES ASSUME NEW s \in SUBSET S, Cardinality(s) = n + 1
               PROVE  g[s] \in (lo * (n + 1))..(hi * (n + 1))
    OBVIOUS
  <2>1. s # {}
    BY <1>2
  <2>2. PICK x \in s : g[s] = v[x] + g[s \ {x}]
    BY <1>1, <2>1
  <2>3. Cardinality(s \ {x}) = n
    BY <1>2, FS_RemoveElement
  <2>4. g[s \ {x}] \in (lo * n)..(hi * n)
    BY <1>4, <2>3
  <2>5. v[x] \in lo..hi
    OBVIOUS
  <2>6. lo * (n + 1) = lo * n + lo /\ hi * (n + 1) = hi * n + hi
    OBVIOUS
  <2>7. lo * n \in Int /\ hi * n \in Int
    OBVIOUS
  <2> QED
    BY <2>2, <2>4, <2>5, <2>6, <2>7
<1>5. Nat \subseteq T
  <2> HIDE DEF T
  <2> QED
    BY <1>3, <1>4, NatSetInduction
<1>6. g[S] \in (lo * Cardinality(S))..(hi * Cardinality(S))
  BY <1>2, <1>5
<1> QED
  BY <1>6, SumIsFcn DEF g

-----------------------------------------------------------------------------
(* pipelining-work: the invariant *)

PipePc == {"new", "refused", "run", "ended", "ok", "failed"}
PipeStatsPc == {"new", "batches", "failed", "done", "erred"}

PipeTypeOK ==
    /\ variant \in Pipelining!Variants /\ val \in [Pipelining!Keys -> Nat]
    /\ pc \in [Deliveries -> PipePc]
    /\ sent \in [Deliveries -> 0..BatchSize] /\ next \in [Deliveries -> 1..(BatchSize + 1)]
    /\ resends \in Nat /\ batches \in Nat /\ failed \in Nat
    /\ statsPc \in PipeStatsPc /\ window \in SUBSET Deliveries
    /\ report \in [sum : Nat, batches : Nat, failed : Nat]

\* Only what was sent is applied, one key at a time in the sequential variant, and
\* a batch that returned nil has had its last key applied.
BatchesInOrder ==
    \A b \in Deliveries :
        /\ next[b] <= sent[b] + 1 /\ (variant = "sequential" => sent[b] <= next[b])
        /\ pc[b] \in {"new", "refused"} => next[b] = 1 /\ sent[b] = 0
        /\ pc[b] \in {"ended", "ok"} => next[b] = BatchSize + 1

In(p) == {b \in Deliveries : pc[b] = p}
Applied(k) == {b \in Deliveries : next[b] > k}

\* A key holds one increment of every batch past it, and what was sent twice.
KeysAreCounted ==
    \A k \in Pipelining!Keys :
        /\ Cardinality(Applied(k)) <= val[k]
        /\ val[k] <= Cardinality(Applied(k)) + resends

BatchesAreCounted == batches = Cardinality(In("ok")) /\ failed = Cardinality(In("failed"))

\* While /stats reads, a batch outside its window has not started or has its
\* answer.
PipeReportIsClose ==
    LET Ok == Cardinality(In("ok") \ window)
        Failing == Cardinality(In("failed") \ window)
    IN  /\ statsPc \in {"batches", "failed"} =>
            /\ \A b \in Deliveries \ window : pc[b] \in {"new", "refused", "ok", "failed"}
            /\ Ok * BatchSize <= report.sum
            /\ report.sum <= (Ok + Failing + Cardinality(window) + resends) * BatchSize
        /\ statsPc = "failed" =>
            Ok <= report.batches /\ report.batches <= Ok + Cardinality(window)
        /\ statsPc = "done" =>
            /\ report.batches * BatchSize <= report.sum + Cardinality(window) * BatchSize
            /\ report.sum <= report.batches * BatchSize + Cardinality(window) * BatchSize
                                + (report.failed + resends) * BatchSize

PipeInv ==
    /\ PipeTypeOK /\ BatchesInOrder /\ KeysAreCounted /\ BatchesAreCounted
    /\ PipeReportIsClose

-----------------------------------------------------------------------------
(* pipelining-work: the invariant is inductive *)

BatchSteps(b) ==
    \/ Pipelining!Refuse(b) \/ Pipelining!Start(b) \/ Pipelining!Send(b)
    \/ Pipelining!OpReturns(b) \/ Pipelining!CountBatch(b) \/ Pipelining!OpFails(b)
    \/ Pipelining!Apply(b) \/ Pipelining!Drop(b) \/ Pipelining!Resend(b)

\* What /stats sees of a step of batch b: it moves alone, is in the window if it
\* is under way while /stats reads, and keeps its answer.
BatchMoves(b) ==
    /\ UNCHANGED <<statsPc, report>> /\ resends <= resends'
    /\ \A c \in Deliveries \ {b} : pc'[c] = pc[c]
    /\ \/ pc'[b] = pc[b] /\ window' = window
       \/ pc[b] = "new" /\ pc'[b] = "refused" /\ window' = window
       \/ /\ pc[b] = "new" /\ pc'[b] = "run"
          /\ window' = IF Pipelining!Reading THEN window \cup {b} ELSE window
       \/ pc[b] \in {"run", "ended"} /\ window' = window

\* Every step of a batch, of Valkey or of the client library keeps the types and
\* the order in which the keys of a batch are sent and applied.
LEMMA BatchStep ==
    ASSUME PipeTypeOK, BatchesInOrder, NEW b \in Deliveries, BatchSteps(b)
    PROVE  PipeTypeOK' /\ BatchesInOrder' /\ BatchMoves(b)
<1> USE BatchAssumption
    DEF PipeTypeOK, BatchesInOrder, BatchMoves, PipePc, PipeStatsPc, Pipelining!Goto,
        Pipelining!stats, Pipelining!Keys, Pipelining!Variants
<1>1. CASE Pipelining!Refuse(b)
  BY <1>1 DEF Pipelining!Refuse
<1>2. CASE Pipelining!Start(b)
  BY <1>2 DEF Pipelining!Start
<1>3. CASE Pipelining!Send(b)
  <2>1. /\ pc[b] = "run" /\ sent[b] < BatchSize /\ sent' = [sent EXCEPT ![b] = sent'[b]]
        /\ UNCHANGED <<variant, val, pc, next, resends, batches, failed, statsPc, report, window>>
    BY <1>3 DEF Pipelining!Send, Pipelining!IncrementSequential, Pipelining!IncrementPipelined
  <2>2. /\ sent'[b] \in 0..BatchSize /\ next[b] <= sent'[b] + 1
        /\ variant = "sequential" => sent'[b] <= next[b]
    BY <1>3 DEF Pipelining!Send, Pipelining!IncrementSequential, Pipelining!IncrementPipelined
  <2>3. sent' \in [Deliveries -> 0..BatchSize] /\ \A c \in Deliveries \ {b} : sent'[c] = sent[c]
    BY <2>1, <2>2
  <2>4. BatchesInOrder'
    BY <2>1, <2>2, <2>3
  <2> QED
    BY <2>1, <2>3, <2>4
<1>4. CASE Pipelining!OpReturns(b)
  BY <1>4 DEF Pipelining!OpReturns
<1>5. CASE Pipelining!CountBatch(b)
  BY <1>5 DEF Pipelining!CountBatch
<1>6. CASE Pipelining!OpFails(b)
  BY <1>6 DEF Pipelining!OpFails
<1>7. CASE Pipelining!Apply(b)
  <2>1. /\ next[b] <= sent[b] /\ next[b] \in 1..BatchSize
        /\ val' = [val EXCEPT ![next[b]] = @ + 1] /\ next' = [next EXCEPT ![b] = @ + 1]
        /\ UNCHANGED <<variant, pc, sent, resends, batches, failed, statsPc, report, window>>
    BY <1>7 DEF Pipelining!Apply
  <2>2. val' \in [1..BatchSize -> Nat] /\ next' \in [Deliveries -> 1..(BatchSize + 1)]
    <3>1. next[b] + 1 \in 1..(BatchSize + 1) /\ val[next[b]] + 1 \in Nat
      BY <2>1
    <3> HIDE DEF BatchesInOrder, BatchMoves
    <3> QED
      BY <2>1, <3>1
  <2>3. \A c \in Deliveries \ {b} : next'[c] = next[c]
    <3> HIDE DEF BatchesInOrder, BatchMoves
    <3> QED
      BY <2>1
  <2>4. next'[b] = next[b] + 1 /\ next[b] + 1 <= sent[b] + 1 /\ pc[b] \notin {"ended", "ok"}
    <3>1. next'[b] = next[b] + 1 /\ next[b] \in Int /\ sent[b] \in Int
      <4> HIDE DEF BatchesInOrder, BatchMoves
      <4> QED
        BY <2>1
    <3>2. pc[b] \notin {"ended", "ok"}
      <4> HIDE DEF PipeTypeOK, BatchMoves
      <4> QED
        BY <2>1
    <3> HIDE DEF PipeTypeOK, BatchesInOrder, BatchMoves
    <3> QED
      BY <2>1, <3>1, <3>2
  <2>5. pc[b] \notin {"new", "refused"}
    BY <2>1
  <2>6. BatchesInOrder'
    <3> HIDE DEF PipeTypeOK, BatchesInOrder, BatchMoves
    <3>1. /\ variant' = variant /\ pc' = pc /\ sent' = sent
          /\ next[b] \in Int /\ sent[b] \in Int
      BY <2>1 DEF PipeTypeOK
    <3>2. next'[b] <= sent'[b] + 1 /\ (variant' = "sequential" => sent'[b] <= next'[b])
      BY <2>4, <3>1 DEF BatchesInOrder
    <3>3. \A c \in Deliveries \ {b} : next'[c] = next[c]
      BY <2>3
    <3> QED
      BY <2>4, <2>5, <3>1, <3>2, <3>3 DEF BatchesInOrder
  <2>7. PipeTypeOK' /\ BatchMoves(b)
    <3> HIDE DEF BatchesInOrder
    <3>1. PipeTypeOK'
      BY <2>1, <2>2
    <3>2. BatchMoves(b)
      BY <2>1
    <3> QED
      BY <3>1, <3>2
  <2> QED
    BY <2>6, <2>7
<1>8. CASE Pipelining!Drop(b)
  <2>1. /\ pc[b] = "failed" /\ next[b] <= sent[b] /\ sent' = [sent EXCEPT ![b] = next[b] - 1]
        /\ UNCHANGED <<variant, val, pc, next, resends, batches, failed, statsPc, report, window>>
    BY <1>8 DEF Pipelining!Drop
  <2>2. sent' \in [Deliveries -> 0..BatchSize]
    BY <2>1
  <2>3. BatchesInOrder'
    <3> HIDE DEF BatchesInOrder, BatchMoves
    <3>1. sent'[b] = next[b] - 1 /\ \A c \in Deliveries \ {b} : sent'[c] = sent[c]
      BY <2>1
    <3>2. /\ variant' = variant /\ pc' = pc /\ next' = next
          /\ next[b] \in Int /\ sent[b] \in Int /\ next[b] <= sent[b]
      BY <2>1
    <3> HIDE DEF PipeTypeOK
    <3>3. next'[b] <= sent'[b] + 1 /\ (variant' = "sequential" => sent'[b] <= next'[b])
      BY <3>1, <3>2
    <3> QED
      BY <2>1, <3>1, <3>2, <3>3 DEF BatchesInOrder
  <2>4. PipeTypeOK' /\ BatchMoves(b)
    <3> HIDE DEF BatchesInOrder
    <3> QED
      BY <2>1, <2>2
  <2> QED
    BY <2>3, <2>4
<1>9. CASE Pipelining!Resend(b)
  <2>1. /\ pc[b] = "run" /\ sent[b] \in 1..BatchSize
        /\ next' = [next EXCEPT ![b] = IF variant = "pipeline" THEN 1 ELSE sent[b]]
        /\ resends' = resends + 1
        /\ UNCHANGED <<variant, val, pc, sent, batches, failed, statsPc, report, window>>
    BY <1>9 DEF Pipelining!Resend
  <2>2. next'[b] \in 1..(BatchSize + 1) /\ next'[b] <= sent[b] + 1
        /\ (variant = "sequential" => sent[b] <= next'[b])
    BY <2>1
  <2>3. next' \in [Deliveries -> 1..(BatchSize + 1)]
        /\ \A c \in Deliveries \ {b} : next'[c] = next[c]
    BY <2>1, <2>2
  <2>4. BatchesInOrder'
    BY <2>1, <2>2, <2>3
  <2> QED
    BY <2>1, <2>3, <2>4
<1> QED
  BY <1>1, <1>2, <1>3, <1>4, <1>5, <1>6, <1>7, <1>8, <1>9 DEF BatchSteps

\* Applying a key counts the batch for it; sending again takes the batch back
\* from keys that already hold its increment.
LEMMA KeysStep ==
    ASSUME PipeTypeOK, BatchesInOrder, KeysAreCounted, NEW b \in Deliveries, BatchSteps(b)
    PROVE  KeysAreCounted'
<1> USE BatchAssumption DEF PipeTypeOK, Pipelining!Keys, Pipelining!Goto, Pipelining!stats
<1>0. \A k : Applied(k) \in SUBSET Deliveries
  BY DEF Applied
<1>1. CASE Pipelining!Apply(b)
  <2> SUFFICES ASSUME NEW k \in Pipelining!Keys
               PROVE  /\ Cardinality(Applied(k)') <= val'[k]
                      /\ val'[k] <= Cardinality(Applied(k)') + resends'
    BY DEF KeysAreCounted
  <2>1. /\ val' = [val EXCEPT ![next[b]] = @ + 1] /\ next[b] \in 1..BatchSize
        /\ next' = [next EXCEPT ![b] = @ + 1] /\ resends' = resends
    BY <1>1 DEF Pipelining!Apply
  <2>2. CASE k = next[b]
    <3>1. Applied(k)' = Applied(k) \cup {b} /\ b \notin Applied(k)
      <4>1. \A c \in Deliveries : next'[c] > k <=> (next[c] > k \/ c = b)
        <5>1. next'[b] = next[b] + 1 /\ \A c \in Deliveries \ {b} : next'[c] = next[c]
          BY <2>1
        <5> HIDE DEF PipeTypeOK
        <5> QED
          BY <2>1, <2>2, <5>1
      <4>2. ~(next[b] > k)
        BY <2>1, <2>2
      <4> QED
        BY <4>1, <4>2 DEF Applied
    <3>2. Cardinality(Applied(k)') = Cardinality(Applied(k)) + 1 /\ Cardinality(Applied(k)) \in Nat
      BY <1>0, <3>1, OneMore
    <3>3. val'[k] = val[k] + 1 /\ val[k] \in Nat /\ resends \in Nat
      BY <2>1, <2>2
    <3>4. Cardinality(Applied(k)) <= val[k] /\ val[k] <= Cardinality(Applied(k)) + resends
      BY DEF KeysAreCounted
    <3> HIDE DEF PipeTypeOK
    <3> QED
      BY <2>1, <3>2, <3>3, <3>4
  <2>3. CASE k # next[b]
    <3>1. Applied(k)' = Applied(k)
      <4>1. \A c \in Deliveries : next'[c] > k <=> next[c] > k
        <5>1. next'[b] = next[b] + 1 /\ \A c \in Deliveries \ {b} : next'[c] = next[c]
          BY <2>1
        <5>2. next[b] \in Int /\ k \in Int
          BY <2>1
        <5> HIDE DEF PipeTypeOK
        <5> QED
          BY <2>3, <5>1, <5>2
      <4> QED
        BY <4>1 DEF Applied
    <3>2. val'[k] = val[k]
      BY <2>1, <2>3
    <3> QED
      BY <2>1, <3>1, <3>2 DEF KeysAreCounted
  <2> QED
    BY <2>2, <2>3
<1>2. CASE Pipelining!Resend(b)
  <2> SUFFICES ASSUME NEW k \in Pipelining!Keys
               PROVE  /\ Cardinality(Applied(k)') <= val'[k]
                      /\ val'[k] <= Cardinality(Applied(k)') + resends'
    BY DEF KeysAreCounted
  <2>1. /\ val' = val /\ resends' = resends + 1
        /\ \A c \in Deliveries \ {b} : next'[c] = next[c]
    BY <1>2 DEF Pipelining!Resend
  <2>9. next'[b] <= next[b] /\ next'[b] \in Int /\ next[b] \in Int
    <3>1. next'[b] = IF variant = "pipeline" THEN 1 ELSE sent[b]
      BY <1>2 DEF Pipelining!Resend
    <3>2. variant # "pipeline" => sent[b] <= next[b]
      BY DEF BatchesInOrder, Pipelining!Variants
    <3> QED
      BY <3>1, <3>2
  <2> DEFINE A == Applied(k)
             R == A \ {b}
             Z == Applied(k)'
  <2>2. A \in SUBSET Deliveries /\ R \in SUBSET Deliveries /\ Z \in SUBSET Deliveries
    BY <1>0 DEF Applied
  <2>3. R \subseteq Z /\ Z \subseteq R \cup {b} /\ A \subseteq R \cup {b} /\ b \notin R
    BY <2>1 DEF Applied
  <2>4. Cardinality(A) <= val[k] /\ val[k] <= Cardinality(A) + resends
    BY DEF KeysAreCounted
  <2>5. val[k] \in Nat /\ resends \in Nat
    OBVIOUS
  <2> HIDE DEF A, R, Z
  <2>6. Cardinality(R \cup {b}) = Cardinality(R) + 1
    BY <2>2, <2>3, OneMore
  <2>7. /\ Cardinality(R) <= Cardinality(Z) /\ Cardinality(A) <= Cardinality(R \cup {b})
        /\ Cardinality(R) \in Nat /\ Cardinality(Z) \in Nat /\ Cardinality(A) \in Nat
    BY <2>2, <2>3, Together, R \cup {b} \in SUBSET Deliveries
  <2>8. Cardinality(Z) <= val[k]
    <3>1. CASE Z \subseteq A
      <4>1. Cardinality(Z) <= Cardinality(A)
        BY <2>2, <3>1, Together
      <4> QED
        BY <2>4, <2>5, <2>7, <4>1
    <3>2. Z \subseteq A
      <4>1. \A c \in Deliveries : next'[c] > k => next[c] > k
        <5> TAKE c \in Deliveries
        <5>1. CASE c = b
          BY <2>9, <5>1
        <5>2. CASE c # b
          BY <2>1, <5>2
        <5> QED
          BY <5>1, <5>2
      <4> QED
        BY <4>1 DEF A, Z, Applied
    <3> QED
      BY <3>1, <3>2
  <2> HIDE DEF PipeTypeOK
  <2>10. val[k] <= Cardinality(Z) + resends + 1
    BY <2>4, <2>5, <2>6, <2>7
  <2> QED
    BY <2>1, <2>5, <2>7, <2>8, <2>10, SMTT(20) DEF Z
<1>3. ASSUME UNCHANGED <<val, next, resends>> PROVE KeysAreCounted'
  BY <1>3 DEF KeysAreCounted, Applied
<1>4. CASE Pipelining!Refuse(b) \/ Pipelining!Start(b) \/ Pipelining!Send(b)
  BY <1>3, <1>4 DEF Pipelining!Refuse, Pipelining!Start, Pipelining!Send
<1>5. CASE Pipelining!OpReturns(b) \/ Pipelining!CountBatch(b) \/ Pipelining!OpFails(b)
  BY <1>3, <1>5 DEF Pipelining!OpReturns, Pipelining!CountBatch, Pipelining!OpFails
<1>6. CASE Pipelining!Drop(b)
  BY <1>3, <1>6 DEF Pipelining!Drop
<1> QED
  BY <1>1, <1>2, <1>4, <1>5, <1>6 DEF BatchSteps

\* The adapter's counters move with the batches they count.
LEMMA BatchCountersStep ==
    ASSUME PipeTypeOK, BatchesAreCounted, NEW b \in Deliveries, BatchSteps(b)
    PROVE  BatchesAreCounted'
<1> USE DEF PipeTypeOK, Pipelining!Goto, In
<1>1. In("ok") \in SUBSET Deliveries /\ In("failed") \in SUBSET Deliveries
  OBVIOUS
<1>2. CASE Pipelining!CountBatch(b)
  <2>1. /\ b \notin In("ok") /\ In("ok")' = In("ok") \cup {b} /\ In("failed")' = In("failed")
        /\ batches' = batches + 1 /\ failed' = failed
    BY <1>2 DEF Pipelining!CountBatch
  <2> HIDE DEF In
  <2> QED
    BY <1>1, <2>1, OneMore DEF BatchesAreCounted
<1>3. CASE Pipelining!OpFails(b)
  <2>1. /\ b \notin In("failed") /\ In("failed")' = In("failed") \cup {b} /\ In("ok")' = In("ok")
        /\ batches' = batches /\ failed' = failed + 1
    BY <1>3 DEF Pipelining!OpFails
  <2> HIDE DEF In
  <2> QED
    BY <1>1, <2>1, OneMore DEF BatchesAreCounted
<1>4. ASSUME UNCHANGED <<batches, failed>>, In("ok")' = In("ok"), In("failed")' = In("failed")
      PROVE  BatchesAreCounted'
  <2> HIDE DEF In
  <2> QED
    BY <1>4 DEF BatchesAreCounted
<1>5. CASE Pipelining!Refuse(b) \/ Pipelining!Start(b) \/ Pipelining!Send(b)
  BY <1>4, <1>5 DEF Pipelining!Refuse, Pipelining!Start, Pipelining!Send
<1>6. CASE Pipelining!OpReturns(b) \/ Pipelining!Apply(b)
  BY <1>4, <1>6 DEF Pipelining!OpReturns, Pipelining!Apply
<1>7. CASE Pipelining!Drop(b) \/ Pipelining!Resend(b)
  BY <1>4, <1>7 DEF Pipelining!Drop, Pipelining!Resend
<1> QED
  BY <1>2, <1>3, <1>5, <1>6, <1>7 DEF BatchSteps

\* A larger number of batches has no fewer keys.
LEMMA Scaled ==
    ASSUME NEW m \in Nat, NEW n \in Nat, m <= n
    PROVE  m * BatchSize <= n * BatchSize /\ m * BatchSize \in Nat /\ n * BatchSize \in Nat
<1>1. \A k \in Nat : (m + k) * BatchSize = m * BatchSize + k * BatchSize
  BY BatchAssumption
<1>2. \A k \in Nat : k * BatchSize \in Nat
  BY BatchAssumption
<1>3. n - m \in Nat /\ n = m + (n - m)
  OBVIOUS
<1>4. n * BatchSize = m * BatchSize + (n - m) * BatchSize
  BY <1>1, <1>3
<1> QED
  BY <1>2, <1>3, <1>4

\* A step of a batch leaves the answered ones alone and only widens the window.
LEMMA PipeReportStep ==
    ASSUME PipeTypeOK, PipeReportIsClose, NEW b \in Deliveries, BatchMoves(b), PipeTypeOK'
    PROVE  PipeReportIsClose'
<1> USE DEF PipeTypeOK, PipeStatsPc
<1> DEFINE Ok == Cardinality(In("ok") \ window)
           Failing == Cardinality(In("failed") \ window)
           W == Cardinality(window)
<1>1. /\ window \in SUBSET Deliveries /\ window' \in SUBSET Deliveries
      /\ window \subseteq window' /\ resends <= resends' /\ resends \in Nat /\ resends' \in Nat
      /\ statsPc' = statsPc /\ report' = report /\ report.sum \in Nat /\ report.batches \in Nat
      /\ report.failed \in Nat
  BY DEF BatchMoves
<1>2. W <= W' /\ W \in Nat /\ W' \in Nat
  BY <1>1, Together
<1>3. Ok \in Nat /\ Failing \in Nat
  <2>1. In("ok") \ window \in SUBSET Deliveries /\ In("failed") \ window \in SUBSET Deliveries
    BY DEF In
  <2> QED
    BY <2>1, Together
<1>4. CASE statsPc \in {"batches", "failed"}
  <2>1. \A c \in Deliveries \ window : pc[c] \in {"new", "refused", "ok", "failed"}
    BY <1>4 DEF PipeReportIsClose
  <2>2. \A c \in Deliveries \ window' : pc'[c] \in {"new", "refused", "ok", "failed"}
    BY <1>4, <2>1 DEF BatchMoves, Pipelining!Reading
  <2>3. /\ (In("ok") \ window)' = In("ok") \ window
        /\ (In("failed") \ window)' = In("failed") \ window
    BY <1>4, <2>1 DEF BatchMoves, Pipelining!Reading, In
  <2>4. Ok' = Ok /\ Failing' = Failing
    BY <2>3
  <2>5. /\ Ok * BatchSize <= report.sum
        /\ report.sum <= (Ok + Failing + W + resends) * BatchSize
        /\ statsPc = "failed" => Ok <= report.batches /\ report.batches <= Ok + W
    BY <1>4 DEF PipeReportIsClose
  <2> HIDE DEF Ok, Failing, W, PipeTypeOK
  <2>6. /\ Ok + Failing + W + resends \in Nat /\ Ok + Failing + W' + resends' \in Nat
        /\ Ok + Failing + W + resends <= Ok + Failing + W' + resends'
    <3>1. \A m, n, w, v, q, r \in Nat :
            w <= v /\ q <= r => /\ m + n + w + q \in Nat /\ m + n + v + r \in Nat
                               /\ m + n + w + q <= m + n + v + r
      OBVIOUS
    <3> QED
      BY <1>1, <1>2, <1>3, <3>1
  <2>7. /\ (Ok + Failing + W + resends) * BatchSize
                <= (Ok + Failing + W' + resends') * BatchSize
        /\ (Ok + Failing + W + resends) * BatchSize \in Nat
        /\ (Ok + Failing + W' + resends') * BatchSize \in Nat
    BY <2>6, Scaled
  <2>8. report.sum <= (Ok + Failing + W' + resends') * BatchSize
    BY <1>1, <2>5, <2>7
  <2>9. statsPc = "failed" => Ok <= report.batches /\ report.batches <= Ok + W'
    BY <1>1, <1>2, <1>3, <2>5
  <2> QED
    BY <1>1, <1>4, <2>2, <2>4, <2>5, <2>8, <2>9 DEF PipeReportIsClose, Ok, Failing, W
<1>5. CASE statsPc = "done"
  <2>1. window' = window
    BY <1>5 DEF BatchMoves, Pipelining!Reading
  <2>2. /\ report.batches * BatchSize <= report.sum + W * BatchSize
        /\ report.sum <= report.batches * BatchSize + W * BatchSize
                            + (report.failed + resends) * BatchSize
    BY <1>5 DEF PipeReportIsClose
  <2>3. /\ (report.failed + resends) * BatchSize <= (report.failed + resends') * BatchSize
        /\ (report.failed + resends) * BatchSize \in Nat
        /\ (report.failed + resends') * BatchSize \in Nat
    <3>1. /\ report.failed + resends \in Nat /\ report.failed + resends' \in Nat
          /\ report.failed + resends <= report.failed + resends'
      BY <1>1
    <3> HIDE DEF PipeTypeOK
    <3> QED
      BY <3>1, Scaled
  <2>4. report.batches * BatchSize \in Nat /\ W * BatchSize \in Nat
    BY <1>1, <1>2, BatchAssumption
  <2> HIDE DEF W, PipeTypeOK
  <2>5. report.sum <= report.batches * BatchSize + W * BatchSize
                            + (report.failed + resends') * BatchSize
    BY <1>1, <2>2, <2>3, <2>4
  <2> QED
    BY <1>1, <1>5, <2>1, <2>2, <2>5 DEF PipeReportIsClose, W
<1>6. CASE statsPc \in {"new", "erred"}
  BY <1>1, <1>6 DEF PipeReportIsClose
<1> QED
  BY <1>4, <1>5, <1>6

\* What one MGET totals: an increment of every confirmed batch for every key, and
\* no more than the failed ones, those in flight and the resent add.
LEMMA SumIsClose ==
    ASSUME PipeInv
    PROVE  LET sum == Pipelining!MapThenSumSet(LAMBDA k : val[k], Pipelining!Keys)
               hi == Cardinality(In("ok")) + Cardinality(In("failed"))
                        + Cardinality(Pipelining!InFlight) + resends
           IN  sum \in (Cardinality(In("ok")) * BatchSize)..(hi * BatchSize)
<1> USE DEF PipeInv, PipeTypeOK
<1> DEFINE lo == Cardinality(In("ok"))
           hi == Cardinality(In("ok")) + Cardinality(In("failed"))
                    + Cardinality(Pipelining!InFlight) + resends
           K == Pipelining!Keys
<1>1. /\ In("ok") \in SUBSET Deliveries /\ In("failed") \in SUBSET Deliveries
      /\ Pipelining!InFlight \in SUBSET Deliveries
      /\ (In("failed") \cup Pipelining!InFlight) \in SUBSET Deliveries
  BY DEF In, Pipelining!InFlight
<1>2. /\ Cardinality(In("ok")) \in Nat /\ Cardinality(In("failed")) \in Nat
      /\ Cardinality(Pipelining!InFlight) \in Nat /\ resends \in Nat
  BY <1>1, Together
<1>3. ASSUME NEW k \in K PROVE val[k] \in lo..hi
  <2> DEFINE A == Applied(k)
             F == In("failed") \cup Pipelining!InFlight
  <2>1. /\ A \in SUBSET Deliveries /\ In("ok") \subseteq A /\ A \subseteq In("ok") \cup F
    <3>1. k \in 1..BatchSize
      BY DEF Pipelining!Keys
    <3>2. \A b \in Deliveries : pc[b] = "ok" => next[b] > k
      BY <3>1, BatchAssumption DEF BatchesInOrder
    <3>3. \A b \in Deliveries : next[b] > k => pc[b] \in {"ok", "failed", "run", "ended"}
      BY <3>1, BatchAssumption DEF BatchesInOrder, PipePc
    <3> QED
      BY <3>2, <3>3 DEF Applied, In, Pipelining!InFlight
  <2>2. Cardinality(A) <= val[k] /\ val[k] <= Cardinality(A) + resends /\ val[k] \in Nat
    BY DEF KeysAreCounted
  <2> HIDE DEF A, F
  <2>3. In("ok") \cup F \in SUBSET Deliveries /\ F \in SUBSET Deliveries
    BY <1>1 DEF F
  <2>4. /\ Cardinality(In("ok")) <= Cardinality(A) /\ Cardinality(A) \in Nat
        /\ Cardinality(A) <= Cardinality(In("ok") \cup F)
        /\ Cardinality(In("ok") \cup F) <= Cardinality(In("ok")) + Cardinality(F)
        /\ Cardinality(In("ok") \cup F) \in Nat /\ Cardinality(F) \in Nat
    BY <1>1, <2>1, <2>3, Together
  <2>5. Cardinality(F) <= Cardinality(In("failed")) + Cardinality(Pipelining!InFlight)
    BY <1>1, Together DEF F
  <2> HIDE DEF PipeInv
  <2> QED
    BY <1>2, <2>2, <2>4, <2>5
<1>4. IsFiniteSet(K) /\ Cardinality(K) = BatchSize
  <2>1. 1 \in Int /\ BatchSize \in Int
    BY BatchAssumption
  <2>2. /\ IsFiniteSet(1..BatchSize)
        /\ Cardinality(1..BatchSize) = IF 1 > BatchSize THEN 0 ELSE BatchSize - 1 + 1
    BY <2>1, FS_Interval
  <2> QED
    BY <2>2, BatchAssumption DEF Pipelining!Keys
<1>5. lo \in Nat /\ hi \in Nat
  BY <1>2
<1>6. val \in [K -> lo..hi]
  <2>1. val \in [K -> Nat]
    OBVIOUS
  <2> HIDE DEF lo, hi, K, PipeInv
  <2> QED
    BY <1>3, <2>1
<1> HIDE DEF lo, hi, K, PipeInv
<1>7. Pipelining!MapThenSumSet(LAMBDA k : val[k], K) \in (lo * Cardinality(K))..(hi * Cardinality(K))
  BY <1>4, <1>5, <1>6, SumIsBounded
<1> QED
  BY <1>4, <1>7 DEF lo, hi, K

\* The keys of several batches are those of each.
LEMMA Spread ==
    \A m, n \in Nat : (m + n) * BatchSize = m * BatchSize + n * BatchSize
  BY BatchAssumption

\* /stats totals the keys, then loads the counters: what moved meanwhile is in
\* the window.
LEMMA PipeStatsStep ==
    ASSUME PipeInv, Pipelining!Sum \/ Pipelining!StatsLoads
    PROVE  PipeInv'
<1> USE DEF PipeTypeOK, PipeStatsPc
<1>1. UNCHANGED <<variant, val, pc, sent, next, resends, batches, failed>>
  BY DEF Pipelining!Sum, Pipelining!StatsLoads, Pipelining!traffic
<1>2. BatchesInOrder' /\ KeysAreCounted' /\ BatchesAreCounted'
  BY <1>1 DEF PipeInv, BatchesInOrder, KeysAreCounted, BatchesAreCounted, Applied, In
<1>3. \A p : In(p) \in SUBSET Deliveries /\ In(p)' = In(p)
  BY <1>1 DEF In
<1>4. CASE Pipelining!Sum
  <2> DEFINE sum == Pipelining!MapThenSumSet(LAMBDA k : val[k], Pipelining!Keys)
             O == Cardinality(In("ok"))
             F == Cardinality(In("failed"))
             W == Cardinality(Pipelining!InFlight)
  <2>1. sum \in (O * BatchSize)..((O + F + W + resends) * BatchSize)
    BY SumIsClose
  <2>2. /\ statsPc' \in {"batches", "erred"} /\ report' = [report EXCEPT !.sum = sum]
        /\ window' = Pipelining!InFlight
    BY <1>4 DEF Pipelining!Sum
  <2>3. Pipelining!InFlight \in SUBSET Deliveries
    BY DEF Pipelining!InFlight
  <2>4. O \in Nat /\ F \in Nat /\ W \in Nat /\ resends \in Nat
    BY <1>3, <2>3, Together DEF PipeInv
  <2>5. O * BatchSize \in Nat /\ (O + F + W + resends) * BatchSize \in Nat
    <3>1. O + F + W + resends \in Nat
      BY <2>4
    <3> HIDE DEF O, F, W
    <3> QED
      BY <2>4, <3>1, Scaled
  <2>6. sum \in Nat /\ O * BatchSize <= sum /\ sum <= (O + F + W + resends) * BatchSize
    BY <2>1, <2>5
  <2> HIDE DEF sum
  <2>7. PipeTypeOK'
    BY <1>1, <2>2, <2>3, <2>6 DEF PipeInv
  <2>8. (In("ok") \ window)' = In("ok") /\ (In("failed") \ window)' = In("failed")
    BY <1>3, <2>2 DEF In, Pipelining!InFlight
  <2>9. \A b \in Deliveries \ window' : pc'[b] \in {"new", "refused", "ok", "failed"}
    BY <1>1, <2>2 DEF PipeInv, PipePc, Pipelining!InFlight
  <2>10. report'.sum = sum
    BY <2>2 DEF PipeInv
  <2>11. PipeReportIsClose'
    BY <1>1, <2>2, <2>6, <2>8, <2>9, <2>10 DEF PipeReportIsClose
  <2> QED
    BY <1>2, <2>7, <2>11 DEF PipeInv
<1> DEFINE Ok == Cardinality(In("ok") \ window)
           Failing == Cardinality(In("failed") \ window)
           W == Cardinality(window)
<1>5. Ok \in Nat /\ Failing \in Nat /\ W \in Nat /\ resends \in Nat
  <2>1. /\ In("ok") \ window \in SUBSET Deliveries /\ In("failed") \ window \in SUBSET Deliveries
        /\ window \in SUBSET Deliveries
    BY <1>3 DEF PipeInv
  <2> QED
    BY <2>1, Together DEF PipeInv
<1>6. ASSUME statsPc \in {"batches", "failed"}
      PROVE  /\ \A b \in Deliveries \ window : pc[b] \in {"new", "refused", "ok", "failed"}
             /\ Ok * BatchSize <= report.sum
             /\ report.sum <= (Ok + Failing + W + resends) * BatchSize
             /\ statsPc = "failed" => Ok <= report.batches /\ report.batches <= Ok + W
  BY <1>6 DEF PipeInv, PipeReportIsClose
<1>7. CASE statsPc = "batches" /\ Pipelining!StatsLoads
  <2>1. statsPc' = "failed" /\ report' = [report EXCEPT !.batches = batches] /\ window' = window
    BY <1>7 DEF Pipelining!StatsLoads
  <2>2. batches = Cardinality(In("ok"))
    BY DEF PipeInv, BatchesAreCounted
  <2>3. Ok <= Cardinality(In("ok")) /\ Cardinality(In("ok")) <= Ok + W
    <3> DEFINE A == In("ok") \ window
               B == In("ok") \cap window
    <3>1. /\ A \in SUBSET Deliveries /\ B \in SUBSET Deliveries /\ window \in SUBSET Deliveries
          /\ A \cup B = In("ok") /\ A \subseteq In("ok") /\ B \subseteq window
      BY <1>3 DEF PipeInv
    <3> HIDE DEF A, B
    <3>2. /\ Cardinality(A) <= Cardinality(In("ok")) /\ Cardinality(B) <= Cardinality(window)
          /\ Cardinality(A \cup B) <= Cardinality(A) + Cardinality(B)
          /\ Cardinality(A) \in Nat /\ Cardinality(B) \in Nat /\ Cardinality(window) \in Nat
          /\ Cardinality(A \cup B) \in Nat
      BY <1>3, <3>1, Together
    <3>3. Cardinality(A \cup B) <= Cardinality(A) + Cardinality(window)
      BY <3>2
    <3> QED
      BY <3>1, <3>2, <3>3 DEF A
  <2>4. PipeTypeOK'
    BY <1>1, <2>1 DEF PipeInv
  <2>5. report'.sum = report.sum /\ report'.batches = batches
    BY <2>1 DEF PipeInv
  <2>6. /\ (In("ok") \ window)' = In("ok") \ window
        /\ (In("failed") \ window)' = In("failed") \ window
    BY <1>3, <2>1
  <2>7. PipeReportIsClose'
    BY <1>1, <1>6, <1>7, <2>1, <2>2, <2>3, <2>5, <2>6 DEF PipeReportIsClose
  <2> QED
    BY <1>2, <2>4, <2>7 DEF PipeInv
<1>8. CASE statsPc = "failed" /\ Pipelining!StatsLoads
  <2>1. statsPc' = "done" /\ report' = [report EXCEPT !.failed = failed] /\ window' = window
    BY <1>8 DEF Pipelining!StatsLoads
  <2>2. PipeTypeOK'
    BY <1>1, <2>1 DEF PipeInv
  <2>3. report'.sum = report.sum /\ report'.batches = report.batches /\ report'.failed = failed
    BY <2>1 DEF PipeInv
  <2>4. Failing <= failed /\ failed \in Nat /\ report.batches \in Nat /\ report.sum \in Nat
    <3>1. In("failed") \ window \in SUBSET Deliveries /\ In("failed") \in SUBSET Deliveries
      BY <1>3
    <3> QED
      BY <3>1, Together DEF PipeInv, BatchesAreCounted
  <2>5. /\ Ok * BatchSize <= report.sum /\ Ok <= report.batches /\ report.batches <= Ok + W
        /\ report.sum <= (Ok + Failing + W + resends) * BatchSize
    BY <1>6, <1>8
  <2> DEFINE B == report.batches
  <2>6. PICK m, n, f, w, r \in Nat :
            m = Ok /\ n = B /\ f = failed /\ w = W /\ r = resends
    BY <1>5, <2>4
  <2> HIDE DEF Ok, Failing, W, B, PipeTypeOK
  <2>7. n * BatchSize <= report.sum + w * BatchSize
    <3>1. m + w \in Nat /\ n <= m + w
      BY <2>5, <2>6 DEF B
    <3>2. n * BatchSize <= m * BatchSize + w * BatchSize
      BY <3>1, Scaled, Spread
    <3>3. n * BatchSize \in Nat /\ m * BatchSize \in Nat /\ w * BatchSize \in Nat
      BY BatchAssumption
    <3>4. m * BatchSize <= report.sum
      BY <2>5, <2>6
    <3> QED
      BY <2>4, <3>2, <3>3, <3>4
  <2>8. report.sum <= n * BatchSize + w * BatchSize + (f + r) * BatchSize
    <3>1. /\ Ok + Failing + W + resends \in Nat /\ (n + w) + (f + r) \in Nat
          /\ Ok + Failing + W + resends <= (n + w) + (f + r)
      <4>1. \A h \in Nat : h <= f =>
                m + h + w + r \in Nat /\ (n + w) + (f + r) \in Nat
                /\ (m <= n => m + h + w + r <= (n + w) + (f + r))
        OBVIOUS
      <4> QED
        BY <1>5, <2>4, <2>5, <2>6, <4>1 DEF B
    <3>2. (n + w) + (f + r) \in Nat /\ n + w \in Nat /\ f + r \in Nat
      OBVIOUS
    <3>3. /\ (Ok + Failing + W + resends) * BatchSize <= ((n + w) + (f + r)) * BatchSize
          /\ (Ok + Failing + W + resends) * BatchSize \in Nat
      BY <3>1, Scaled
    <3>4. ((n + w) + (f + r)) * BatchSize = n * BatchSize + w * BatchSize + (f + r) * BatchSize
      BY <3>2, Spread
    <3>5. ((n + w) + (f + r)) * BatchSize \in Nat
      BY <3>2, Scaled
    <3> QED
      BY <2>4, <2>5, <3>3, <3>4, <3>5
  <2>9. PipeReportIsClose'
    <3>1. /\ report'.batches = n /\ report'.failed = f /\ report'.sum = report.sum
          /\ resends' = r /\ Cardinality(window') = w /\ statsPc' = "done"
      BY <1>1, <2>1, <2>3, <2>6 DEF B, W
    <3> QED
      BY <2>7, <2>8, <3>1 DEF PipeReportIsClose
  <2> QED
    BY <1>2, <2>2, <2>9 DEF PipeInv
<1> QED
  BY <1>4, <1>7, <1>8 DEF Pipelining!StatsLoads

\* The counters start at zero and no batch has started.
LEMMA PipeInit == Pipelining!Init => PipeInv
<1> SUFFICES ASSUME Pipelining!Init PROVE PipeInv
  OBVIOUS
<1> USE BatchAssumption DEF Pipelining!Init, Pipelining!Keys
<1>1. PipeTypeOK
  BY DEF PipeTypeOK, PipePc, PipeStatsPc
<1>2. BatchesInOrder
  BY DEF BatchesInOrder
<1>3. \A k \in Pipelining!Keys : Applied(k) = {} /\ val[k] = 0
  BY DEF Applied
<1>4. In("ok") = {} /\ In("failed") = {}
  BY DEF In
<1>5. Cardinality({}) = 0
  BY FS_EmptySet
<1>6. KeysAreCounted
  <2>1. resends = 0
    OBVIOUS
  <2> HIDE DEF Pipelining!Init, Pipelining!Keys
  <2> QED
    BY <1>3, <1>5, <2>1 DEF KeysAreCounted
<1>7. BatchesAreCounted /\ PipeReportIsClose
  BY <1>4, <1>5 DEF BatchesAreCounted, PipeReportIsClose
<1> QED
  BY <1>1, <1>2, <1>6, <1>7 DEF PipeInv

\* Every step of the pipelining adapter preserves the invariant.
LEMMA PipeStep ==
    ASSUME PipeInv, Pipelining!Next \/ UNCHANGED Pipelining!vars
    PROVE  PipeInv'
<1>1. ASSUME NEW b \in Deliveries, BatchSteps(b) PROVE PipeInv'
  BY <1>1, BatchStep, KeysStep, BatchCountersStep, PipeReportStep DEF PipeInv
<1>2. CASE UNCHANGED Pipelining!vars
  BY <1>2 DEF PipeInv, PipeTypeOK, BatchesInOrder, KeysAreCounted, BatchesAreCounted,
              PipeReportIsClose, Applied, In, Pipelining!vars, Pipelining!traffic,
              Pipelining!stats
<1> QED
  BY <1>1, <1>2, PipeStatsStep DEF Pipelining!Next, Pipelining!Idle, BatchSteps

\* The adapter's invariant, in behaviours that serve pipelining-work.
LEMMA ServedPipeInvariant == LessonsSpec => [](lesson = "pipeline" => PipeInv)
<1>1. LessonsInit => (lesson = "pipeline" => PipeInv)
  BY PipeInit DEF LessonsInit
<1>2. (lesson = "pipeline" => PipeInv) /\ [LessonsNext]_servedVars
        => (lesson = "pipeline" => PipeInv)'
  <2> SUFFICES ASSUME lesson = "pipeline" => PipeInv, [LessonsNext]_servedVars,
                      lesson' = "pipeline"
               PROVE  PipeInv'
    OBVIOUS
  <2>1. lesson = "pipeline"
    BY DEF LessonsNext, ServeCounter, ServeCacheAside, ServePipelining,
           ServeSqliteWal, servedVars
  <2>2. Pipelining!Next \/ UNCHANGED Pipelining!vars
    BY <2>1 DEF LessonsNext, ServeCounter, ServeCacheAside, ServePipelining,
                ServeSqliteWal, servedVars, vars, tally, statsVars, pipelineOnly,
                Pipelining!vars, Pipelining!traffic, Pipelining!stats
  <2> QED
    BY <2>1, <2>2, PipeStep
<1> QED
  BY <1>1, <1>2, PTL DEF LessonsSpec, servedVars

\* Pipelining counts with the Cardinality of its own FiniteSets, which is ours.
LEMMA PipeCounts == \A S : Pipelining!Cardinality(S) = Cardinality(S)
  BY DEF Pipelining!Cardinality, Cardinality, Pipelining!IsFiniteSet, IsFiniteSet

\* Every key holds an increment of each confirmed batch, and a report is as close
\* to the stored sum as the failed, the resent and the batches of its window allow.
LEMMA SumStaysAccounted == PipeInv => Pipelining!SumIsAccounted
<1> SUFFICES ASSUME PipeInv PROVE Pipelining!SumIsAccounted
  OBVIOUS
<1>1. ASSUME NEW k \in Pipelining!Keys PROVE val[k] >= batches
  <2>1. \A b \in Deliveries : pc[b] = "ok" => next[b] > k
    BY BatchAssumption DEF PipeInv, BatchesInOrder, Pipelining!Keys
  <2>2. /\ In("ok") \subseteq Applied(k) /\ In("ok") \in SUBSET Deliveries
        /\ Applied(k) \in SUBSET Deliveries
    BY <2>1 DEF In, Applied
  <2>3. /\ Cardinality(In("ok")) <= Cardinality(Applied(k))
        /\ Cardinality(In("ok")) \in Nat /\ Cardinality(Applied(k)) \in Nat
    BY <2>2, Together
  <2>4. /\ Cardinality(Applied(k)) <= val[k] /\ batches = Cardinality(In("ok"))
        /\ val[k] \in Nat
    BY DEF PipeInv, KeysAreCounted, BatchesAreCounted, PipeTypeOK
  <2> QED
    BY <2>3, <2>4
<1>2. ASSUME statsPc = "done"
      PROVE  report.sum \in (report.batches * BatchSize - Cardinality(window) * BatchSize)..
                (report.batches * BatchSize + Cardinality(window) * BatchSize
                    + (report.failed + resends) * BatchSize)
  <2>1. /\ window \in SUBSET Deliveries /\ report.sum \in Nat /\ report.batches \in Nat
        /\ report.failed + resends \in Nat
    BY DEF PipeInv, PipeTypeOK
  <2>2. Cardinality(window) \in Nat
    BY <2>1, Together
  <2>3. /\ report.batches * BatchSize \in Nat /\ Cardinality(window) * BatchSize \in Nat
        /\ (report.failed + resends) * BatchSize \in Nat
    BY <2>1, <2>2, Scaled
  <2>4. /\ report.batches * BatchSize <= report.sum + Cardinality(window) * BatchSize
        /\ report.sum <= report.batches * BatchSize + Cardinality(window) * BatchSize
                            + (report.failed + resends) * BatchSize
    BY <1>2 DEF PipeInv, PipeReportIsClose
  <2> QED
    BY <2>1, <2>3, <2>4
<1> QED
  BY <1>1, <1>2, PipeCounts DEF Pipelining!SumIsAccounted

\* Whichever of the three adapters is served, its /stats report is accounted for: by the requests
\* of its window, the failed and the resent, for any number of requests and keys.
THEOREM StatsStayAccounted == LessonsSpec => []StatsAreAccounted
<1>1. (/\ lesson = "cache" => CacheInv
       /\ lesson = "pipeline" => PipeInv
       /\ lesson = "sqlite" => SqliteWal!RowsAreAccounted)
        => StatsAreAccounted
  BY CacheReportStaysClose, SumStaysAccounted DEF StatsAreAccounted
<1> QED
  BY <1>1, ServedCacheInvariant, ServedPipeInvariant, RowsStayAccounted, PTL
=============================================================================
