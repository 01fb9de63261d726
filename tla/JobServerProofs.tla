-------------------------- MODULE JobServerProofs --------------------------
(***************************************************************************)
(* Proofs about the queue adapter, for any number of requests, jobs and    *)
(* pool connections.                                                       *)
(*                                                                         *)
(* The inductive invariant ties the Go side of a request, its Postgres     *)
(* session and the table together: a session that holds a claim holds the  *)
(* row's lock and the row is still pending, a committed one's row is done, *)
(* and an insert under way owns an id nobody else has.  On top of it the   *)
(* ledger relates the counters of /stats to the requests and to the rows   *)
(* they inserted and finished.                                             *)
(***************************************************************************)
EXTENDS JobServer, FiniteSetTheorems, TLAPS

-----------------------------------------------------------------------------
(* The inductive invariant *)

\* Before the first statement of a transaction, and while the request is
\* between its insert and Work, it has no session.
NoSessionYet ==
    \A c \in Callers :
        pc[c] \in {"new", "admitted", "inserted", "ready", "refused"}
            => srv[c] = "none"

\* Work returns a claim only after its COMMIT succeeded.
WonIsCommitted == \A c \in Callers : pc[c] \in {"won", "ok"} => srv[c] = "committed"

\* A claimed row is locked by its session and nobody has finished it.
ClaimIsHeld ==
    \A c \in Callers : srv[c] \in {"claimed", "committing"} =>
        job[c] \in Ids /\ lock[job[c]] = c /\ rows[job[c]] = "pending"

CommittedIsDone ==
    \A c \in Callers : srv[c] = "committed" =>
        job[c] \in Ids /\ rows[job[c]] = "done"

\* The ids of inserts under way are in no table yet and in no other insert.
InsertIsFresh ==
    /\ \A c \in Callers : srv[c] = "insert" =>
            ins[c] \in Ids /\ ins[c] < nextId /\ rows[ins[c]] = "absent"
    /\ \A c, d \in Callers :
            c # d /\ srv[c] = "insert" /\ srv[d] = "insert" => ins[c] # ins[d]
    /\ \A i \in Ids : nextId <= i => rows[i] = "absent"

\* From its insert's COMMIT to the end of its scan a request's own job is in
\* the table.
OwnRow ==
    \A c \in Callers :
        pc[c] \in {"inserted", "ready"} \/ srv[c] \in {"open", "scan", "empty"} =>
            ins[c] \in Ids /\ rows[ins[c]] \in {"pending", "done"}

\* A lock is held by a running session, and a session with a claim under way
\* has its call inside Work, unless that has failed.
LockHasSession ==
    \A i \in Ids, c \in Callers :
        lock[i] = c => srv[c] \in {"scan", "claimed", "empty", "committing"}

SessionHasCall ==
    \A c \in Callers :
        srv[c] \in {"scan", "claimed", "empty", "committing"} =>
            pc[c] \in {"claim", "work", "commit", "failed"}

\* A waiting scan has its own job still to visit, or another request did it.
BlockingScan ==
    mode = "blocking" =>
        \A c \in Callers :
            /\ srv[c] = "scan" => ins[c] \in snap[c] \/ rows[ins[c]] = "done"
            /\ srv[c] = "empty" => rows[ins[c]] = "done"

\* Every id noted came with one answered request.
TallyIsExact ==
    /\ claims = Cardinality(jobs)
    /\ \A j \in jobs : \E c \in Callers : pc[c] = "ok" /\ job[c] = j

IInv ==
    /\ TypeOK
    /\ NoSessionYet
    /\ WonIsCommitted
    /\ ClaimIsHeld
    /\ CommittedIsDone
    /\ InsertIsFresh
    /\ OwnRow
    /\ BlockingScan
    /\ TallyIsExact
    /\ LockHasSession
    /\ SessionHasCall
    /\ OrderedLocking
    /\ ExclusiveJobs
    /\ EmptyOnlyAfterOwnJobDone

-----------------------------------------------------------------------------
(* Type correctness *)

\* Every step keeps every variable in its type.  The job noted by Tally is an
\* id because the claim it belongs to was committed.
LEMMA TypeStep == IInv /\ [Next]_vars => TypeOK'
<1> SUFFICES ASSUME TypeOK, WonIsCommitted, CommittedIsDone, [Next]_vars
             PROVE  TypeOK'
  BY DEF IInv
<1> USE DEF TypeOK
<1>1. ASSUME NEW c \in Callers, Admit(c) \/ Refuse(c) PROVE TypeOK'
  BY <1>1 DEF Admit, Refuse, tally, Pc
<1>2. ASSUME NEW c \in Callers, Enqueue(c) PROVE TypeOK'
  BY <1>2 DEF Enqueue, tally, Pc, Srv, Ids
<1>3. ASSUME NEW c \in Callers, InsertReturns(c) \/ InsertFails(c) PROVE TypeOK'
  BY <1>3 DEF InsertReturns, InsertFails, Pc
<1>4. ASSUME NEW c \in Callers, Working(c) PROVE TypeOK'
  BY <1>4 DEF Working, WorkGo, Begin, ClaimStarts, ClaimReturns, Finish,
              Pending, tally, Pc, Srv
<1>5. ASSUME NEW c \in Callers, WorkSucceeds(c) PROVE TypeOK'
  BY <1>5 DEF WorkSucceeds, CommitReturns, tally, Pc
<1>6. ASSUME NEW c \in Callers, WorkFindsNone(c) PROVE TypeOK'
  BY <1>6 DEF Released, WorkFindsNone, ClaimFindsNone, Pc, Srv
<1>7. ASSUME NEW c \in Callers, WorkFails(c) PROVE TypeOK'
  BY <1>7 DEF Released, WorkFails, StatementFails, ContextEnds, Pc, Srv
<1>8. ASSUME NEW c \in Callers, Tally(c) PROVE TypeOK'
  <2>1. jobs' \in SUBSET Ids
    BY <1>8 DEF Tally, WonIsCommitted, CommittedIsDone
  <2> QED
    BY <1>8, <2>1 DEF Tally, Pc
<1>9. ASSUME NEW c \in Callers, InsertCommits(c) PROVE TypeOK'
  BY <1>9 DEF InsertCommits, tally, Pc, Srv, Status
<1>10. ASSUME NEW c \in Callers, Database(c) PROVE TypeOK'
  BY <1>10
     DEF Released, Database, Postgres, ScanLocks, ScanSkips, ScanEnds, Commits,
         SessionEnds, tally, Srv, Status
<1>11. CASE UNCHANGED vars
  BY <1>11 DEF vars, txVars, tally
<1> QED
  BY <1>1, <1>2, <1>3, <1>4, <1>5, <1>6, <1>7, <1>8, <1>9, <1>10, <1>11
     DEF Next, Request, Idle

-----------------------------------------------------------------------------
(* The invariant is inductive *)

\* One step per operation: the parts of the invariant about variables it leaves
\* alone together, then each part it can disturb, with the parts it rests on.
LEMMA InvStep == IInv /\ [Next]_vars => IInv'
<1> SUFFICES ASSUME IInv, [Next]_vars PROVE IInv'
  OBVIOUS
<1>0. TypeOK'
  BY TypeStep
<1> USE QueueAssumption, <1>0 DEF IInv, TypeOK
<1>1. ASSUME NEW c \in Callers, Admit(c) \/ Refuse(c)
      PROVE  IInv'
  <2>1. UNCHANGED <<rows, lock, srv, snap, job, mode, ins, nextId>>
    BY <1>1 DEF Admit, Refuse, tally
  <2>2. /\ ClaimIsHeld' /\ CommittedIsDone' /\ InsertIsFresh' /\ BlockingScan'
        /\ LockHasSession' /\ OrderedLocking' /\ ExclusiveJobs'
    BY <2>1 DEF ClaimIsHeld, CommittedIsDone, InsertIsFresh, BlockingScan,
           LockHasSession, OrderedLocking, ExclusiveJobs, OwnsJob
  <2>3. SessionHasCall'
    BY <1>1 DEF Admit, Refuse, tally, SessionHasCall, NoSessionYet
  <2>4. NoSessionYet'
    BY <1>1 DEF Admit, Refuse, tally, NoSessionYet
  <2>5. WonIsCommitted'
    BY <1>1 DEF Admit, Refuse, tally, WonIsCommitted
  <2>6. OwnRow'
    BY <1>1 DEF Admit, Refuse, tally, OwnRow
  <2>7. TallyIsExact'
    BY <1>1 DEF Admit, Refuse, tally, TallyIsExact
  <2>8. EmptyOnlyAfterOwnJobDone'
    BY <1>1 DEF Admit, Refuse, tally, EmptyOnlyAfterOwnJobDone
  <2> QED
    BY <2>2, <2>3, <2>4, <2>5, <2>6, <2>7, <2>8
<1>2. ASSUME NEW c \in Callers, Enqueue(c)
      PROVE  IInv'
  <2>1. InsertIsFresh'
    BY <1>2 DEF Enqueue, tally, InsertIsFresh, NoSessionYet, Ids
  <2>2. LockHasSession'
    BY <1>2 DEF Enqueue, tally, LockHasSession, NoSessionYet
  <2>3. NoSessionYet'
    BY <1>2 DEF Enqueue, tally, NoSessionYet
  <2>4. WonIsCommitted'
    BY <1>2 DEF Enqueue, tally, WonIsCommitted
  <2>5. ClaimIsHeld'
    BY <1>2 DEF Enqueue, tally, ClaimIsHeld
  <2>6. CommittedIsDone'
    BY <1>2 DEF Enqueue, tally, CommittedIsDone
  <2>7. OwnRow'
    BY <1>2 DEF Enqueue, tally, OwnRow
  <2>8. BlockingScan'
    BY <1>2 DEF Enqueue, tally, BlockingScan
  <2>9. TallyIsExact'
    BY <1>2 DEF Enqueue, tally, TallyIsExact
  <2>10. SessionHasCall'
    BY <1>2 DEF Enqueue, tally, SessionHasCall
  <2>11. OrderedLocking'
    BY <1>2 DEF Enqueue, tally, OrderedLocking, Ids
  <2>12. ExclusiveJobs'
    BY <1>2 DEF Enqueue, tally, ExclusiveJobs, OwnsJob
  <2>13. EmptyOnlyAfterOwnJobDone'
    BY <1>2 DEF Enqueue, tally, EmptyOnlyAfterOwnJobDone
  <2> QED
    BY <2>1, <2>2, <2>3, <2>4, <2>5, <2>6, <2>7, <2>8, <2>9, <2>10, <2>11, <2>12, <2>13
<1>3. ASSUME NEW c \in Callers, InsertReturns(c) \/ InsertFails(c)
      PROVE  IInv'
  <2>1. UNCHANGED <<rows, lock, srv, snap, job, mode, ins, nextId>>
    BY <1>3 DEF InsertReturns, InsertFails
  <2>2. /\ ClaimIsHeld' /\ CommittedIsDone' /\ InsertIsFresh' /\ BlockingScan'
        /\ LockHasSession' /\ OrderedLocking' /\ ExclusiveJobs'
    BY <2>1 DEF ClaimIsHeld, CommittedIsDone, InsertIsFresh, BlockingScan,
           LockHasSession, OrderedLocking, ExclusiveJobs, OwnsJob
  <2>3. SessionHasCall'
    BY <1>3 DEF InsertReturns, InsertFails, SessionHasCall, NoSessionYet
  <2>4. NoSessionYet'
    BY <1>3 DEF InsertReturns, InsertFails, NoSessionYet
  <2>5. WonIsCommitted'
    BY <1>3 DEF InsertReturns, InsertFails, WonIsCommitted
  <2>6. OwnRow'
    BY <1>3 DEF InsertReturns, InsertFails, OwnRow
  <2>7. TallyIsExact'
    BY <1>3 DEF InsertReturns, InsertFails, TallyIsExact
  <2>8. EmptyOnlyAfterOwnJobDone'
    BY <1>3 DEF InsertReturns, InsertFails, EmptyOnlyAfterOwnJobDone
  <2> QED
    BY <2>2, <2>3, <2>4, <2>5, <2>6, <2>7, <2>8
<1>4. ASSUME NEW c \in Callers, Begin(c) /\ Working(c)
      PROVE  IInv'
  <2>1. LockHasSession'
    BY <1>4 DEF Working, Begin, tally, LockHasSession, NoSessionYet
  <2>2. NoSessionYet'
    BY <1>4 DEF Working, Begin, tally, NoSessionYet
  <2>3. WonIsCommitted'
    BY <1>4 DEF Working, Begin, tally, WonIsCommitted
  <2>4. ClaimIsHeld'
    BY <1>4 DEF Working, Begin, tally, ClaimIsHeld
  <2>5. CommittedIsDone'
    BY <1>4 DEF Working, Begin, tally, CommittedIsDone
  <2>6. InsertIsFresh'
    BY <1>4 DEF Working, Begin, tally, InsertIsFresh, Ids
  <2>7. OwnRow'
    BY <1>4 DEF Working, Begin, tally, OwnRow
  <2>8. BlockingScan'
    BY <1>4 DEF Working, Begin, tally, BlockingScan
  <2>9. TallyIsExact'
    BY <1>4 DEF Working, Begin, tally, TallyIsExact
  <2>10. SessionHasCall'
    BY <1>4 DEF Working, Begin, tally, SessionHasCall
  <2>11. OrderedLocking'
    BY <1>4 DEF Working, Begin, tally, OrderedLocking, Ids
  <2>12. ExclusiveJobs'
    BY <1>4 DEF Working, Begin, tally, ExclusiveJobs, OwnsJob
  <2>13. EmptyOnlyAfterOwnJobDone'
    BY <1>4 DEF Working, Begin, tally, EmptyOnlyAfterOwnJobDone
  <2> QED
    BY <2>1, <2>2, <2>3, <2>4, <2>5, <2>6, <2>7, <2>8, <2>9, <2>10, <2>11, <2>12, <2>13
<1>5. ASSUME NEW c \in Callers, ClaimStarts(c) /\ Working(c)
      PROVE  IInv'
  <2>1. BlockingScan'
    BY <1>5 DEF Working, ClaimStarts, Pending, tally, BlockingScan, OwnRow
  <2>2. OrderedLocking'
    BY <1>5 DEF Working, ClaimStarts, Pending, tally, OrderedLocking,
         LockHasSession, Ids
  <2>3. NoSessionYet'
    BY <1>5 DEF Working, ClaimStarts, Pending, tally, NoSessionYet
  <2>4. WonIsCommitted'
    BY <1>5 DEF Working, ClaimStarts, Pending, tally, WonIsCommitted
  <2>5. ClaimIsHeld'
    BY <1>5 DEF Working, ClaimStarts, Pending, tally, ClaimIsHeld
  <2>6. CommittedIsDone'
    BY <1>5 DEF Working, ClaimStarts, Pending, tally, CommittedIsDone
  <2>7. InsertIsFresh'
    BY <1>5, SMTT(30) DEF Working, ClaimStarts, Pending, tally, InsertIsFresh, Ids
  <2>8. OwnRow'
    BY <1>5 DEF Working, ClaimStarts, Pending, tally, OwnRow
  <2>9. TallyIsExact'
    BY <1>5 DEF Working, ClaimStarts, Pending, tally, TallyIsExact
  <2>10. LockHasSession'
    BY <1>5 DEF Working, ClaimStarts, Pending, tally, LockHasSession
  <2>11. SessionHasCall'
    BY <1>5 DEF Working, ClaimStarts, Pending, tally, SessionHasCall
  <2>12. ExclusiveJobs'
    BY <1>5 DEF Working, ClaimStarts, Pending, tally, ExclusiveJobs, OwnsJob
  <2>13. EmptyOnlyAfterOwnJobDone'
    BY <1>5 DEF Working, ClaimStarts, Pending, tally, EmptyOnlyAfterOwnJobDone
  <2> QED
    BY <2>1, <2>2, <2>3, <2>4, <2>5, <2>6, <2>7, <2>8, <2>9, <2>10, <2>11, <2>12, <2>13
<1>6. ASSUME NEW c \in Callers, (ClaimReturns(c) \/ Finish(c)) /\ Working(c)
      PROVE  IInv'
  <2>1. NoSessionYet'
    BY <1>6 DEF Working, ClaimReturns, Finish, tally, NoSessionYet
  <2>2. WonIsCommitted'
    BY <1>6 DEF Working, ClaimReturns, Finish, tally, WonIsCommitted
  <2>3. ClaimIsHeld'
    BY <1>6 DEF Working, ClaimReturns, Finish, tally, ClaimIsHeld
  <2>4. CommittedIsDone'
    BY <1>6 DEF Working, ClaimReturns, Finish, tally, CommittedIsDone
  <2>5. InsertIsFresh'
    BY <1>6 DEF Working, ClaimReturns, Finish, tally, InsertIsFresh, Ids
  <2>6. OwnRow'
    BY <1>6 DEF Working, ClaimReturns, Finish, tally, OwnRow
  <2>7. BlockingScan'
    BY <1>6 DEF Working, ClaimReturns, Finish, tally, BlockingScan
  <2>8. TallyIsExact'
    BY <1>6 DEF Working, ClaimReturns, Finish, tally, TallyIsExact
  <2>9. LockHasSession'
    BY <1>6 DEF Working, ClaimReturns, Finish, tally, LockHasSession
  <2>10. SessionHasCall'
    BY <1>6 DEF Working, ClaimReturns, Finish, tally, SessionHasCall
  <2>11. OrderedLocking'
    BY <1>6 DEF Working, ClaimReturns, Finish, tally, OrderedLocking, Ids
  <2>12. ExclusiveJobs'
    BY <1>6 DEF Working, ClaimReturns, Finish, tally, ExclusiveJobs, OwnsJob
  <2>13. EmptyOnlyAfterOwnJobDone'
    BY <1>6 DEF Working, ClaimReturns, Finish, tally, EmptyOnlyAfterOwnJobDone
  <2> QED
    BY <2>1, <2>2, <2>3, <2>4, <2>5, <2>6, <2>7, <2>8, <2>9, <2>10, <2>11, <2>12, <2>13
<1>7. ASSUME NEW c \in Callers, WorkSucceeds(c)
      PROVE  IInv'
  <2>1. UNCHANGED <<rows, lock, srv, snap, job, mode, ins, nextId>>
    BY <1>7 DEF WorkSucceeds, CommitReturns, tally
  <2>2. /\ ClaimIsHeld' /\ CommittedIsDone' /\ InsertIsFresh' /\ BlockingScan'
        /\ LockHasSession' /\ OrderedLocking' /\ ExclusiveJobs'
    BY <2>1 DEF ClaimIsHeld, CommittedIsDone, InsertIsFresh, BlockingScan,
           LockHasSession, OrderedLocking, ExclusiveJobs, OwnsJob
  <2>3. NoSessionYet'
    BY <1>7 DEF WorkSucceeds, CommitReturns, tally, NoSessionYet
  <2>4. WonIsCommitted'
    BY <1>7 DEF WorkSucceeds, CommitReturns, tally, WonIsCommitted
  <2>5. OwnRow'
    BY <1>7 DEF WorkSucceeds, CommitReturns, tally, OwnRow
  <2>6. TallyIsExact'
    BY <1>7 DEF WorkSucceeds, CommitReturns, tally, TallyIsExact
  <2>7. SessionHasCall'
    BY <1>7 DEF WorkSucceeds, CommitReturns, tally, SessionHasCall
  <2>8. EmptyOnlyAfterOwnJobDone'
    BY <1>7 DEF WorkSucceeds, CommitReturns, tally, EmptyOnlyAfterOwnJobDone
  <2> QED
    BY <2>2, <2>3, <2>4, <2>5, <2>6, <2>7, <2>8
<1>8. ASSUME NEW c \in Callers, WorkFindsNone(c)
      PROVE  IInv'
  <2>1. EmptyOnlyAfterOwnJobDone'
    BY <1>8 DEF WorkFindsNone, ClaimFindsNone, Released,
         EmptyOnlyAfterOwnJobDone, BlockingScan
  <2>2. NoSessionYet'
    BY <1>8 DEF WorkFindsNone, ClaimFindsNone, Released, NoSessionYet
  <2>3. WonIsCommitted'
    BY <1>8 DEF WorkFindsNone, ClaimFindsNone, Released, WonIsCommitted
  <2>4. ClaimIsHeld'
    BY <1>8 DEF WorkFindsNone, ClaimFindsNone, Released, ClaimIsHeld
  <2>5. CommittedIsDone'
    BY <1>8 DEF WorkFindsNone, ClaimFindsNone, Released, CommittedIsDone
  <2>6. InsertIsFresh'
    BY <1>8 DEF WorkFindsNone, ClaimFindsNone, Released, InsertIsFresh, Ids
  <2>7. OwnRow'
    BY <1>8 DEF WorkFindsNone, ClaimFindsNone, Released, OwnRow
  <2>8. BlockingScan'
    BY <1>8 DEF WorkFindsNone, ClaimFindsNone, Released, BlockingScan
  <2>9. TallyIsExact'
    BY <1>8 DEF WorkFindsNone, ClaimFindsNone, Released, TallyIsExact
  <2>10. LockHasSession'
    BY <1>8 DEF WorkFindsNone, ClaimFindsNone, Released, LockHasSession
  <2>11. SessionHasCall'
    BY <1>8 DEF WorkFindsNone, ClaimFindsNone, Released, SessionHasCall
  <2>12. OrderedLocking'
    BY <1>8 DEF WorkFindsNone, ClaimFindsNone, Released, OrderedLocking, Ids
  <2>13. ExclusiveJobs'
    BY <1>8 DEF WorkFindsNone, ClaimFindsNone, Released, ExclusiveJobs,
         OwnsJob
  <2> QED
    BY <2>1, <2>2, <2>3, <2>4, <2>5, <2>6, <2>7, <2>8, <2>9, <2>10, <2>11, <2>12, <2>13
<1>9. ASSUME NEW c \in Callers, WorkFails(c)
      PROVE  IInv'
  <2>1. NoSessionYet'
    BY <1>9 DEF WorkFails, StatementFails, ContextEnds, Released, NoSessionYet
  <2>2. WonIsCommitted'
    BY <1>9 DEF WorkFails, StatementFails, ContextEnds, Released,
         WonIsCommitted
  <2>3. ClaimIsHeld'
    BY <1>9 DEF WorkFails, StatementFails, ContextEnds, Released, ClaimIsHeld
  <2>4. CommittedIsDone'
    BY <1>9 DEF WorkFails, StatementFails, ContextEnds, Released,
         CommittedIsDone
  <2>5. InsertIsFresh'
    BY <1>9 DEF WorkFails, StatementFails, ContextEnds, Released,
         InsertIsFresh, Ids
  <2>6. OwnRow'
    BY <1>9 DEF WorkFails, StatementFails, ContextEnds, Released, OwnRow
  <2>7. BlockingScan'
    BY <1>9 DEF WorkFails, StatementFails, ContextEnds, Released, BlockingScan
  <2>8. TallyIsExact'
    BY <1>9 DEF WorkFails, StatementFails, ContextEnds, Released, TallyIsExact
  <2>9. LockHasSession'
    BY <1>9 DEF WorkFails, StatementFails, ContextEnds, Released,
         LockHasSession
  <2>10. SessionHasCall'
    BY <1>9 DEF WorkFails, StatementFails, ContextEnds, Released,
         SessionHasCall
  <2>11. OrderedLocking'
    BY <1>9 DEF WorkFails, StatementFails, ContextEnds, Released,
         OrderedLocking, Ids
  <2>12. ExclusiveJobs'
    BY <1>9 DEF WorkFails, StatementFails, ContextEnds, Released,
         ExclusiveJobs, OwnsJob
  <2>13. EmptyOnlyAfterOwnJobDone'
    BY <1>9 DEF WorkFails, StatementFails, ContextEnds, Released,
         EmptyOnlyAfterOwnJobDone
  <2> QED
    BY <2>1, <2>2, <2>3, <2>4, <2>5, <2>6, <2>7, <2>8, <2>9, <2>10, <2>11, <2>12, <2>13
<1>10. ASSUME NEW c \in Callers, Tally(c)
      PROVE  IInv'
  <2>1. UNCHANGED <<rows, lock, srv, snap, job, mode, ins, nextId>>
    BY <1>10 DEF Tally
  <2>2. /\ ClaimIsHeld' /\ CommittedIsDone' /\ InsertIsFresh' /\ BlockingScan'
        /\ LockHasSession' /\ OrderedLocking' /\ ExclusiveJobs'
    BY <2>1 DEF ClaimIsHeld, CommittedIsDone, InsertIsFresh, BlockingScan,
           LockHasSession, OrderedLocking, ExclusiveJobs, OwnsJob
  <2>3. TallyIsExact'
    <3>1. job[c] \in Ids \ jobs
      BY <1>10 DEF Tally, TallyIsExact, WonIsCommitted, CommittedIsDone,
                   ExclusiveJobs, OwnsJob
    <3>2. IsFiniteSet(Ids) /\ jobs \subseteq Ids
      BY FS_Interval DEF Ids
    <3>3. claims' = Cardinality(jobs')
      BY <1>10, <3>1, <3>2, FS_Subset, FS_AddElement
         DEF Tally, TallyIsExact
    <3>4. \A j \in jobs' : \E d \in Callers : pc'[d] = "ok" /\ job'[d] = j
      BY <1>10 DEF Tally, TallyIsExact
    <3> QED
      BY <3>3, <3>4 DEF TallyIsExact
  <2>4. SessionHasCall'
    BY <1>10 DEF Tally, SessionHasCall, WonIsCommitted
  <2>5. NoSessionYet'
    BY <1>10 DEF Tally, NoSessionYet
  <2>6. WonIsCommitted'
    BY <1>10 DEF Tally, WonIsCommitted
  <2>7. OwnRow'
    BY <1>10 DEF Tally, OwnRow
  <2>8. EmptyOnlyAfterOwnJobDone'
    BY <1>10 DEF Tally, EmptyOnlyAfterOwnJobDone
  <2> QED
    BY <2>2, <2>3, <2>4, <2>5, <2>6, <2>7, <2>8
<1>11. ASSUME NEW c \in Callers, InsertCommits(c)
      PROVE  IInv'
  <2>1. CommittedIsDone'
    BY <1>11 DEF InsertCommits, tally, CommittedIsDone, InsertIsFresh
  <2>2. InsertIsFresh'
    BY <1>11 DEF InsertCommits, tally, InsertIsFresh, ClaimIsHeld, Ids
  <2>3. BlockingScan'
    BY <1>11 DEF InsertCommits, tally, BlockingScan, InsertIsFresh
  <2>4. EmptyOnlyAfterOwnJobDone'
    BY <1>11 DEF InsertCommits, tally, EmptyOnlyAfterOwnJobDone, InsertIsFresh
  <2>5. NoSessionYet'
    BY <1>11 DEF InsertCommits, tally, NoSessionYet
  <2>6. WonIsCommitted'
    BY <1>11 DEF InsertCommits, tally, WonIsCommitted
  <2>7. ClaimIsHeld'
    BY <1>11 DEF InsertCommits, tally, ClaimIsHeld
  <2>8. OwnRow'
    BY <1>11 DEF InsertCommits, tally, OwnRow
  <2>9. TallyIsExact'
    BY <1>11 DEF InsertCommits, tally, TallyIsExact
  <2>10. LockHasSession'
    BY <1>11 DEF InsertCommits, tally, LockHasSession
  <2>11. SessionHasCall'
    BY <1>11 DEF InsertCommits, tally, SessionHasCall
  <2>12. OrderedLocking'
    BY <1>11 DEF InsertCommits, tally, OrderedLocking, Ids
  <2>13. ExclusiveJobs'
    BY <1>11 DEF InsertCommits, tally, ExclusiveJobs, OwnsJob
  <2> QED
    BY <2>1, <2>2, <2>3, <2>4, <2>5, <2>6, <2>7, <2>8, <2>9, <2>10, <2>11, <2>12, <2>13
<1>12. ASSUME NEW c \in Callers, ScanLocks(c) /\ Database(c)
      PROVE  IInv'
  <2>1. UNCHANGED <<rows, pc, mode, ins>>
    BY <1>12 DEF Database, ScanLocks, tally
  <2>2. EmptyOnlyAfterOwnJobDone'
    BY <2>1 DEF EmptyOnlyAfterOwnJobDone
  <2>3. InsertIsFresh'
    <3>1. UNCHANGED <<rows, ins, nextId>>
      BY <1>12 DEF Database, ScanLocks
    <3>2. \A d \in Callers : srv'[d] = "insert" => srv[d] = "insert"
      BY <1>12 DEF ScanLocks
    <3> QED
      BY <3>1, <3>2 DEF InsertIsFresh
  <2>4. BlockingScan'
    BY <1>12 DEF Database, ScanLocks, IsNext, tally, BlockingScan, OwnRow
  <2>5. TallyIsExact'
    BY <1>12 DEF Database, ScanLocks, IsNext, tally, TallyIsExact,
         WonIsCommitted
  <2>6. ExclusiveJobs'
    BY <1>12 DEF Database, ScanLocks, IsNext, tally, ExclusiveJobs,
         ClaimIsHeld, CommittedIsDone, OwnsJob
  <2>7. NoSessionYet'
    BY <1>12 DEF Database, ScanLocks, IsNext, tally, NoSessionYet
  <2>8. WonIsCommitted'
    BY <1>12 DEF Database, ScanLocks, IsNext, tally, WonIsCommitted
  <2>9. ClaimIsHeld'
    BY <1>12 DEF Database, ScanLocks, IsNext, tally, ClaimIsHeld
  <2>10. CommittedIsDone'
    BY <1>12 DEF Database, ScanLocks, IsNext, tally, CommittedIsDone
  <2>11. OwnRow'
    BY <1>12 DEF Database, ScanLocks, IsNext, tally, OwnRow
  <2>12. LockHasSession'
    BY <1>12 DEF Database, ScanLocks, IsNext, tally, LockHasSession
  <2>13. SessionHasCall'
    BY <1>12 DEF Database, ScanLocks, IsNext, tally, SessionHasCall
  <2>14. OrderedLocking'
    BY <1>12 DEF Database, ScanLocks, IsNext, tally, OrderedLocking, Ids
  <2> QED
    BY <2>2, <2>3, <2>4, <2>5, <2>6, <2>7, <2>8, <2>9, <2>10, <2>11, <2>12, <2>13, <2>14
<1>13. ASSUME NEW c \in Callers, ScanSkips(c, mode) /\ Database(c)
      PROVE  IInv'
  <2>1. UNCHANGED <<rows, lock, pc, srv, job, mode, ins, nextId, claims,
        jobs>>
    BY <1>13 DEF Database, ScanSkips, tally
  <2>2. /\ NoSessionYet' /\ WonIsCommitted' /\ ClaimIsHeld'
        /\ CommittedIsDone' /\ InsertIsFresh' /\ OwnRow' /\ TallyIsExact'
        /\ LockHasSession' /\ SessionHasCall' /\ ExclusiveJobs'
        /\ EmptyOnlyAfterOwnJobDone'
    BY <2>1 DEF NoSessionYet, WonIsCommitted, ClaimIsHeld, CommittedIsDone,
           InsertIsFresh, OwnRow, TallyIsExact, LockHasSession,
           SessionHasCall, ExclusiveJobs, EmptyOnlyAfterOwnJobDone, OwnsJob
  <2>3. BlockingScan'
    BY <1>13 DEF Database, ScanSkips, tally, BlockingScan
  <2>4. OrderedLocking'
    BY <1>13 DEF Database, ScanSkips, tally, OrderedLocking, Ids
  <2> QED
    BY <2>2, <2>3, <2>4
<1>14. ASSUME NEW c \in Callers, ScanEnds(c) /\ Database(c)
      PROVE  IInv'
  <2>1. UNCHANGED <<rows, pc, job, mode, ins, claims, jobs>>
    BY <1>14 DEF Database, ScanEnds, tally
  <2>2. TallyIsExact' /\ EmptyOnlyAfterOwnJobDone'
    BY <2>1 DEF TallyIsExact, EmptyOnlyAfterOwnJobDone
  <2>3. NoSessionYet'
    BY <1>14 DEF Database, ScanEnds, tally, NoSessionYet
  <2>4. WonIsCommitted'
    BY <1>14 DEF Database, ScanEnds, tally, WonIsCommitted
  <2>5. ClaimIsHeld'
    BY <1>14 DEF Database, ScanEnds, tally, ClaimIsHeld
  <2>6. CommittedIsDone'
    BY <1>14 DEF Database, ScanEnds, tally, CommittedIsDone
  <2>7. InsertIsFresh'
    BY <1>14 DEF Database, ScanEnds, tally, InsertIsFresh, Ids
  <2>8. OwnRow'
    BY <1>14 DEF Database, ScanEnds, tally, OwnRow
  <2>9. BlockingScan'
    BY <1>14 DEF Database, ScanEnds, tally, BlockingScan
  <2>10. LockHasSession'
    BY <1>14 DEF Database, ScanEnds, tally, LockHasSession
  <2>11. SessionHasCall'
    BY <1>14 DEF Database, ScanEnds, tally, SessionHasCall
  <2>12. OrderedLocking'
    BY <1>14 DEF Database, ScanEnds, tally, OrderedLocking, Ids
  <2>13. ExclusiveJobs'
    BY <1>14 DEF Database, ScanEnds, tally, ExclusiveJobs, OwnsJob
  <2> QED
    BY <2>2, <2>3, <2>4, <2>5, <2>6, <2>7, <2>8, <2>9, <2>10, <2>11, <2>12, <2>13
<1>15. ASSUME NEW c \in Callers, Commits(c) /\ Database(c)
      PROVE  IInv'
  <2>1. UNCHANGED <<pc, job, claims, jobs>>
    BY <1>15 DEF Database, Commits, tally
  <2>2. TallyIsExact'
    BY <2>1 DEF TallyIsExact
  <2>3. InsertIsFresh'
    BY <1>15 DEF Database, Commits, Released, tally, InsertIsFresh,
         ClaimIsHeld, Ids
  <2>4. NoSessionYet'
    BY <1>15 DEF Database, Commits, Released, tally, NoSessionYet
  <2>5. WonIsCommitted'
    BY <1>15 DEF Database, Commits, Released, tally, WonIsCommitted
  <2>6. ClaimIsHeld'
    BY <1>15 DEF Database, Commits, Released, tally, ClaimIsHeld
  <2>7. CommittedIsDone'
    BY <1>15 DEF Database, Commits, Released, tally, CommittedIsDone
  <2>8. OwnRow'
    BY <1>15 DEF Database, Commits, Released, tally, OwnRow
  <2>9. BlockingScan'
    BY <1>15 DEF Database, Commits, Released, tally, BlockingScan
  <2>10. LockHasSession'
    BY <1>15 DEF Database, Commits, Released, tally, LockHasSession
  <2>11. SessionHasCall'
    BY <1>15 DEF Database, Commits, Released, tally, SessionHasCall
  <2>12. OrderedLocking'
    BY <1>15 DEF Database, Commits, Released, tally, OrderedLocking, Ids
  <2>13. ExclusiveJobs'
    BY <1>15 DEF Database, Commits, Released, tally, ExclusiveJobs, OwnsJob
  <2>14. EmptyOnlyAfterOwnJobDone'
    BY <1>15 DEF Database, Commits, Released, tally, EmptyOnlyAfterOwnJobDone
  <2> QED
    BY <2>2, <2>3, <2>4, <2>5, <2>6, <2>7, <2>8, <2>9, <2>10, <2>11, <2>12, <2>13, <2>14
<1>16. ASSUME NEW c \in Callers, SessionEnds(c) /\ Database(c)
      PROVE  IInv'
  <2>1. UNCHANGED <<rows, pc, job, mode, ins, claims, jobs>>
    BY <1>16 DEF Database, SessionEnds, tally
  <2>2. TallyIsExact' /\ EmptyOnlyAfterOwnJobDone'
    BY <2>1 DEF TallyIsExact, EmptyOnlyAfterOwnJobDone
  <2>3. NoSessionYet'
    BY <1>16 DEF Database, SessionEnds, Released, tally, NoSessionYet
  <2>4. WonIsCommitted'
    BY <1>16 DEF Database, SessionEnds, Released, tally, WonIsCommitted
  <2>5. ClaimIsHeld'
    BY <1>16 DEF Database, SessionEnds, Released, tally, ClaimIsHeld
  <2>6. CommittedIsDone'
    BY <1>16 DEF Database, SessionEnds, Released, tally, CommittedIsDone
  <2>7. InsertIsFresh'
    BY <1>16 DEF Database, SessionEnds, Released, tally, InsertIsFresh, Ids
  <2>8. OwnRow'
    BY <1>16 DEF Database, SessionEnds, Released, tally, OwnRow
  <2>9. BlockingScan'
    BY <1>16 DEF Database, SessionEnds, Released, tally, BlockingScan
  <2>10. LockHasSession'
    BY <1>16 DEF Database, SessionEnds, Released, tally, LockHasSession
  <2>11. SessionHasCall'
    BY <1>16 DEF Database, SessionEnds, Released, tally, SessionHasCall
  <2>12. OrderedLocking'
    BY <1>16 DEF Database, SessionEnds, Released, tally, OrderedLocking, Ids
  <2>13. ExclusiveJobs'
    BY <1>16 DEF Database, SessionEnds, Released, tally, ExclusiveJobs,
         OwnsJob
  <2> QED
    BY <2>2, <2>3, <2>4, <2>5, <2>6, <2>7, <2>8, <2>9, <2>10, <2>11, <2>12, <2>13
<1>17. CASE UNCHANGED vars
  BY <1>17 DEF vars, txVars, tally, NoSessionYet, WonIsCommitted, ClaimIsHeld,
     CommittedIsDone, InsertIsFresh, OwnRow, BlockingScan, TallyIsExact,
     LockHasSession, SessionHasCall, OrderedLocking, ExclusiveJobs,
     EmptyOnlyAfterOwnJobDone, OwnsJob
<1> QED
  BY <1>1, <1>2, <1>3, <1>4, <1>5, <1>6, <1>7, <1>8, <1>9, <1>10, <1>11,
     <1>12, <1>13, <1>14, <1>15, <1>16, <1>17 DEF Next, Idle, Request,
     Working, WorkGo, Database, Postgres

-----------------------------------------------------------------------------
(* The theorems *)

\* An empty table, no sessions and zero counters satisfy the invariant.
LEMMA InitInv == Init => IInv
<1> SUFFICES ASSUME Init PROVE IInv
  OBVIOUS
<1> USE QueueAssumption DEF Init
<1>1. TypeOK
  BY DEF TypeOK, Ids, Pc, Srv, Status
<1>2. NoSessionYet /\ WonIsCommitted /\ ClaimIsHeld /\ CommittedIsDone
  BY DEF NoSessionYet, WonIsCommitted, ClaimIsHeld, CommittedIsDone
<1>3. InsertIsFresh /\ OwnRow /\ BlockingScan
  BY DEF InsertIsFresh, OwnRow, BlockingScan
<1>4. TallyIsExact
  BY FS_EmptySet DEF TallyIsExact
<1>5. LockHasSession /\ SessionHasCall /\ OrderedLocking
  BY DEF LockHasSession, SessionHasCall, OrderedLocking
<1>6. ExclusiveJobs /\ EmptyOnlyAfterOwnJobDone
  BY DEF ExclusiveJobs, OwnsJob, EmptyOnlyAfterOwnJobDone
<1> QED
  BY <1>1, <1>2, <1>3, <1>4, <1>5, <1>6 DEF IInv

\* The inductive invariant holds in every reachable state of the adapter.
THEOREM Invariant == Spec => []IInv
  BY InitInv, InvStep, PTL DEF Spec

\* Every variable keeps its type in every behaviour of the adapter.
THEOREM TypeCorrect == Spec => []TypeOK
<1>1. IInv => TypeOK
  BY DEF IInv
<1> QED
  BY <1>1, Invariant, PTL

\* core.Work's exactly-once claim, for any number of concurrent requests, jobs
\* and connections and under both claim queries: two calls never hold, or have
\* finished, the same job.
THEOREM JobsAreExclusive == Spec => []ExclusiveJobs
<1>1. IInv => ExclusiveJobs
  BY DEF IInv
<1> QED
  BY <1>1, Invariant, PTL

\* k6's check distinct_jobs === claims can never fail: whenever /stats reads
\* them under q.mu, the counter of claims is the number of distinct job ids.
THEOREM TallyIsDistinct == Spec => []ClaimsDistinct
<1>1. IInv => ClaimsDistinct
  BY DEF IInv, TallyIsExact, ClaimsDistinct
<1> QED
  BY <1>1, Invariant, PTL

\* No path out of Work leaves a row lock behind: a lock is held by a session
\* whose call is inside Work, or by one that a failed call has abandoned.
THEOREM LocksAreReturned == Spec => []NoOrphanLock
<1>1. IInv => NoOrphanLock
  BY DEF IInv, LockHasSession, SessionHasCall, NoOrphanLock
<1> QED
  BY <1>1, Invariant, PTL

\* Scans take their locks in increasing id order ("order by id"), so the
\* transactions of Work never wait for each other in a cycle.
THEOREM LocksAreOrdered == Spec => []OrderedLocking
<1>1. IInv => OrderedLocking
  BY DEF IInv
<1> QED
  BY <1>1, Invariant, PTL

\* With the waiting claim query, the handler answers 409 only to a request
\* whose own job another request has finished.
THEOREM ConflictIsEarned == Spec => []EmptyOnlyAfterOwnJobDone
<1>1. IInv => EmptyOnlyAfterOwnJobDone
  BY DEF IInv
<1> QED
  BY <1>1, Invariant, PTL

\* A step of the adapter or of Postgres finishes a job only for the session
\* that holds its row, and never reopens one.
LEMMA FinishStep ==
    ASSUME IInv, [Next]_vars, NEW i \in Ids
    PROVE  /\ rows[i] = "done" => rows'[i] = "done"
           /\ rows[i] # "done" /\ rows'[i] = "done" =>
                \E c \in Callers : lock[i] = c /\ job[c] = i
<1> USE DEF IInv, TypeOK
<1>1. CASE UNCHANGED rows
  BY <1>1
<1>2. ASSUME NEW c \in Callers, InsertCommits(c)
      PROVE  rows'[i] = "done" <=> rows[i] = "done"
  BY <1>2 DEF InsertCommits, InsertIsFresh
<1>3. ASSUME NEW c \in Callers, Commits(c)
      PROVE  /\ rows[i] = "done" => rows'[i] = "done"
             /\ rows[i] # "done" /\ rows'[i] = "done" => lock[i] = c /\ job[c] = i
  BY <1>3 DEF Commits, ClaimIsHeld
<1>4. \/ UNCHANGED rows
      \/ \E c \in Callers : InsertCommits(c) \/ Commits(c)
  BY DEF Next, Request, Database, Postgres, Idle, vars, txVars, Admit, Refuse,
         Enqueue, InsertReturns, InsertFails, Working, WorkGo, Begin,
         ClaimStarts, ClaimReturns, Finish, WorkSucceeds, CommitReturns,
         WorkFindsNone, ClaimFindsNone, WorkFails, StatementFails, ContextEnds,
         Tally, ScanLocks, ScanSkips, ScanEnds, SessionEnds
<1> QED
  BY <1>1, <1>2, <1>3, <1>4

\* A job becomes done only through the transaction that holds its row lock,
\* and stays done.
THEOREM OnlyTheHolderFinishes == Spec => FinishedByHolder
<1>1. IInv /\ [Next]_vars =>
        [\A i \in Ids :
            /\ rows[i] = "done" => rows'[i] = "done"
            /\ rows[i] # "done" /\ rows'[i] = "done" =>
                \E c \in Callers : lock[i] = c /\ job[c] = i]_vars
  BY FinishStep
<1> QED
  BY <1>1, Invariant, PTL DEF Spec, FinishedByHolder

-----------------------------------------------------------------------------
(* The ledger: counters, inserts and finished rows *)

CallersAt(S) == {c \in Callers : pc[c] \in S}

\* Where a request is once its insert has been counted, unless it has failed.
Counted == {"ready", "begun", "claim", "work", "commit", "won", "ok", "empty"}

\* Each counter is the number of requests that ended that way.  A failed request
\* may or may not have been counted as enqueued, so that counter is only
\* determined while nothing has failed.
CountersAreExact ==
    /\ IsFiniteSet(CallersAt({"ok"})) /\ claims = Cardinality(CallersAt({"ok"}))
    /\ IsFiniteSet(CallersAt({"empty"})) /\ empty = Cardinality(CallersAt({"empty"}))
    /\ IsFiniteSet(CallersAt({"failed"})) /\ failed = Cardinality(CallersAt({"failed"}))
    /\ failed = 0 =>
        /\ IsFiniteSet(CallersAt(Counted))
        /\ enqueued = Cardinality(CallersAt(Counted))

\* A request that has not reached its insert has no id, no two requests have the
\* same one, and the sequence is ahead of them all.
IdsAreDealtOnce ==
    /\ \A c \in Callers : pc[c] \in {"new", "admitted", "refused"} => ins[c] = 0
    /\ \A c \in Callers : ins[c] < nextId
    /\ \A c, d \in Callers : c # d /\ ins[c] # 0 => ins[c] # ins[d]

\* A row in the table is some request's insert, and a counted insert is there.
RowsAreInserts ==
    /\ \A i \in Ids : rows[i] # "absent" => \E c \in Callers : ins[c] = i
    /\ \A c \in Callers : pc[c] \in Counted =>
            ins[c] \in Ids /\ rows[ins[c]] # "absent"

\* A done row was finished by a session that has committed, and the call of a
\* session that was sent COMMIT has sent it, or failed without hearing of it.
DoneHasSession ==
    /\ \A i \in Ids : rows[i] = "done" =>
            \E c \in Callers : srv[c] = "committed" /\ job[c] = i
    /\ \A c \in Callers : srv[c] \in {"committing", "committed"} =>
            pc[c] \in {"commit", "won", "ok", "failed"}

\* Every request answered 200 has its job noted.
OkIsNoted == \A c \in Callers : pc[c] = "ok" => job[c] \in jobs

Ledger ==
    /\ CountersAreExact
    /\ IdsAreDealtOnce
    /\ RowsAreInserts
    /\ DoneHasSession
    /\ OkIsNoted

\* A call that moves inside the handler without reaching an answer, and without
\* being counted, leaves every counter exact.
LEMMA MoveKeepsCounters ==
    ASSUME CountersAreExact, NEW c \in Callers,
           \A d \in Callers : d # c => pc'[d] = pc[d],
           pc'[c] \notin {"ok", "empty", "failed"},
           pc[c] \notin {"ok", "empty", "failed"},
           pc[c] \in Counted <=> pc'[c] \in Counted,
           UNCHANGED <<claims, empty, failed, enqueued>>
    PROVE  CountersAreExact'
<1>1. /\ CallersAt({"ok"})' = CallersAt({"ok"})
      /\ CallersAt({"empty"})' = CallersAt({"empty"})
      /\ CallersAt({"failed"})' = CallersAt({"failed"})
      /\ CallersAt(Counted)' = CallersAt(Counted)
  BY DEF CallersAt, Counted
<1> QED
  BY <1>1 DEF CountersAreExact

\* A call that gives up adds one to the failed counter.
LEMMA FailureIsCounted ==
    ASSUME CountersAreExact, TypeOK, NEW c \in Callers,
           pc' = [pc EXCEPT ![c] = "failed"],
           pc[c] \notin {"ok", "empty", "failed"},
           failed' = failed + 1,
           UNCHANGED <<claims, empty>>
    PROVE  CountersAreExact'
<1>1. /\ CallersAt({"ok"})' = CallersAt({"ok"})
      /\ CallersAt({"empty"})' = CallersAt({"empty"})
  BY DEF CallersAt, TypeOK
<1>2. /\ IsFiniteSet(CallersAt({"failed"})')
      /\ Cardinality(CallersAt({"failed"})') = Cardinality(CallersAt({"failed"})) + 1
  <2>1. CallersAt({"failed"})' = CallersAt({"failed"}) \cup {c}
    BY DEF CallersAt, TypeOK
  <2>2. c \notin CallersAt({"failed"})
    BY DEF CallersAt
  <2> QED
    BY <2>1, <2>2, FS_AddElement DEF CountersAreExact
<1>3. failed' # 0
  BY DEF TypeOK
<1> QED
  BY <1>1, <1>2, <1>3 DEF CountersAreExact

\* Every step keeps each counter equal to the number of requests that ended so.
LEMMA CountersStep == TypeOK /\ CountersAreExact /\ [Next]_vars => CountersAreExact'
<1> SUFFICES ASSUME TypeOK, CountersAreExact, [Next]_vars PROVE CountersAreExact'
  OBVIOUS
<1>1. CASE UNCHANGED <<pc, tally>>
  BY <1>1 DEF CountersAreExact, CallersAt, tally
<1>2. ASSUME NEW c \in Callers,
             \/ Admit(c) \/ Refuse(c) \/ Enqueue(c) \/ Working(c) \/ WorkSucceeds(c)
             \/ InsertCommits(c)
      PROVE  CountersAreExact'
  <2>1. UNCHANGED tally
    BY <1>2 DEF Admit, Refuse, Enqueue, Working, WorkSucceeds, InsertCommits
  <2>2. CASE UNCHANGED pc
    BY <1>1, <2>1, <2>2
  <2>3. CASE pc' # pc
    <3>1. /\ \A d \in Callers : d # c => pc'[d] = pc[d]
          /\ pc'[c] \notin {"ok", "empty", "failed"}
          /\ pc[c] \notin {"ok", "empty", "failed"}
          /\ pc[c] \in Counted <=> pc'[c] \in Counted
      BY <1>2, <2>3
         DEF Admit, Refuse, Enqueue, Working, WorkGo, Begin, ClaimStarts,
             ClaimReturns, Finish, WorkSucceeds, CommitReturns, InsertCommits,
             Counted, TypeOK
    <3> QED
      BY <2>1, <3>1, MoveKeepsCounters DEF tally
  <2> QED
    BY <2>2, <2>3
<1>3. ASSUME NEW c \in Callers, InsertReturns(c) PROVE CountersAreExact'
  <2>1. /\ CallersAt({"ok"})' = CallersAt({"ok"})
        /\ CallersAt({"empty"})' = CallersAt({"empty"})
        /\ CallersAt({"failed"})' = CallersAt({"failed"})
        /\ CallersAt(Counted)' = CallersAt(Counted) \cup {c}
        /\ c \notin CallersAt(Counted)
    BY <1>3 DEF InsertReturns, CallersAt, Counted, TypeOK
  <2>2. IsFiniteSet(CallersAt(Counted)) =>
            /\ IsFiniteSet(CallersAt(Counted)')
            /\ Cardinality(CallersAt(Counted)') = Cardinality(CallersAt(Counted)) + 1
    BY <2>1, FS_AddElement
  <2>3. enqueued' = enqueued + 1 /\ UNCHANGED <<claims, empty, failed>>
    BY <1>3 DEF InsertReturns
  <2> QED
    BY <2>1, <2>2, <2>3 DEF CountersAreExact
<1>4. ASSUME NEW c \in Callers, InsertFails(c) \/ WorkFails(c) PROVE CountersAreExact'
  <2>1. /\ pc' = [pc EXCEPT ![c] = "failed"]
        /\ pc[c] \notin {"ok", "empty", "failed"}
        /\ failed' = failed + 1
        /\ UNCHANGED <<claims, empty>>
    BY <1>4 DEF InsertFails, WorkFails, StatementFails, ContextEnds
  <2> QED
    BY <2>1, FailureIsCounted
<1>5. ASSUME NEW c \in Callers, WorkFindsNone(c) PROVE CountersAreExact'
  <2>1. /\ CallersAt({"ok"})' = CallersAt({"ok"})
        /\ CallersAt({"empty"})' = CallersAt({"empty"}) \cup {c}
        /\ CallersAt({"failed"})' = CallersAt({"failed"})
        /\ CallersAt(Counted)' = CallersAt(Counted)
        /\ c \notin CallersAt({"empty"})
    BY <1>5 DEF WorkFindsNone, ClaimFindsNone, CallersAt, Counted, TypeOK
  <2>2. /\ IsFiniteSet(CallersAt({"empty"})')
        /\ Cardinality(CallersAt({"empty"})') = Cardinality(CallersAt({"empty"})) + 1
    BY <2>1, FS_AddElement DEF CountersAreExact
  <2>3. empty' = empty + 1 /\ UNCHANGED <<claims, enqueued, failed>>
    BY <1>5 DEF WorkFindsNone
  <2> QED
    BY <2>1, <2>2, <2>3 DEF CountersAreExact
<1>6. ASSUME NEW c \in Callers, Tally(c) PROVE CountersAreExact'
  <2>1. /\ CallersAt({"ok"})' = CallersAt({"ok"}) \cup {c}
        /\ CallersAt({"empty"})' = CallersAt({"empty"})
        /\ CallersAt({"failed"})' = CallersAt({"failed"})
        /\ CallersAt(Counted)' = CallersAt(Counted)
        /\ c \notin CallersAt({"ok"})
    BY <1>6 DEF Tally, CallersAt, Counted, TypeOK
  <2>2. /\ IsFiniteSet(CallersAt({"ok"})')
        /\ Cardinality(CallersAt({"ok"})') = Cardinality(CallersAt({"ok"})) + 1
    BY <2>1, FS_AddElement DEF CountersAreExact
  <2>3. claims' = claims + 1 /\ UNCHANGED <<empty, enqueued, failed>>
    BY <1>6 DEF Tally
  <2> QED
    BY <2>1, <2>2, <2>3 DEF CountersAreExact
<1>7. ASSUME NEW c \in Callers, Database(c) PROVE CountersAreExact'
  <2>1. UNCHANGED <<pc, tally>>
    BY <1>7 DEF Database, Postgres, ScanLocks, ScanSkips, ScanEnds, Commits, SessionEnds
  <2> QED
    BY <1>1, <2>1
<1>8. CASE UNCHANGED vars
  BY <1>1, <1>8 DEF vars, txVars
<1> QED
  BY <1>2, <1>3, <1>4, <1>5, <1>6, <1>7, <1>8 DEF Next, Request, Idle

\* Every step keeps the inserts and the finished rows accounted for: an id is
\* dealt to one request, its row comes from that insert, and a row turns done
\* together with the session that claimed it.
LEMMA LedgerStep == IInv /\ Ledger /\ [Next]_vars => Ledger'
<1> SUFFICES ASSUME IInv, Ledger, [Next]_vars PROVE Ledger'
  OBVIOUS
<1>0. CountersAreExact'
  BY CountersStep DEF IInv, Ledger
<1> USE DEF IInv, TypeOK, Ledger
<1> SUFFICES IdsAreDealtOnce' /\ RowsAreInserts' /\ DoneHasSession' /\ OkIsNoted'
  BY <1>0
<1>1. ASSUME NEW c \in Callers,
             Admit(c) \/ Refuse(c) \/ InsertReturns(c) \/ InsertFails(c)
      PROVE  IdsAreDealtOnce' /\ RowsAreInserts' /\ DoneHasSession' /\ OkIsNoted'
  <2>1. UNCHANGED <<rows, srv, job, ins, nextId, jobs>>
    BY <1>1 DEF Admit, Refuse, InsertReturns, InsertFails, tally
  <2>2. IdsAreDealtOnce'
    BY <1>1, <2>1 DEF Admit, Refuse, InsertReturns, InsertFails, IdsAreDealtOnce
  <2>3. RowsAreInserts'
    BY <1>1, <2>1 DEF Admit, Refuse, InsertReturns, InsertFails, RowsAreInserts,
                      Counted, OwnRow
  <2>4. DoneHasSession'
    BY <1>1, <2>1 DEF Admit, Refuse, InsertReturns, InsertFails, DoneHasSession
  <2>5. OkIsNoted'
    BY <1>1, <2>1 DEF Admit, Refuse, InsertReturns, InsertFails, OkIsNoted
  <2> QED
    BY <2>2, <2>3, <2>4, <2>5
<1>2. ASSUME NEW c \in Callers, Enqueue(c)
      PROVE  IdsAreDealtOnce' /\ RowsAreInserts' /\ DoneHasSession' /\ OkIsNoted'
  <2>1. IdsAreDealtOnce'
    <3>1. /\ ins[c] = 0 /\ nextId \in Ids /\ nextId' = nextId + 1
          /\ ins' = [ins EXCEPT ![c] = nextId] /\ pc' = [pc EXCEPT ![c] = "insert"]
      BY <1>2 DEF Enqueue, IdsAreDealtOnce
    <3>2. \A d \in Callers : ins'[d] < nextId'
      BY <3>1 DEF IdsAreDealtOnce, Ids
    <3>3. \A d, e \in Callers : d # e /\ ins'[d] # 0 => ins'[d] # ins'[e]
      BY <3>1 DEF IdsAreDealtOnce, Ids
    <3> QED
      BY <3>1, <3>2, <3>3 DEF IdsAreDealtOnce
  <2>2. RowsAreInserts'
    <3>1. /\ UNCHANGED rows /\ ins[c] = 0
          /\ ins' = [ins EXCEPT ![c] = nextId] /\ pc' = [pc EXCEPT ![c] = "insert"]
      BY <1>2 DEF Enqueue, IdsAreDealtOnce
    <3>2. \A i \in Ids : rows'[i] # "absent" => \E d \in Callers : ins'[d] = i
      BY <3>1 DEF RowsAreInserts, Ids
    <3>3. \A d \in Callers : pc'[d] \in Counted => ins'[d] \in Ids /\ rows'[ins'[d]] # "absent"
      BY <3>1 DEF RowsAreInserts, Counted
    <3> QED
      BY <3>2, <3>3 DEF RowsAreInserts
  <2>3. DoneHasSession'
    BY <1>2 DEF Enqueue, DoneHasSession, NoSessionYet
  <2>4. OkIsNoted'
    BY <1>2 DEF Enqueue, tally, OkIsNoted
  <2> QED
    BY <2>1, <2>2, <2>3, <2>4
<1>3. ASSUME NEW c \in Callers, InsertCommits(c)
      PROVE  IdsAreDealtOnce' /\ RowsAreInserts' /\ DoneHasSession' /\ OkIsNoted'
  <2>1. IdsAreDealtOnce'
    BY <1>3 DEF InsertCommits, IdsAreDealtOnce
  <2>2. RowsAreInserts'
    BY <1>3 DEF InsertCommits, RowsAreInserts, InsertIsFresh, Counted
  <2>3. DoneHasSession'
    BY <1>3 DEF InsertCommits, DoneHasSession, InsertIsFresh
  <2>4. OkIsNoted'
    BY <1>3 DEF InsertCommits, tally, OkIsNoted
  <2> QED
    BY <2>1, <2>2, <2>3, <2>4
<1>4. ASSUME NEW c \in Callers, Working(c)
      PROVE  IdsAreDealtOnce' /\ RowsAreInserts' /\ DoneHasSession' /\ OkIsNoted'
  <2>1. UNCHANGED <<rows, job, ins, nextId, jobs>>
    BY <1>4 DEF Working, WorkGo, Begin, ClaimStarts, ClaimReturns, Finish, tally
  <2>2. /\ \A d \in Callers : d # c => pc'[d] = pc[d]
        /\ pc[c] \in Counted \ {"ok"} /\ pc'[c] \in Counted \ {"ok"}
    BY <1>4 DEF Working, WorkGo, Begin, ClaimStarts, ClaimReturns, Finish, Counted
  <2>3. IdsAreDealtOnce'
    BY <2>1, <2>2 DEF IdsAreDealtOnce, Counted
  <2>4. RowsAreInserts'
    BY <2>1, <2>2 DEF RowsAreInserts
  <2>5. DoneHasSession'
    BY <1>4 DEF Working, WorkGo, Begin, ClaimStarts, ClaimReturns, Finish,
                DoneHasSession, NoSessionYet
  <2>6. OkIsNoted'
    BY <2>1, <2>2 DEF OkIsNoted
  <2> QED
    BY <2>3, <2>4, <2>5, <2>6
<1>5. ASSUME NEW c \in Callers, WorkSucceeds(c) \/ Tally(c)
      PROVE  IdsAreDealtOnce' /\ RowsAreInserts' /\ DoneHasSession' /\ OkIsNoted'
  <2>1. UNCHANGED <<rows, srv, job, ins, nextId>>
    BY <1>5 DEF WorkSucceeds, CommitReturns, Tally
  <2>2. IdsAreDealtOnce'
    BY <1>5, <2>1 DEF WorkSucceeds, CommitReturns, Tally, IdsAreDealtOnce
  <2>3. RowsAreInserts'
    BY <1>5, <2>1 DEF WorkSucceeds, CommitReturns, Tally, RowsAreInserts, Counted
  <2>4. DoneHasSession'
    BY <1>5, <2>1 DEF WorkSucceeds, CommitReturns, Tally, DoneHasSession
  <2>5. OkIsNoted'
    BY <1>5, <2>1 DEF WorkSucceeds, CommitReturns, Tally, tally, OkIsNoted
  <2> QED
    BY <2>2, <2>3, <2>4, <2>5
<1>6. ASSUME NEW c \in Callers, WorkFindsNone(c) \/ WorkFails(c)
      PROVE  IdsAreDealtOnce' /\ RowsAreInserts' /\ DoneHasSession' /\ OkIsNoted'
  <2>1. UNCHANGED <<rows, job, ins, nextId, jobs>>
    BY <1>6 DEF WorkFindsNone, ClaimFindsNone, WorkFails, StatementFails, ContextEnds
  <2>2. /\ pc[c] \in Counted
        /\ \/ pc' = [pc EXCEPT ![c] = "empty"] \/ pc' = [pc EXCEPT ![c] = "failed"]
    BY <1>6 DEF WorkFindsNone, ClaimFindsNone, WorkFails, StatementFails, ContextEnds,
                Counted
  <2>3. IdsAreDealtOnce'
    BY <2>1, <2>2 DEF IdsAreDealtOnce
  <2>4. RowsAreInserts'
    BY <2>1, <2>2 DEF RowsAreInserts, Counted
  <2>5. DoneHasSession'
    BY <1>6 DEF WorkFindsNone, ClaimFindsNone, WorkFails, StatementFails, ContextEnds,
                DoneHasSession
  <2>6. OkIsNoted'
    BY <2>1, <2>2 DEF OkIsNoted
  <2> QED
    BY <2>3, <2>4, <2>5, <2>6
<1>7. ASSUME NEW c \in Callers, Commits(c) /\ Database(c)
      PROVE  IdsAreDealtOnce' /\ RowsAreInserts' /\ DoneHasSession' /\ OkIsNoted'
  <2>1. UNCHANGED <<pc, job, ins, nextId, jobs>> /\ job[c] \in Ids
        /\ rows[job[c]] = "pending"
    BY <1>7 DEF Commits, Database, tally, ClaimIsHeld
  <2>2. IdsAreDealtOnce'
    BY <2>1 DEF IdsAreDealtOnce
  <2>3. RowsAreInserts'
    BY <1>7, <2>1 DEF Commits, RowsAreInserts
  <2>4. DoneHasSession'
    BY <1>7, <2>1 DEF Commits, DoneHasSession, CommittedIsDone
  <2>5. OkIsNoted'
    BY <2>1 DEF OkIsNoted
  <2> QED
    BY <2>2, <2>3, <2>4, <2>5
<1>8. ASSUME NEW c \in Callers, Database(c), ~Commits(c)
      PROVE  IdsAreDealtOnce' /\ RowsAreInserts' /\ DoneHasSession' /\ OkIsNoted'
  <2>1. UNCHANGED <<rows, pc, ins, nextId, jobs>>
    BY <1>8 DEF Database, Postgres, ScanLocks, ScanSkips, ScanEnds, SessionEnds, tally
  <2>2. /\ \A d \in Callers : d # c => srv'[d] = srv[d] /\ job'[d] = job[d]
        /\ srv[c] # "committed" /\ srv'[c] \notin {"committing", "committed"}
    BY <1>8 DEF Database, Postgres, ScanLocks, ScanSkips, ScanEnds, SessionEnds
  <2>3. IdsAreDealtOnce' /\ RowsAreInserts'
    BY <2>1 DEF IdsAreDealtOnce, RowsAreInserts
  <2>4. DoneHasSession'
    BY <2>1, <2>2 DEF DoneHasSession
  <2>5. OkIsNoted'
    BY <2>1, <2>2 DEF OkIsNoted, WonIsCommitted
  <2> QED
    BY <2>3, <2>4, <2>5
<1>9. CASE UNCHANGED vars
  BY <1>9 DEF vars, txVars, tally, IdsAreDealtOnce, RowsAreInserts, DoneHasSession,
              OkIsNoted
<1> QED
  BY <1>1, <1>2, <1>3, <1>4, <1>5, <1>6, <1>7, <1>8, <1>9 DEF Next, Request, Idle

\* With an empty table, no ids dealt and zero counters the ledger is exact.
LEMMA InitLedger == Init => Ledger
<1> SUFFICES ASSUME Init PROVE Ledger
  OBVIOUS
<1> USE QueueAssumption DEF Init
<1>1. /\ CallersAt({"ok"}) = {} /\ CallersAt({"empty"}) = {}
      /\ CallersAt({"failed"}) = {} /\ CallersAt(Counted) = {}
  BY DEF CallersAt, Counted
<1>2. CountersAreExact
  BY <1>1, FS_EmptySet DEF CountersAreExact
<1>3. IdsAreDealtOnce /\ RowsAreInserts /\ DoneHasSession /\ OkIsNoted
  BY DEF IdsAreDealtOnce, RowsAreInserts, DoneHasSession, OkIsNoted, Counted, Ids
<1> QED
  BY <1>2, <1>3 DEF Ledger

\* What a function makes of a finite set is finite and no larger.
LEMMA ImageIsSmall ==
    ASSUME NEW S, IsFiniteSet(S), NEW f
    PROVE  /\ IsFiniteSet({f[x] : x \in S})
           /\ Cardinality({f[x] : x \in S}) <= Cardinality(S)
<1> DEFINE T == {f[x] : x \in S}
           g == [x \in S |-> f[x]]
<1>1. g \in Surjection(S, T)
  BY DEF Surjection
<1> HIDE DEF T, g
<1>2. IsFiniteSet(T) /\ Cardinality(T) <= Cardinality(S)
  BY <1>1, FS_Surjection
<1> QED
  BY <1>2 DEF T

\* When everything is answered, a done job that is not in the tally belongs to a
\* request that failed without hearing of its COMMIT.
LEMMA DoneIsBounded ==
    ASSUME IInv, Ledger, Quiescent
    PROVE  Cardinality(Done) \in claims .. claims + failed
<1> USE DEF IInv, Ledger, TypeOK
<1> DEFINE F == CallersAt({"failed"})
           Lost == {job[c] : c \in F}
<1>1. IsFiniteSet(Ids) /\ jobs \subseteq Ids /\ Done \subseteq Ids
  BY QueueAssumption, FS_Interval DEF Ids, Done
<1>2. IsFiniteSet(jobs) /\ IsFiniteSet(Done)
  BY <1>1, FS_Subset
<1>3. jobs \subseteq Done
  BY DEF TallyIsExact, WonIsCommitted, CommittedIsDone, Done
<1>4. Done \subseteq jobs \cup Lost
  BY DEF Done, DoneHasSession, OkIsNoted, Quiescent, Answered, CallersAt
<1>5. IsFiniteSet(Lost) /\ Cardinality(Lost) <= failed
  BY ImageIsSmall DEF CountersAreExact
<1>6. Cardinality(jobs) = claims
  BY DEF TallyIsExact
<1>7. Cardinality(jobs) <= Cardinality(Done)
  BY <1>2, <1>3, FS_Subset
<1>8. /\ IsFiniteSet(jobs \cup Lost)
      /\ Cardinality(jobs \cup Lost) <= claims + failed
  <2>1. /\ IsFiniteSet(jobs \cup Lost) /\ IsFiniteSet(jobs \cap Lost)
        /\ Cardinality(jobs \cup Lost)
             = Cardinality(jobs) + Cardinality(Lost) - Cardinality(jobs \cap Lost)
    BY <1>2, <1>5, FS_Union, FS_Intersection
  <2>2. Cardinality(jobs \cap Lost) \in Nat /\ Cardinality(Lost) \in Nat
    BY <2>1, <1>5, FS_CardinalityType
  <2> QED
    BY <1>5, <1>6, <2>1, <2>2
<1>9. Cardinality(Done) <= Cardinality(jobs \cup Lost)
  BY <1>4, <1>8, FS_Subset
<1>10. Cardinality(Done) \in Nat /\ Cardinality(jobs \cup Lost) \in Nat
  BY <1>2, <1>8, FS_CardinalityType
<1> QED
  BY <1>6, <1>7, <1>8, <1>9, <1>10

\* The rows in the table are the pending ones and the done ones.
LEMMA RowsSplit ==
    ASSUME TypeOK
    PROVE  /\ IsFiniteSet(Pending) /\ Cardinality(Pending) \in Nat
           /\ IsFiniteSet(Done) /\ Cardinality(Done) \in Nat
           /\ Cardinality(Pending \cup Done) = Cardinality(Pending) + Cardinality(Done)
<1>1. IsFiniteSet(Ids) /\ Pending \subseteq Ids /\ Done \subseteq Ids
  BY QueueAssumption, FS_Interval DEF Ids, Done, Pending
<1>2. IsFiniteSet(Pending) /\ IsFiniteSet(Done)
  BY <1>1, FS_Subset
<1>3. Cardinality(Pending) \in Nat /\ Cardinality(Done) \in Nat
  BY <1>2, FS_CardinalityType
<1>4. Cardinality(Pending \cap Done) = 0
  <2>1. Pending \cap Done = {}
    BY DEF Pending, Done
  <2> QED
    BY <2>1, FS_EmptySet
<1>5. Cardinality(Pending \cup Done)
        = Cardinality(Pending) + Cardinality(Done) - Cardinality(Pending \cap Done)
  BY <1>2, FS_Union
<1> QED
  BY <1>2, <1>3, <1>4, <1>5

\* When everything is answered, every row is the insert of a request that was
\* answered 200 or 409 or has failed, and at least as many rows are done as
\* requests were answered 200.
LEMMA PendingIsBounded ==
    ASSUME IInv, Ledger, Quiescent
    PROVE  Cardinality(Pending) <= empty + failed
<1> USE DEF IInv, Ledger, TypeOK
<1> DEFINE O == CallersAt({"ok"})
           E == CallersAt({"empty"})
           F == CallersAt({"failed"})
           Ended == O \cup (E \cup F)
           Inserted == {ins[c] : c \in Ended}
<1>1. Pending \cup Done \subseteq Inserted
  <2>1. \A i \in Pending \cup Done : i \in Ids /\ rows[i] # "absent"
    BY DEF Pending, Done
  <2>2. \A i \in Pending \cup Done : \E c \in Callers : ins[c] = i /\ ins[c] # 0
    BY <2>1 DEF RowsAreInserts, Ids
  <2> QED
    BY <2>2 DEF IdsAreDealtOnce, Quiescent, Answered, CallersAt
<1>2. /\ IsFiniteSet(O) /\ Cardinality(O) = claims
      /\ IsFiniteSet(E) /\ Cardinality(E) = empty
      /\ IsFiniteSet(F) /\ Cardinality(F) = failed
  BY DEF CountersAreExact
<1>3. Cardinality(O \cap (E \cup F)) = 0 /\ Cardinality(E \cap F) = 0
  <2>1. O \cap (E \cup F) = {} /\ E \cap F = {}
    BY DEF CallersAt
  <2> QED
    BY <2>1, FS_EmptySet
<1> HIDE DEF O, E, F
<1>4. IsFiniteSet(E \cup F) /\ Cardinality(E \cup F) = empty + failed - Cardinality(E \cap F)
  BY <1>2, FS_Union
<1>5. /\ IsFiniteSet(Ended)
      /\ Cardinality(Ended) = claims + Cardinality(E \cup F) - Cardinality(O \cap (E \cup F))
  BY <1>2, <1>4, FS_Union
<1>6. IsFiniteSet(Inserted) /\ Cardinality(Inserted) <= Cardinality(Ended)
  BY <1>5, ImageIsSmall
<1>7. Cardinality(Pending \cup Done) <= Cardinality(Inserted)
  BY <1>1, <1>6, FS_Subset
<1>8. claims <= Cardinality(Done)
  BY DoneIsBounded
<1>9. Cardinality(Inserted) \in Nat
  BY <1>6, FS_CardinalityType
<1>10. claims \in Nat /\ empty \in Nat /\ failed \in Nat
  OBVIOUS
<1>11. TypeOK
  OBVIOUS
<1> HIDE DEF Inserted, Ended, IInv, TypeOK, Ledger
<1> QED
  BY <1>3, <1>4, <1>5, <1>6, <1>7, <1>8, <1>9, <1>10, <1>11, RowsSplit

\* When nothing has failed, the rows are exactly the counted inserts, one for
\* each request, and the done ones are exactly the jobs in the tally.
LEMMA PendingIsExact ==
    ASSUME IInv, Ledger, Quiescent, failed = 0
    PROVE  Cardinality(Pending) = enqueued - claims
<1> USE DEF IInv, Ledger, TypeOK
<1> DEFINE K == CallersAt(Counted)
           Inserted == {ins[c] : c \in K}
<1>1. IsFiniteSet(K) /\ Cardinality(K) = enqueued
  BY DEF CountersAreExact
<1>2. CallersAt({"failed"}) = {}
  BY FS_EmptySet DEF CountersAreExact
<1>3. \A c \in Callers : pc[c] # "failed"
  BY <1>2 DEF CallersAt
<1>4. Inserted \subseteq Pending \cup Done
  BY DEF RowsAreInserts, Pending, Done, CallersAt, Status
<1>5. Pending \cup Done \subseteq Inserted
  <2>1. \A i \in Pending \cup Done : i \in Ids /\ rows[i] # "absent"
    BY DEF Pending, Done
  <2>2. \A i \in Pending \cup Done : \E c \in Callers : ins[c] = i /\ ins[c] # 0
    BY <2>1 DEF RowsAreInserts, Ids
  <2>3. \A c \in Callers : ins[c] # 0 => pc[c] \in Counted
    BY <1>3 DEF IdsAreDealtOnce, Quiescent, Answered, Counted
  <2> QED
    BY <2>2, <2>3 DEF CallersAt
<1>6. Cardinality(Inserted) = enqueued
  <2> DEFINE f == [c \in K |-> ins[c]]
  <2>1. \A c, d \in K : ins[c] = ins[d] => c = d
    BY DEF CallersAt, RowsAreInserts, IdsAreDealtOnce, Ids
  <2>2. f \in Bijection(K, Inserted)
    BY <2>1 DEF Bijection, Injection, Surjection, IsInjective
  <2>3. ExistsBijection(K, Inserted)
    BY <2>2 DEF ExistsBijection
  <2> HIDE DEF K, Inserted
  <2>4. Cardinality(Inserted) = Cardinality(K)
    BY <1>1, <2>3, FS_Bijection
  <2> QED
    BY <1>1, <2>4
<1>7. Cardinality(Done) = claims
  BY DoneIsBounded
<1>8. Cardinality(Pending \cup Done) = enqueued
  BY <1>4, <1>5, <1>6
<1>9. claims \in Nat /\ enqueued \in Nat /\ TypeOK
  OBVIOUS
<1> HIDE DEF IInv, TypeOK, Ledger
<1> QED
  BY <1>7, <1>8, <1>9, RowsSplit

\* The counters of /stats and the table agree, for any number of requests, jobs
\* and connections and whatever failed on the way: a job reported to a client is
\* done; once everything is answered the done jobs are the claims plus at most
\* the failed requests, and "only failed or empty claims leave a job pending".
THEOREM TableIsAccounted == Spec => []JobsAccounted
<1>1. IInv => jobs \subseteq Done
  BY DEF IInv, TypeOK, TallyIsExact, WonIsCommitted, CommittedIsDone, Done
<1>2. IInv /\ Ledger => JobsAccounted
  BY <1>1, DoneIsBounded, PendingIsBounded, PendingIsExact DEF JobsAccounted
<1>3. Spec => []Ledger
  BY InitLedger, LedgerStep, Invariant, PTL DEF Spec
<1> QED
  BY <1>2, <1>3, Invariant, PTL
=============================================================================
