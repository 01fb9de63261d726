--------------------------- MODULE JobRoundProofs ---------------------------
(***************************************************************************)
(* Proofs about the rounds of the background-job-queue runner, for any     *)
(* number of workers, jobs and rounds.                                     *)
(*                                                                         *)
(* Why no worker is told that the queue is empty: whatever its scan passed *)
(* by, done or locked, is the job of another worker, and no two have the   *)
(* same.  A scan that had passed every job would need as many other        *)
(* workers as there are jobs, and there is one less.                       *)
(***************************************************************************)
EXTENDS JobRound, FiniteSetTheorems, TLAPS

-----------------------------------------------------------------------------
(* The inductive invariant *)

\* While no worker has panicked each call's session follows the call.
RoundTypeOK ==
    /\ mode \in Modes
    /\ rows \in [Ids -> {"pending", "done"}]
    /\ lock \in [Ids -> Callers \cup {NoCaller}]
    /\ pc \in [Callers -> {"ready", "begun", "claim", "work", "commit", "won"}]
    /\ srv \in [Callers -> Srv \ {"insert"}]
    /\ snap \in [Callers -> SUBSET Ids]
    /\ job \in [Callers -> Ids \cup {0}]

SessionFollowsCall ==
    \A c \in Callers :
        /\ pc[c] = "ready" => srv[c] = "none"
        /\ pc[c] = "begun" => srv[c] = "open"
        /\ pc[c] = "claim" => srv[c] \in {"scan", "claimed", "empty"}
        /\ pc[c] = "work" => srv[c] = "claimed"
        /\ pc[c] = "commit" => srv[c] \in {"committing", "committed"}
        /\ pc[c] = "won" => srv[c] = "committed"

\* A worker owns the job its claim returned, for good: nothing fails in a round
\* that does not panic.
HasJob(c) == srv[c] \in {"claimed", "committing", "committed"}
Owned(i) == \E c \in Callers : HasJob(c) /\ job[c] = i

OwnershipIsExclusive ==
    \A c, d \in Callers : HasJob(c) /\ HasJob(d) /\ job[c] = job[d] => c = d

OwnersWork ==
    \A c \in Callers :
        /\ HasJob(c) => job[c] \in Ids
        /\ srv[c] \in {"claimed", "committing"} =>
                lock[job[c]] = c /\ rows[job[c]] = "pending"
        /\ srv[c] = "committed" => rows[job[c]] = "done"

DoneIsOwned == \A i \in Ids : rows[i] = "done" => Owned(i)

\* A lock is held by a running transaction, on a pending row by its owner.
LockHasOwner ==
    \A i \in Ids, c \in Callers : lock[i] = c =>
        /\ srv[c] \in {"scan", "claimed", "committing"}
        /\ rows[i] = "pending" => srv[c] # "scan" /\ job[c] = i

\* The point of the argument: what a scan has passed by somebody owns.
ScanPassesOwned ==
    \A c \in Callers : srv[c] = "scan" => \A i \in Ids \ snap[c] : Owned(i)

NoneIsEmpty == \A c \in Callers : srv[c] # "empty"

RoundInv ==
    /\ RoundTypeOK
    /\ SessionFollowsCall
    /\ OwnershipIsExclusive
    /\ OwnersWork
    /\ DoneIsOwned
    /\ LockHasOwner
    /\ ScanPassesOwned
    /\ NoneIsEmpty

IInv == panicked \in BOOLEAN /\ (~panicked => RoundInv)

-----------------------------------------------------------------------------
(* Counting workers and jobs *)

\* As many jobs as workers.
LEMMA AsManyJobsAsWorkers == IsFiniteSet(Ids) /\ Cardinality(Ids) = Cardinality(Callers)
<1>1. IsFiniteSet(1..MaxJobs) /\ Cardinality(1..MaxJobs) = MaxJobs
  BY QueueAssumption, FS_Interval
<1> QED
  BY <1>1, RoundAssumption DEF Ids

\* A worker without a job leaves a job without an owner.
LEMMA JoblessLeavesJob ==
    ASSUME NEW c \in Callers, ~HasJob(c),
           \A i \in Ids : Owned(i), OwnersWork
    PROVE  FALSE
<1> DEFINE S == {d \in Callers : HasJob(d)}
           f == [d \in S |-> job[d]]
<1>1. f \in Surjection(S, Ids)
  BY DEF Surjection, Owned, OwnersWork
<1>2. S \in SUBSET (Callers \ {c})
  OBVIOUS
<1>3. /\ IsFiniteSet(Callers \ {c})
      /\ Cardinality(Callers \ {c}) = Cardinality(Callers) - 1
      /\ Cardinality(Callers) \in Nat
  BY RoundAssumption, FS_RemoveElement, FS_CardinalityType
<1>4. IsFiniteSet(S) /\ Cardinality(S) <= Cardinality(Callers \ {c})
  BY <1>2, <1>3, FS_Subset
<1>5. Cardinality(Ids) <= Cardinality(S)
  BY <1>1, <1>4, FS_Surjection
<1>6. Cardinality(S) \in Nat
  BY <1>4, FS_CardinalityType
<1> HIDE DEF S
<1> QED
  BY <1>3, <1>4, <1>5, <1>6, AsManyJobsAsWorkers

\* When every worker has a job, every job has a worker.
LEMMA EveryJobIsTaken ==
    ASSUME RoundInv, \A c \in Callers : HasJob(c)
    PROVE  {job[c] : c \in Callers} = Ids
<1> DEFINE f == [c \in Callers |-> job[c]]
<1>1. f \in Injection(Callers, Ids)
  <2>1. \A c \in Callers : job[c] \in Ids
    BY DEF RoundInv, OwnersWork
  <2>2. \A c, d \in Callers : job[c] = job[d] => c = d
    BY DEF RoundInv, OwnershipIsExclusive
  <2> QED
    BY <2>1, <2>2 DEF Injection, IsInjective
<1>2. f \in Surjection(Callers, Ids)
  BY <1>1, AsManyJobsAsWorkers, FS_Injection
<1>3. \A i \in Ids : \E c \in Callers : job[c] = i
  BY <1>2 DEF Surjection
<1>4. \A c \in Callers : job[c] \in Ids
  BY DEF RoundInv, OwnersWork
<1> QED
  BY <1>3, <1>4

-----------------------------------------------------------------------------
(* Every step keeps the invariant *)

\* Each round starts with it.
LEMMA FreshRound ==
    ASSUME mode \in Modes, rows = [i \in Ids |-> "pending"],
           lock = [i \in Ids |-> NoCaller], pc = [c \in Callers |-> "ready"],
           srv = [c \in Callers |-> "none"], snap = [c \in Callers |-> {}],
           job = [c \in Callers |-> 0]
    PROVE  RoundInv
  BY QueueAssumption
     DEF RoundInv, RoundTypeOK, Srv, SessionFollowsCall, HasJob, OwnershipIsExclusive,
         OwnersWork, DoneIsOwned, LockHasOwner, ScanPassesOwned, NoneIsEmpty

\* A job that is owned stays with its owner while no job is given back.
LEMMA OwnedStays ==
    ASSUME \A c \in Callers : HasJob(c) => HasJob(c)' /\ job'[c] = job[c],
           NEW i \in Ids, Owned(i)
    PROVE  Owned(i)'
  BY DEF Owned

\* The steps of Work on the Go side.
LEMMA GoStep ==
    ASSUME RoundInv, NEW c \in Callers, WorkGo(c) \/ CommitReturns(c), UNCHANGED mode
    PROVE  RoundInv'
<1> USE DEF RoundInv, RoundTypeOK, Srv
<1>1. CASE ClaimStarts(c)
  <2>1. RoundTypeOK' /\ SessionFollowsCall' /\ NoneIsEmpty'
    BY <1>1 DEF ClaimStarts, Pending, SessionFollowsCall, NoneIsEmpty
  <2>2. OwnershipIsExclusive' /\ OwnersWork' /\ LockHasOwner'
    BY <1>1 DEF ClaimStarts, OwnershipIsExclusive, OwnersWork, LockHasOwner, HasJob
  <2>3. \A i \in Ids : Owned(i) => Owned(i)'
    BY <1>1, OwnedStays DEF ClaimStarts, HasJob
  <2>4. DoneIsOwned'
    BY <1>1, <2>3 DEF ClaimStarts, DoneIsOwned
  <2>5. \A i \in Ids \ snap'[c] : Owned(i)
    BY <1>1 DEF ClaimStarts, Pending, DoneIsOwned
  <2>6. ScanPassesOwned'
    BY <1>1, <2>3, <2>5 DEF ClaimStarts, ScanPassesOwned
  <2> QED
    BY <2>1, <2>2, <2>4, <2>6
<1>2. CASE Begin(c) \/ ClaimReturns(c) \/ Finish(c) \/ CommitReturns(c)
  <2> USE DEF Begin, ClaimReturns, Finish, CommitReturns
  <2>1. RoundTypeOK' /\ SessionFollowsCall' /\ NoneIsEmpty'
    BY <1>2 DEF SessionFollowsCall, NoneIsEmpty
  <2>2. OwnershipIsExclusive' /\ OwnersWork' /\ LockHasOwner'
    BY <1>2 DEF SessionFollowsCall, OwnershipIsExclusive, OwnersWork, LockHasOwner, HasJob
  <2>3. \A i \in Ids : Owned(i) => Owned(i)'
    <3>1. \A d \in Callers : HasJob(d) => HasJob(d)' /\ job'[d] = job[d]
      BY <1>2 DEF HasJob, SessionFollowsCall
    <3> QED
      BY <3>1, OwnedStays
  <2>4. DoneIsOwned' /\ ScanPassesOwned'
    BY <1>2, <2>3 DEF DoneIsOwned, ScanPassesOwned
  <2> QED
    BY <2>1, <2>2, <2>4
<1> QED
  BY <1>1, <1>2 DEF WorkGo

\* The steps of the sessions.  A scan takes a row nobody owns, drops one that is
\* done or skips one that its owner has locked; it never ends without a row.
LEMMA PostgresStep ==
    ASSUME RoundInv, NEW c \in Callers, Postgres(c, mode), UNCHANGED mode
    PROVE  RoundInv'
<1> USE QueueAssumption DEF RoundInv, RoundTypeOK, Srv
<1>1. CASE ScanLocks(c)
  <2>1. PICK i \in Ids :
            /\ IsNext(c, i) /\ lock[i] \in {NoCaller, c}
            /\ lock' = [lock EXCEPT ![i] = c]
            /\ \/ /\ rows[i] = "pending"
                  /\ srv' = [srv EXCEPT ![c] = "claimed"]
                  /\ job' = [job EXCEPT ![c] = i]
                  /\ snap' = [snap EXCEPT ![c] = {}]
               \/ /\ rows[i] # "pending"
                  /\ snap' = [snap EXCEPT ![c] = @ \ {i}]
                  /\ UNCHANGED <<srv, job>>
    BY <1>1 DEF ScanLocks
  <2>2. srv[c] = "scan" /\ UNCHANGED <<rows, pc>>
    BY <1>1 DEF ScanLocks
  <2>3. RoundTypeOK' /\ SessionFollowsCall' /\ NoneIsEmpty'
    BY <2>1, <2>2 DEF SessionFollowsCall, NoneIsEmpty
  <2>4. \A j \in Ids : Owned(j) => Owned(j)'
    BY <2>1, <2>2, OwnedStays DEF HasJob
  <2>5. CASE rows[i] = "pending"
    <3>1. lock[i] = NoCaller
      BY <2>1, <2>2, <2>5 DEF LockHasOwner
    <3>2. ~Owned(i)
      BY <2>5, <3>1 DEF Owned, HasJob, OwnersWork
    <3>3. OwnershipIsExclusive'
      BY <2>1, <2>2, <2>5, <3>2 DEF OwnershipIsExclusive, Owned, HasJob
    <3>4. OwnersWork'
      BY <2>1, <2>2, <2>5, <3>1 DEF OwnersWork, HasJob
    <3>5. LockHasOwner'
      BY <2>1, <2>2, <2>5 DEF LockHasOwner
    <3>6. DoneIsOwned' /\ ScanPassesOwned'
      BY <2>1, <2>2, <2>4, <2>5 DEF DoneIsOwned, ScanPassesOwned
    <3> QED
      BY <2>3, <3>3, <3>4, <3>5, <3>6
  <2>6. CASE rows[i] # "pending"
    <3>1. Owned(i)
      BY <2>6 DEF DoneIsOwned
    <3>2. OwnershipIsExclusive' /\ OwnersWork'
      BY <2>1, <2>2, <2>6 DEF OwnershipIsExclusive, OwnersWork, HasJob
    <3>3. LockHasOwner'
      BY <2>1, <2>2, <2>6 DEF LockHasOwner
    <3>4. DoneIsOwned' /\ ScanPassesOwned'
      BY <2>1, <2>2, <2>4, <2>6, <3>1 DEF DoneIsOwned, ScanPassesOwned
    <3> QED
      BY <2>3, <3>2, <3>3, <3>4
  <2> QED
    BY <2>5, <2>6
<1>2. CASE ScanSkips(c, mode)
  <2>1. PICK i \in Ids : /\ lock[i] \notin {NoCaller, c}
                         /\ snap' = [snap EXCEPT ![c] = @ \ {i}]
    BY <1>2 DEF ScanSkips
  <2>2. UNCHANGED <<rows, lock, pc, srv, job>>
    BY <1>2 DEF ScanSkips
  <2>3. Owned(i)
    BY <2>1 DEF LockHasOwner, DoneIsOwned, Owned, HasJob
  <2>4. \A j \in Ids : Owned(j)' <=> Owned(j)
    BY <2>2 DEF Owned, HasJob
  <2>5. RoundTypeOK' /\ SessionFollowsCall' /\ NoneIsEmpty'
    BY <2>1, <2>2 DEF SessionFollowsCall, NoneIsEmpty
  <2>6. OwnershipIsExclusive' /\ OwnersWork' /\ LockHasOwner' /\ DoneIsOwned'
    BY <2>2, <2>4 DEF OwnershipIsExclusive, OwnersWork, LockHasOwner, DoneIsOwned, HasJob
  <2>7. ScanPassesOwned'
    BY <2>1, <2>2, <2>3, <2>4 DEF ScanPassesOwned
  <2> QED
    BY <2>5, <2>6, <2>7
<1>3. CASE ScanEnds(c)
  <2>1. srv[c] = "scan" /\ snap[c] = {}
    BY <1>3 DEF ScanEnds
  <2>2. (\A i \in Ids : Owned(i)) /\ ~HasJob(c)
    BY <2>1 DEF ScanPassesOwned, HasJob
  <2> QED
    BY <2>2, JoblessLeavesJob
<1>4. CASE Commits(c)
  <2>1. /\ srv[c] = "committing" /\ job[c] \in Ids
        /\ rows' = [rows EXCEPT ![job[c]] = "done"]
        /\ lock' = [i \in Ids |-> IF lock[i] = c THEN NoCaller ELSE lock[i]]
        /\ srv' = [srv EXCEPT ![c] = "committed"]
        /\ UNCHANGED <<pc, snap, job>>
    BY <1>4 DEF Commits, Released, OwnersWork, HasJob
  <2>2. RoundTypeOK' /\ SessionFollowsCall' /\ NoneIsEmpty'
    BY <2>1 DEF SessionFollowsCall, NoneIsEmpty
  <2>3. OwnershipIsExclusive'
    BY <2>1 DEF OwnershipIsExclusive, HasJob
  <2>4. OwnersWork'
    BY <2>1 DEF OwnersWork, HasJob, OwnershipIsExclusive
  <2>5. LockHasOwner'
    BY <2>1 DEF LockHasOwner
  <2>6. \A i \in Ids : Owned(i) => Owned(i)'
    BY <2>1, OwnedStays DEF HasJob
  <2>7. Owned(job[c])
    BY <2>1 DEF Owned, HasJob
  <2>8. DoneIsOwned' /\ ScanPassesOwned'
    BY <2>1, <2>6, <2>7 DEF DoneIsOwned, ScanPassesOwned
  <2> QED
    BY <2>2, <2>3, <2>4, <2>5, <2>8
<1> QED
  BY <1>1, <1>2, <1>3, <1>4 DEF Postgres

\* A step keeps the invariant, or panics.
LEMMA InvStep == IInv /\ [Next]_rvars => IInv'
<1> SUFFICES ASSUME IInv, [Next]_rvars PROVE IInv'
  OBVIOUS
<1> USE DEF IInv
<1>1. ASSUME NEW c \in Callers, WorkerSteps(c) PROVE IInv'
  BY <1>1, GoStep DEF WorkerSteps
<1>2. ASSUME NEW c \in Callers, WorkerPanics(c) PROVE IInv'
  BY <1>2 DEF WorkerPanics
<1>3. ASSUME NEW c \in Callers, Database(c) PROVE IInv'
  BY <1>3, PostgresStep DEF Database
<1>4. ASSUME NEW c \in Callers, AbandonedEnds(c) PROVE IInv'
  BY <1>4 DEF AbandonedEnds
<1>5. CASE NextRound
  <2>1. ~panicked /\ panicked' = panicked /\ RoundInv /\ RoundOver /\ lock' = lock
    BY <1>5 DEF NextRound
  <2>2. lock = [i \in Ids |-> NoCaller]
    BY <2>1 DEF RoundOver, RoundInv, RoundTypeOK, SessionFollowsCall, LockHasOwner
  <2>3. RoundInv'
    <3>1. /\ mode' \in Modes /\ rows' = [i \in Ids |-> "pending"]
          /\ lock' = [i \in Ids |-> NoCaller] /\ pc' = [c \in Callers |-> "ready"]
          /\ srv' = [c \in Callers |-> "none"] /\ snap' = [c \in Callers |-> {}]
          /\ job' = [c \in Callers |-> 0]
      BY <1>5, <2>1, <2>2 DEF NextRound
    <3> QED
      BY <3>1, QueueAssumption
         DEF RoundInv, RoundTypeOK, Srv, SessionFollowsCall, HasJob, OwnershipIsExclusive,
             OwnersWork, DoneIsOwned, LockHasOwner, ScanPassesOwned, NoneIsEmpty
  <2> QED
    BY <2>1, <2>3
<1>6. CASE UNCHANGED rvars
  BY <1>6 DEF rvars, txVars, RoundInv, RoundTypeOK, SessionFollowsCall, HasJob, Owned,
              OwnershipIsExclusive, OwnersWork, DoneIsOwned, LockHasOwner,
              ScanPassesOwned, NoneIsEmpty
<1> QED
  BY <1>1, <1>2, <1>3, <1>4, <1>5, <1>6 DEF Next

-----------------------------------------------------------------------------
(* The theorems *)

\* Until a worker panics, the invariant of a round holds.
THEOREM Invariant == Spec => []IInv
<1>1. Init => IInv
  BY FreshRound DEF Init, IInv
<1> QED
  BY <1>1, InvStep, PTL DEF Spec

\* core.Work never tells a worker of a round that there is no job.
THEOREM EveryWorkerGetsAJob == Spec => []NoWorkerFindsQueueEmpty
<1>1. IInv => NoWorkerFindsQueueEmpty
  BY DEF IInv, RoundInv, NoneIsEmpty, NoWorkerFindsQueueEmpty
<1> QED
  BY <1>1, Invariant, PTL

\* The claims runRound returns are a permutation of the jobs, all of them done
\* and unlocked.
THEOREM RoundsAreExact == Spec => []RoundIsExact
<1>1. ASSUME IInv, RoundOver, ~panicked
      PROVE  /\ {job[c] : c \in Callers} = Ids /\ Done = Ids
             /\ \A i \in Ids : lock[i] = NoCaller
  <2>1. RoundInv /\ \A c \in Callers : srv[c] = "committed"
    BY <1>1 DEF IInv, RoundInv, RoundOver, SessionFollowsCall
  <2>2. {job[c] : c \in Callers} = Ids
    BY <2>1, EveryJobIsTaken DEF HasJob
  <2>3. Done = Ids
    BY <2>1, <2>2 DEF RoundInv, OwnersWork, Done
  <2>4. \A i \in Ids : lock[i] = NoCaller
    BY <2>1 DEF RoundInv, RoundTypeOK, LockHasOwner
  <2> QED
    BY <2>2, <2>3, <2>4
<1>2. IInv => RoundIsExact
  BY <1>1 DEF RoundIsExact
<1> QED
  BY <1>2, Invariant, PTL
=============================================================================
