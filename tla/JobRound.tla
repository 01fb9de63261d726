------------------------------ MODULE JobRound ------------------------------
(***************************************************************************)
(* The base runner of the background-job-queue lesson: rounds in which as  *)
(* many workers as there are pending jobs call core.Work at once, each on  *)
(* a connection of its own.  Any error makes lab.Check panic, which ends   *)
(* the process and leaves its sessions to Postgres.                        *)
(***************************************************************************)
EXTENDS QueueTx

CONSTANT MaxRounds    \* bound: rounds of one process

ASSUME RoundAssumption ==
    /\ MaxRounds \in Nat \ {0}
    /\ IsFiniteSet(Callers) /\ Cardinality(Callers) = MaxJobs

VARIABLES
    mode,       \* the round's claim query
    round,      \* rounds started
    panicked    \* lab.Check has panicked

rvars == <<txVars, mode, round, panicked>>

Modes == {"blocking", "skip_locked"}

\* Mutant of Init: the round inserts one job too few.
InitOneShort ==
    /\ mode \in Modes /\ round = 1 /\ panicked = FALSE
    /\ rows = [i \in Ids |-> IF i = MaxJobs THEN "absent" ELSE "pending"]
    /\ lock = [i \in Ids |-> NoCaller]
    /\ pc = [c \in Callers |-> "ready"]
    /\ srv = [c \in Callers |-> "none"]
    /\ snap = [c \in Callers |-> {}]
    /\ job = [c \in Callers |-> 0]

\* One pending job per worker, and the workers about to call Work.
Init ==
    /\ mode \in Modes /\ round = 1 /\ panicked = FALSE
    /\ rows = [i \in Ids |-> "pending"]
    /\ lock = [i \in Ids |-> NoCaller]
    /\ pc = [c \in Callers |-> "ready"]
    /\ srv = [c \in Callers |-> "none"]
    /\ snap = [c \in Callers |-> {}]
    /\ job = [c \in Callers |-> 0]

-----------------------------------------------------------------------------
\* One worker's call makes progress; a finished call stores claims[i].
WorkerSteps(c) ==
    /\ ~panicked
    /\ WorkGo(c) \/ CommitReturns(c)
    /\ UNCHANGED <<mode, round, panicked>>

\* Mutant of WorkerPanics: a call that failed is made again, as often as it
\* fails.
WorkerPanicsNever(c) ==
    /\ ~panicked /\ pc[c] \in {"claim", "work"} /\ srv[c] # "none"
    /\ pc' = [pc EXCEPT ![c] = "ready"]
    /\ srv' = [srv EXCEPT ![c] = "none"]
    /\ lock' = Released(c)
    /\ UNCHANGED <<rows, snap, job, mode, round, panicked>>

\* Work returned an error, ErrNoRows included: lab.Check panics and takes every
\* goroutine with it.
WorkerPanics(c) ==
    /\ ~panicked
    /\ ClaimFindsNone(c) \/ StatementFails(c) \/ ContextEnds(c)
    /\ panicked' = TRUE
    /\ UNCHANGED <<mode, round>>

Database(c) ==
    /\ Postgres(c, mode)
    /\ UNCHANGED <<mode, round, panicked>>

\* After the panic every session is abandoned; Postgres rolls each back.
AbandonedEnds(c) ==
    /\ panicked /\ srv[c] \notin {"none", "committed"}
    /\ srv' = [srv EXCEPT ![c] = "none"]
    /\ lock' = Released(c)
    /\ UNCHANGED <<rows, pc, snap, job, mode, round, panicked>>

RoundOver == \A c \in Callers : pc[c] = "won"

\* wg.Wait returned: the next round, in either mode, truncates the table,
\* inserts one pending job per worker and starts every worker again.
NextRound ==
    /\ ~panicked /\ RoundOver /\ round < MaxRounds
    /\ round' = round + 1
    /\ mode' \in Modes
    /\ rows' = [i \in Ids |-> "pending"]
    /\ pc' = [c \in Callers |-> "ready"]
    /\ srv' = [c \in Callers |-> "none"]
    /\ snap' = [c \in Callers |-> {}]
    /\ job' = [c \in Callers |-> 0]
    /\ UNCHANGED <<lock, panicked>>

Finished ==
    \/ ~panicked /\ RoundOver /\ round = MaxRounds
    \/ panicked /\ \A c \in Callers : srv[c] \in {"none", "committed"}

Next ==
    \/ \E c \in Callers : WorkerSteps(c) \/ WorkerPanics(c)
                            \/ Database(c) \/ AbandonedEnds(c)
    \/ NextRound
    \/ Finished /\ UNCHANGED rvars

Spec == Init /\ [][Next]_rvars

\* Goroutines and Postgres sessions run; a row lock is granted to waiting
\* transactions in turn.  Errors need not happen.
FairSpec ==
    /\ Spec
    /\ \A c \in Callers :
        /\ WF_rvars(WorkerSteps(c)) /\ WF_rvars(AbandonedEnds(c))
        /\ SF_rvars(Database(c))
    /\ WF_rvars(NextRound)

-----------------------------------------------------------------------------
(* Properties *)

\* "Each round has exactly as many pending jobs as workers": no worker of a
\* round is ever told the queue is empty, in either mode, however the scans,
\* waits and re-checks interleave.  (A worker told so would panic the runner.)
NoWorkerFindsQueueEmpty ==
    ~panicked => \A c \in Callers : srv[c] # "empty"

\* What runRound returns is a permutation of the jobs: each worker another
\* job, every job done, no lock left behind for the next round's truncate.
RoundIsExact ==
    RoundOver /\ ~panicked =>
        /\ {job[c] : c \in Callers} = Ids
        /\ Done = Ids
        /\ \A i \in Ids : lock[i] = NoCaller

\* A round ends: either every worker has its job or the process has panicked
\* and Postgres has cleaned up after it.
RunnerFinishes == <>Finished
=============================================================================
