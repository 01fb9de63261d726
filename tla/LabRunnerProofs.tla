-------------------------- MODULE LabRunnerProofs --------------------------
(***************************************************************************)
(* Proofs about run.ts and the adapter process, for any number of schemas. *)
(*                                                                         *)
(* The adapter's part of the invariant counts cleanups against schemas;    *)
(* run.ts's part says what it may conclude from where it is.  The two meet *)
(* where run.ts has seen the adapter's exit and where it has captured the  *)
(* state of a server that was serving.                                     *)
(***************************************************************************)
EXTENDS LabRunner, TLAPS

-----------------------------------------------------------------------------
(* The inductive invariant *)

\* main has deferred the cleanup of every schema it made, except the one that
\* Database is still working on.
CleanupsMatchSchemas ==
    /\ spc = "pool" => made = deferred + 1
    /\ spc \in {"none", "setup", "listen", "notified", "writing", "serving",
              "draining"} => made = deferred
    /\ spc \notin {"cleanup", "exited"} => ~dropErr

\* Why main unwinds and how the process ended, by where it is: a drain needs
\* a signal, and a signal that ends a process that was not leaving came before
\* READY_FILE.
LeavingFollowsPlan ==
    /\ spc \notin {"draining", "cleanup", "exited"} => leaving = "none"
    /\ spc = "draining" => leaving = "drain"
    /\ spc = "cleanup" => leaving # "none"
    /\ spc = "exited" <=> how # "none"
    /\ how = "unwound" => leaving # "none"
    /\ leaving = "drain" => stop
    /\ spc \in {"none", "setup", "pool", "listen", "notified"} => ready = "absent"
    /\ how = "signal" /\ leaving = "none" => ready = "absent"

\* The deferred cleanups drop those schemas one by one.  The process unwinds
\* completely unless a signal or a SIGKILL ends it.
UnwindingCounts ==
    /\ spc = "cleanup" => deferred <= made
    /\ how = "unwound" => deferred = 0
    /\ ~dropErr => /\ leaving = "drain" => made = deferred
                   /\ leaving = "panic" => made <= deferred + 1

\* serverExited is set by the exit only, which is final.
SeenExitIsReal == exitedSeen => spc = "exited"

\* Which commands start an adapter, and where each of them can be.
CommandFollowsPlan ==
    /\ spc = "none" <=> rpc = "start" \/ action = "run"
    /\ action = "serve" => rpc \in {"start", "serve", "exit", "interrupted"}
    /\ rpc = "serve" => action = "serve"

\* A status of 0 behind the capture means that it succeeded.
StatusIsEarned ==
    /\ rpc \in {"analyze", "finally", "waitStop", "exit"} /\ status = "ok"
         /\ action # "serve" => captured
    /\ captured => rpc \in {"analyze", "finally", "waitStop", "exit", "interrupted"}

\* run.ts's SIGTERM comes last: until then a lab without Ctrl-C has sent no
\* signal.
SignalsComeLast ==
    /\ rpc = "interrupted" => ctrlC > 0
    /\ ctrlC = 0 /\ rpc \notin {"waitStop", "exit"} => ~stop

\* An adapter that answered the capture was up: only a Ctrl-C or a panic that
\* had begun to unwind it lets a signal end it on the spot.
CapturedWasServing ==
    captured /\ target = "own" =>
        /\ spc \in {"serving", "draining", "cleanup", "exited"}
        /\ ctrlC = 0 /\ how = "signal" => leaving = "panic"

IInv ==
    /\ TypeOK
    /\ CleanupsMatchSchemas
    /\ LeavingFollowsPlan
    /\ UnwindingCounts
    /\ SeenExitIsReal
    /\ CommandFollowsPlan
    /\ StatusIsEarned
    /\ SignalsComeLast
    /\ CapturedWasServing
    /\ ServerNeverOutlivesLab

-----------------------------------------------------------------------------
(* The adapter *)

\* The parts of the invariant about the adapter's own variables.
ServerInv ==
    ServerTypeOK /\ CleanupsMatchSchemas /\ LeavingFollowsPlan /\ UnwindingCounts

\* What a step of the adapter, a signal or a SIGKILL may do to it: an exit is
\* final, and a server that was up does not start again.
ServerMoves ==
    /\ spc = "none" => spc' = "none"
    /\ spc # "none" => spc' # "none"
    /\ spc = "exited" => spc' = "exited" /\ how' = how /\ leaving' = leaving
    /\ spc \in {"serving", "draining", "cleanup", "exited"} =>
         spc' \in {"serving", "draining", "cleanup", "exited"}

\* A step without a signal.
NoSignal == stop' = stop /\ (how' = "signal" => how = "signal" /\ leaving' = leaving)

\* What a signal does: it asks an adapter that listens to stop, and ends one
\* that is on its way in or out where it is.
SignalMoves ==
    /\ leaving' = leaving
    /\ how' = "signal" => how = "signal" \/ spc \notin {"serving", "exited"}

\* Every step of the server process keeps what ties it to the lab's handle.
LEMMA ServerStep ==
    ASSUME ServerInv, NEW asked \in BOOLEAN,
           \/ ServerWorks(asked) \/ ServerPanics \/ Killed \/ UNCHANGED serverVars
    PROVE  ServerInv' /\ ServerMoves /\ NoSignal
<1> USE SchemasAssumption
    DEF ServerInv, ServerTypeOK, ServerPc, CleanupsMatchSchemas, LeavingFollowsPlan,
        UnwindingCounts, ServerMoves, NoSignal
<1>1. CASE CreateSchema
  BY <1>1 DEF CreateSchema
<1>2. CASE DeferCleanup
  BY <1>2 DEF DeferCleanup
<1>3. CASE Listen
  BY <1>3 DEF Listen
<1>4. CASE Notify
  BY <1>4 DEF Notify
<1>5. CASE CreateReadyFile(asked)
  BY <1>5 DEF CreateReadyFile
<1>6. CASE WriteReadyFile
  BY <1>6 DEF WriteReadyFile
<1>7. CASE ServeEnds
  BY <1>7 DEF ServeEnds
<1>8. CASE Drained
  BY <1>8 DEF Drained
<1>9. CASE DropSchema
  <2>1. /\ spc = "cleanup" /\ deferred > 0 /\ deferred' = deferred - 1
        /\ UNCHANGED <<spc, ready, stop, leaving, how>>
    BY <1>9 DEF DropSchema
  <2>2. CASE made' = made - 1 /\ UNCHANGED dropErr
    BY <2>1, <2>2
  <2>3. CASE dropErr' = TRUE /\ UNCHANGED made
    <3>1. deferred' \in 0..Schemas /\ deferred' <= made'
      BY <2>1, <2>3
    <3> QED
      BY <2>1, <2>3, <3>1
  <2> QED
    BY <1>9, <2>2, <2>3 DEF DropSchema
<1>10. CASE ServerExits
  BY <1>10 DEF ServerExits
<1>11. CASE ServerPanics
  BY <1>11 DEF ServerPanics
<1>12. CASE Killed
  BY <1>12 DEF Killed
<1>13. CASE UNCHANGED serverVars
  BY <1>13 DEF serverVars
<1> QED
  BY <1>1, <1>2, <1>3, <1>4, <1>5, <1>6, <1>7, <1>8, <1>9, <1>10, <1>11, <1>12,
     <1>13 DEF ServerWorks

\* A signal, wherever the adapter is.
LEMMA SignalStep ==
    ASSUME ServerInv, Signalled
    PROVE  ServerInv' /\ ServerMoves /\ SignalMoves
<1> USE SchemasAssumption
    DEF ServerInv, ServerTypeOK, ServerPc, CleanupsMatchSchemas, LeavingFollowsPlan,
        UnwindingCounts, ServerMoves, SignalMoves
<1>1. CASE /\ Listening /\ stop' = TRUE
           /\ UNCHANGED <<spc, made, deferred, ready, leaving, how, dropErr>>
  BY <1>1 DEF Listening
<1>2. CASE spc \notin {"none", "exited"} /\ ~Listening /\ Dies
  BY <1>2 DEF Listening, Dies
<1>3. CASE spc \in {"none", "exited"} /\ UNCHANGED serverVars
  BY <1>3 DEF serverVars
<1> QED
  BY <1>1, <1>2, <1>3 DEF Signalled

\* A step in which run.ts stays where it is, whatever the adapter does.
LEMMA ServerAlone ==
    ASSUME IInv, ServerInv', ServerMoves, NoSignal, UNCHANGED runnerVars
    PROVE  IInv'
<1> USE DEF runnerVars
<1>1. TypeOK'
  BY DEF IInv, TypeOK, ServerInv
<1>2. SeenExitIsReal' /\ CommandFollowsPlan' /\ StatusIsEarned'
      /\ ServerNeverOutlivesLab'
  BY DEF IInv, ServerMoves, SeenExitIsReal, CommandFollowsPlan, StatusIsEarned,
         ServerNeverOutlivesLab, ServerGone
<1>3. SignalsComeLast'
  BY DEF IInv, NoSignal, SignalsComeLast
<1>4. CapturedWasServing'
  BY DEF IInv, ServerMoves, NoSignal, CapturedWasServing
<1> QED
  BY <1>1, <1>2, <1>3, <1>4 DEF IInv, ServerInv

-----------------------------------------------------------------------------
(* run.ts *)

\* No schema created, no server started.
LEMMA InitInv == Init => IInv
<1> SUFFICES ASSUME Init PROVE IInv
  OBVIOUS
<1> USE DEF Init, ServerInit
<1>1. made \in 0..Schemas /\ deferred \in 0..Schemas
  BY SchemasAssumption
<1>2. TypeOK
  BY <1>1 DEF TypeOK, ServerTypeOK, ServerPc, RunnerPc
<1>3. CleanupsMatchSchemas /\ LeavingFollowsPlan /\ UnwindingCounts
  BY DEF CleanupsMatchSchemas, LeavingFollowsPlan, UnwindingCounts
<1>4. /\ SeenExitIsReal /\ CommandFollowsPlan /\ StatusIsEarned
      /\ SignalsComeLast /\ CapturedWasServing /\ ServerNeverOutlivesLab
  BY DEF SeenExitIsReal, CommandFollowsPlan, StatusIsEarned, SignalsComeLast,
         CapturedWasServing, ServerNeverOutlivesLab
<1> QED
  BY <1>2, <1>3, <1>4 DEF IInv

\* Every step of run.ts and of what it started keeps the invariant.
LEMMA InvStep == IInv /\ [Next]_vars => IInv'
<1> SUFFICES ASSUME IInv, [Next]_vars PROVE IInv'
  OBVIOUS
<1> DEFINE Parts == /\ SeenExitIsReal /\ CommandFollowsPlan /\ StatusIsEarned
                    /\ SignalsComeLast /\ CapturedWasServing
                    /\ ServerNeverOutlivesLab
<1>a. ServerInv
  BY DEF IInv, TypeOK, ServerInv
<1>b. ASSUME ServerInv', TypeOK', Parts' PROVE IInv'
  BY <1>b DEF IInv, ServerInv
<1>c. ASSUME UNCHANGED serverVars PROVE ServerInv'
  BY <1>a, <1>c, ServerStep
<1> DEFINE RunnerTypeOK ==
        /\ action \in {"lab", "run", "serve"}
        /\ other \in BOOLEAN /\ exitedSeen \in BOOLEAN /\ listener \in BOOLEAN
        /\ captured \in BOOLEAN
        /\ rpc \in RunnerPc /\ ctrlC \in Nat
        /\ target \in {"none", "own", "port8080"}
        /\ status \in {"ok", "bad"}
<1>d. RunnerTypeOK /\ Parts
  BY DEF IInv, TypeOK
<1>e. ASSUME ServerInv', RunnerTypeOK', Parts' PROVE IInv'
  BY <1>b, <1>e DEF ServerInv, TypeOK
<1>1. CASE Start
  <2>1. ServerInv'
    BY <1>1, <1>a, SchemasAssumption
       DEF Start, ServerInv, ServerTypeOK, ServerPc, CleanupsMatchSchemas,
           LeavingFollowsPlan, UnwindingCounts, CommandFollowsPlan, IInv
  <2>2. RunnerTypeOK' /\ Parts'
    BY <1>1, <1>d
       DEF Start, RunnerPc, SeenExitIsReal, CommandFollowsPlan, StatusIsEarned,
           SignalsComeLast, CapturedWasServing, ServerNeverOutlivesLab, ServerGone
  <2> QED
    BY <1>e, <2>1, <2>2
<1>2. CASE NoticeExit
  <2>1. RunnerTypeOK' /\ Parts'
    BY <1>2, <1>d
       DEF NoticeExit, serverVars, RunnerPc, SeenExitIsReal, CommandFollowsPlan,
           StatusIsEarned, SignalsComeLast, CapturedWasServing, ServerNeverOutlivesLab, ServerGone
  <2> QED
    BY <1>2, <1>c, <1>e, <2>1 DEF NoticeExit
<1>3. CASE ServeReturns
  <2>1. RunnerTypeOK' /\ Parts'
    BY <1>3, <1>d
       DEF ServeReturns, serverVars, RunnerPc, SeenExitIsReal, CommandFollowsPlan,
           StatusIsEarned, SignalsComeLast, CapturedWasServing, ServerNeverOutlivesLab, ServerGone
  <2> QED
    BY <1>3, <1>c, <1>e, <2>1 DEF ServeReturns
<1>4. CASE FindReadyFile
  <2>1. RunnerTypeOK' /\ Parts'
    BY <1>4, <1>d
       DEF FindReadyFile, serverVars, RunnerPc, SeenExitIsReal, CommandFollowsPlan,
           StatusIsEarned, SignalsComeLast, CapturedWasServing, ServerNeverOutlivesLab, ServerGone
  <2> QED
    BY <1>4, <1>c, <1>e, <2>1 DEF FindReadyFile
<1>5. CASE PollGivesUp
  <2>1. RunnerTypeOK' /\ Parts'
    BY <1>5, <1>d
       DEF PollGivesUp, serverVars, RunnerPc, SeenExitIsReal, CommandFollowsPlan,
           StatusIsEarned, SignalsComeLast, CapturedWasServing, ServerNeverOutlivesLab, ServerGone
  <2> QED
    BY <1>5, <1>c, <1>e, <2>1 DEF PollGivesUp
<1>6. CASE ReadBaseUrl
  <2>1. RunnerTypeOK' /\ Parts'
    BY <1>6, <1>d
       DEF ReadBaseUrl, serverVars, RunnerPc, SeenExitIsReal, CommandFollowsPlan,
           StatusIsEarned, SignalsComeLast, CapturedWasServing, ServerNeverOutlivesLab, ServerGone
  <2> QED
    BY <1>6, <1>c, <1>e, <2>1 DEF ReadBaseUrl
<1>7. CASE Health
  <2>1. RunnerTypeOK' /\ Parts'
    BY <1>7, <1>d
       DEF Health, serverVars, RunnerPc, SeenExitIsReal, CommandFollowsPlan,
           StatusIsEarned, SignalsComeLast, CapturedWasServing, ServerNeverOutlivesLab, ServerGone
  <2> QED
    BY <1>7, <1>c, <1>e, <2>1 DEF Health
<1>8. CASE Inspect
  <2>1. RunnerTypeOK' /\ Parts'
    BY <1>8, <1>d
       DEF Inspect, serverVars, RunnerPc, SeenExitIsReal, CommandFollowsPlan,
           StatusIsEarned, SignalsComeLast, CapturedWasServing, ServerNeverOutlivesLab, ServerGone
  <2> QED
    BY <1>8, <1>c, <1>e, <2>1 DEF Inspect
<1>9. CASE BeforeTrafficFails
  <2>1. RunnerTypeOK' /\ Parts'
    BY <1>9, <1>d
       DEF BeforeTrafficFails, serverVars, RunnerPc, SeenExitIsReal, CommandFollowsPlan,
           StatusIsEarned, SignalsComeLast, CapturedWasServing, ServerNeverOutlivesLab, ServerGone
  <2> QED
    BY <1>9, <1>c, <1>e, <2>1 DEF BeforeTrafficFails
<1>10. CASE K6Ends
  <2>1. RunnerTypeOK' /\ Parts'
    BY <1>10, <1>d
       DEF K6Ends, serverVars, RunnerPc, SeenExitIsReal, CommandFollowsPlan,
           StatusIsEarned, SignalsComeLast, CapturedWasServing, ServerNeverOutlivesLab, ServerGone
  <2> QED
    BY <1>10, <1>c, <1>e, <2>1 DEF K6Ends
<1>11. CASE CaptureStats
  <2>0. spc # "exited" => how # "signal"
    BY <1>a DEF ServerInv, LeavingFollowsPlan
  <2>1. RunnerTypeOK' /\ Parts'
    BY <1>11, <1>d, <2>0
       DEF CaptureStats, AfterStats, Answers, serverVars, RunnerPc, SeenExitIsReal, CommandFollowsPlan,
           StatusIsEarned, SignalsComeLast, CapturedWasServing, ServerNeverOutlivesLab, ServerGone
  <2> QED
    BY <1>11, <1>c, <1>e, <2>1 DEF CaptureStats
<1>12. CASE StatsFail
  <2>1. RunnerTypeOK' /\ Parts'
    BY <1>12, <1>d
       DEF StatsFail, AfterStats, serverVars, RunnerPc, SeenExitIsReal, CommandFollowsPlan,
           StatusIsEarned, SignalsComeLast, CapturedWasServing, ServerNeverOutlivesLab, ServerGone
  <2> QED
    BY <1>12, <1>c, <1>e, <2>1 DEF StatsFail
<1>13. CASE Analyze
  <2>1. RunnerTypeOK' /\ Parts'
    BY <1>13, <1>d
       DEF Analyze, serverVars, RunnerPc, SeenExitIsReal, CommandFollowsPlan,
           StatusIsEarned, SignalsComeLast, CapturedWasServing, ServerNeverOutlivesLab, ServerGone
  <2> QED
    BY <1>13, <1>c, <1>e, <2>1 DEF Analyze
<1>14. CASE ServerStopped
  <2>1. RunnerTypeOK' /\ Parts'
    BY <1>14, <1>d
       DEF ServerStopped, serverVars, RunnerPc, SeenExitIsReal, CommandFollowsPlan,
           StatusIsEarned, SignalsComeLast, CapturedWasServing, ServerNeverOutlivesLab, ServerGone
  <2> QED
    BY <1>14, <1>c, <1>e, <2>1 DEF ServerStopped
<1>15. CASE StopServer
  <2>1. CASE UNCHANGED serverVars
    <3>1. RunnerTypeOK' /\ Parts'
      BY <1>15, <1>d, <2>1
         DEF StopServer, serverVars, RunnerPc, SeenExitIsReal, CommandFollowsPlan,
             StatusIsEarned, SignalsComeLast, CapturedWasServing,
             ServerNeverOutlivesLab, ServerGone
    <3> QED
      BY <1>c, <1>e, <2>1, <3>1
  <2>2. CASE Signalled /\ rpc' = "waitStop"
    <3>1. ServerInv' /\ ServerMoves /\ SignalMoves
      BY <1>a, <2>2, SignalStep
    <3>2. RunnerTypeOK' /\ SeenExitIsReal' /\ CommandFollowsPlan' /\ StatusIsEarned'
          /\ SignalsComeLast' /\ ServerNeverOutlivesLab'
      BY <1>15, <1>d, <2>2, <3>1
         DEF StopServer, ServerMoves, RunnerPc, SeenExitIsReal, CommandFollowsPlan,
             StatusIsEarned, SignalsComeLast, ServerNeverOutlivesLab, ServerGone
    <3>3. CapturedWasServing'
      <4>1. rpc = "finally" /\ UNCHANGED <<captured, target, ctrlC>>
        BY <1>15 DEF StopServer
      <4>2. ctrlC = 0 => leaving # "drain" /\ spc # "draining"
        BY <1>a, <1>d, <4>1 DEF SignalsComeLast, ServerInv, LeavingFollowsPlan
      <4> QED
        BY <1>a, <1>d, <3>1, <4>1, <4>2
           DEF CapturedWasServing, ServerMoves, SignalMoves, ServerInv, ServerTypeOK,
               LeavingFollowsPlan
    <3> QED
      BY <1>e, <3>1, <3>2, <3>3
  <2> QED
    BY <1>15, <2>1, <2>2 DEF StopServer
<1>16. CASE ForceStop
  BY <1>16, <1>a, ServerStep, ServerAlone DEF ForceStop
<1>17. CASE Server
  BY <1>17, <1>a, ServerStep, ServerAlone DEF Server
<1>18. CASE CtrlC
  <2>1. ServerInv' /\ ServerMoves
    BY <1>18, <1>a, SignalStep DEF CtrlC
  <2>2. RunnerTypeOK' /\ Parts'
    BY <1>18, <1>d, <2>1
       DEF CtrlC, ServerMoves, RunnerPc, SeenExitIsReal, CommandFollowsPlan,
           StatusIsEarned, SignalsComeLast, CapturedWasServing,
           ServerNeverOutlivesLab, ServerGone
  <2> QED
    BY <1>e, <2>1, <2>2
<1>19. CASE BrokenPipe
  BY <1>19, <1>a, ServerStep, ServerAlone DEF BrokenPipe
<1>20. CASE UNCHANGED vars
  BY <1>20, <1>a, ServerStep, ServerAlone DEF vars
<1> QED
  BY <1>1, <1>2, <1>3, <1>4, <1>5, <1>6, <1>7, <1>8, <1>9, <1>10, <1>11, <1>12,
     <1>13, <1>14, <1>15, <1>16, <1>17, <1>18, <1>19, <1>20
     DEF Next, RunnerWorks, RunnerGivesUp, Finished

-----------------------------------------------------------------------------
(* The theorems *)

\* The invariant holds in every state of every command.
THEOREM Invariant == Spec => []IInv
  BY InitInv, InvStep, PTL DEF Spec

\* Every variable of run.ts and the adapter keeps its type: in particular no
\* cleanup drops a schema that is not there.
THEOREM TypeCorrect == Spec => []TypeOK
<1>1. IInv => TypeOK
  BY DEF IInv
<1> QED
  BY <1>1, Invariant, PTL

\* run.ts's finally block: however a command ends, run.ts exits only after the
\* adapter it started is gone.
THEOREM NoServerIsLeft == Spec => []ServerNeverOutlivesLab
<1>1. IInv => ServerNeverOutlivesLab
  BY DEF IInv
<1> QED
  BY <1>1, Invariant, PTL

\* Database's cleanups: a schema outlives its adapter only after a SIGKILL, a
\* printed failure, a signal before READY_FILE or during the way out, or a panic
\* inside Database.
THEOREM SchemasAreDropped == Spec => []UnwindingDropsSchemas
<1>1. IInv => UnwindingDropsSchemas
  BY SchemasAssumption
     DEF IInv, TypeOK, ServerTypeOK, LeavingFollowsPlan, UnwindingCounts,
         UnwindingDropsSchemas
<1> QED
  BY <1>1, Invariant, PTL

\* A run that exits with status 0 has captured the state of the server it
\* drove; without a Ctrl-C or a failure of Serve, run.ts's one SIGTERM has let
\* its adapter drop its schemas or say that it could not.
THEOREM StatusZeroIsTrue == Spec => []OkMeansCaptured
<1> SUFFICES ASSUME IInv PROVE OkMeansCaptured
  BY Invariant, PTL
<1> SUFFICES ASSUME rpc = "exit", status = "ok", action # "serve"
             PROVE  /\ captured
                    /\ target = "own" /\ ctrlC = 0 /\ leaving # "panic" =>
                         how = "killed" \/ dropErr \/ made = 0
  BY DEF OkMeansCaptured
<1>1. captured
  BY DEF IInv, StatusIsEarned
<1>2. ASSUME target = "own", ctrlC = 0, leaving # "panic"
      PROVE  how = "killed" \/ dropErr \/ made = 0
  <2>1. spc = "exited" /\ how # "none" /\ how # "signal"
    BY <1>1, <1>2 DEF IInv, CapturedWasServing, ServerNeverOutlivesLab, ServerGone,
                      LeavingFollowsPlan
  <2>2. CASE how = "unwound"
    BY <1>2, <2>2, SchemasAssumption
       DEF IInv, TypeOK, ServerTypeOK, LeavingFollowsPlan, UnwindingCounts
  <2> QED
    BY <2>1, <2>2 DEF IInv, TypeOK, ServerTypeOK
<1> QED
  BY <1>1, <1>2
=============================================================================
