--------------------------- MODULE LauncherProofs ---------------------------
(***************************************************************************)
(* Proofs about the container launcher and Exec, for any number of calls   *)
(* and of Exec calls on each handle.                                       *)
(*                                                                         *)
(* The launcher's promises are proved of its own specification; the        *)
(* composition with Exec implements that specification and inherits them.  *)
(***************************************************************************)
EXTENDS ContainerExec, TLAPS

-----------------------------------------------------------------------------
(* The launcher's inductive invariant *)

\* A call has an ID to remove by exactly from the reply of ContainerCreate on;
\* one that returns without it has failed.
KnownSinceReply ==
    \A x \in Calls :
        /\ pc[x] \in {"idle", "creating"} => ~known[x]
        /\ pc[x] \notin {"idle", "creating", "returned"} => known[x]
        /\ pc[x] = "returned" /\ ~known[x] => err[x]

\* A container the call knows of was created, and only once.
KnownWasCreated == \A x \in Calls : known[x] => cont[x] # "absent"

\* Only a container that was started runs or exits, and a wait delivers the
\* exit of a started container only.
ExitsHaveStarts ==
    \A x \in Calls :
        /\ cont[x] \in {"running", "exited"} => ran[x]
        /\ waiter[x] = "fired" => ran[x]
        /\ exitSeen[x] => ran[x]

\* Behind its wait a Run without an error has read the exit code.
RunHasSeenExit ==
    \A x \in Calls :
        /\ pc[x] \in {"logs", "oom"} => exitSeen[x]
        /\ op[x] = "run" /\ ~err[x]
           /\ pc[x] \in {"toRemove", "removing", "goneCheck", "returned"} => exitSeen[x]

RemovalErrorIsError == \A x \in Calls : rmErr[x] => err[x]

LauncherInv ==
    /\ TypeOK
    /\ KnownSinceReply
    /\ KnownWasCreated
    /\ ExitsHaveStarts
    /\ RunHasSeenExit
    /\ RemovalErrorIsError
    /\ KnownContainerRemoved

\* No call begun, no container created.
LEMMA LauncherInit == Init => LauncherInv
  BY DEF Init, LauncherInv, TypeOK, KnownSinceReply, KnownWasCreated,
         ExitsHaveStarts, RunHasSeenExit, RemovalErrorIsError,
         KnownContainerRemoved, ContState, WaiterState, Pc, RunOnly, StartOnly

\* What the engine does to a container never brings a removed one back.
LEMMA EnvironmentStep ==
    ASSUME LauncherInv, NEW x \in Calls, Environment(x)
    PROVE  LauncherInv'
<1> USE DEF LauncherInv, TypeOK, ContState, ReqKind, WaiterState
<1>1. UNCHANGED callVars
  BY DEF Environment
<1>2. /\ cont' \in [Calls -> ContState]
      /\ \A y \in Calls :
            /\ cont[y] # "absent" => cont'[y] # "absent"
            /\ cont[y] = "removed" => cont'[y] = "removed"
      /\ flight' \in [Calls -> SUBSET ReqKind]
      /\ waiter' \in [Calls -> WaiterState]
      /\ ran' \in [Calls -> BOOLEAN]
      /\ \A y \in Calls :
            /\ ran[y] => ran'[y]
            /\ cont'[y] \in {"running", "exited"} => ran'[y]
            /\ waiter'[y] = "fired" => ran'[y]
  <2>1. CASE EngineCreates(x)
    BY <2>1 DEF EngineCreates, ExitsHaveStarts
  <2>2. CASE EngineStarts(x)
    BY <2>2 DEF EngineStarts, ExitsHaveStarts
  <2>3. CASE EngineRemoves(x)
    BY <2>3 DEF EngineRemoves, Remove, Fires, Exists, ExitsHaveStarts
  <2>4. CASE EngineDrops(x)
    BY <2>4 DEF EngineDrops, ExitsHaveStarts
  <2>5. CASE ContainerExits(x)
    BY <2>5 DEF ContainerExits, Fires, ExitsHaveStarts
  <2>6. CASE SweptAway(x)
    BY <2>6 DEF SweptAway, Remove, Fires, Exists, ExitsHaveStarts
  <2> QED
    BY <2>1, <2>2, <2>3, <2>4, <2>5, <2>6 DEF Environment, EngineSteps
<1>3. TypeOK'
  BY <1>1, <1>2 DEF callVars
<1>4. KnownSinceReply' /\ RunHasSeenExit' /\ RemovalErrorIsError'
  BY <1>1 DEF callVars, KnownSinceReply, RunHasSeenExit, RemovalErrorIsError
<1>5. KnownWasCreated' /\ ExitsHaveStarts'
  BY <1>1, <1>2 DEF callVars, KnownWasCreated, ExitsHaveStarts
<1>6. KnownContainerRemoved'
  BY <1>1, <1>2
     DEF callVars, KnownWasCreated, KnownContainerRemoved, Exists
<1> QED
  BY <1>3, <1>4, <1>5, <1>6

\* The steps of a call itself, as opposed to those of the engine.
CallSteps(x) ==
    \/ CreateRefused(x) \/ CreateSent(x) \/ HandleUsed(x)
    \/ CallProgresses(x) \/ CallFails(x) \/ ContextEnds(x)

\* Every step of a call of Run keeps the types.
LEMMA CallTypeStep ==
    ASSUME TypeOK, NEW x \in Calls, CallSteps(x)
    PROVE  TypeOK'
<1> USE DEF TypeOK, ContState, ReqKind, WaiterState, Pc, RunOnly, StartOnly,
            engineVars, Goto, FailTo, Send
<1>1. CASE CreateRefused(x) \/ CreateSent(x)
  <2>1. CASE CreateRefused(x)
    BY <2>1 DEF CreateRefused
  <2>2. CASE CreateSent(x)
    BY <2>2 DEF CreateSent
  <2> QED
    BY <1>1, <2>1, <2>2
<1>2. CASE CreateReplied(x)
  BY <1>2 DEF CreateReplied
<1>3. CASE CreateFails(x)
  BY <1>3 DEF CreateFails
<1>4. CASE InspectMatches(x)
  BY <1>4 DEF InspectMatches
<1>5. CASE InspectFails(x)
  BY <1>5 DEF InspectFails
<1>6. CASE RegisterWait(x)
  BY <1>6 DEF RegisterWait
<1>7. CASE StartSent(x)
  BY <1>7 DEF StartSent
<1>8. CASE StartReplied(x)
  BY <1>8 DEF StartReplied
<1>9. CASE StartFails(x)
  BY <1>9, ZenonT(60) DEF StartFails
<1>10. CASE WaitDelivers(x)
  BY <1>10, ZenonT(60) DEF WaitDelivers
<1>11. CASE WaitFails(x)
  BY <1>11 DEF WaitFails
<1>12. CASE ReadResult(x)
  BY <1>12 DEF ReadResult
<1>13. CASE ReadResultFails(x)
  BY <1>13 DEF ReadResultFails
<1>14. CASE HandleUsed(x)
  BY <1>14 DEF HandleUsed
<1>15. CASE StopOrWaitReturns(x) \/ StopOrWaitFails(x)
  BY <1>15 DEF StopOrWaitReturns, StopOrWaitFails
<1>16. CASE RemoveSent(x)
  BY <1>16 DEF RemoveSent
<1>17. CASE RemoveReplied(x)
  BY <1>17 DEF RemoveReplied
<1>18. CASE RemoveFails(x)
  BY <1>18 DEF RemoveFails
<1>19. CASE FoundGone(x)
  BY <1>19 DEF FoundGone
<1>20. CASE NotFoundGone(x)
  BY <1>20 DEF NotFoundGone
<1>21. CASE ContextEnds(x)
  BY <1>21 DEF ContextEnds
<1> QED
  BY <1>1, <1>2, <1>3, <1>4, <1>5, <1>6, <1>7, <1>8, <1>9, <1>10, <1>11, <1>12,
     <1>13, <1>14, <1>15, <1>16, <1>17, <1>18, <1>19, <1>20, <1>21
     DEF CallSteps, CallProgresses, CallFails

\* A step of the call itself keeps the state of its container, and goes past
\* the create, the wait and the removal only with what those have answered.
LEMMA CallStep ==
    ASSUME LauncherInv, NEW x \in Calls, CallSteps(x)
    PROVE  LauncherInv'
<1> DEFINE Parts == /\ KnownSinceReply /\ KnownWasCreated /\ ExitsHaveStarts
                    /\ RunHasSeenExit /\ RemovalErrorIsError
                    /\ KnownContainerRemoved
<1> SUFFICES Parts'
  BY CallTypeStep DEF LauncherInv
<1> USE DEF LauncherInv, TypeOK, ContState, Pc, RunOnly, StartOnly, engineVars,
            Goto, FailTo, Send, Exists, KnownSinceReply, KnownWasCreated,
            ExitsHaveStarts, RunHasSeenExit, RemovalErrorIsError,
            KnownContainerRemoved
<1>1. CASE CreateRefused(x) \/ CreateSent(x)
  BY <1>1 DEF CreateRefused, CreateSent
<1>2. CASE CreateReplied(x)
  BY <1>2 DEF CreateReplied
<1>3. CASE CreateFails(x)
  BY <1>3 DEF CreateFails
<1>4. CASE InspectMatches(x)
  BY <1>4 DEF InspectMatches
<1>5. CASE InspectFails(x)
  BY <1>5 DEF InspectFails
<1>6. CASE RegisterWait(x)
  BY <1>6 DEF RegisterWait
<1>7. CASE StartSent(x)
  BY <1>7 DEF StartSent
<1>8. CASE StartReplied(x)
  BY <1>8 DEF StartReplied
<1>9. CASE StartFails(x)
  BY <1>9 DEF StartFails
<1>10. CASE WaitDelivers(x)
  BY <1>10 DEF WaitDelivers
<1>11. CASE WaitFails(x)
  BY <1>11 DEF WaitFails
<1>12. CASE ReadResult(x)
  BY <1>12 DEF ReadResult
<1>13. CASE ReadResultFails(x)
  BY <1>13 DEF ReadResultFails
<1>14. CASE HandleUsed(x)
  BY <1>14 DEF HandleUsed
<1>15. CASE StopOrWaitReturns(x) \/ StopOrWaitFails(x)
  BY <1>15 DEF StopOrWaitReturns, StopOrWaitFails
<1>16. CASE RemoveSent(x)
  BY <1>16 DEF RemoveSent
<1>17. CASE RemoveReplied(x)
  BY <1>17 DEF RemoveReplied
<1>18. CASE RemoveFails(x)
  BY <1>18 DEF RemoveFails
<1>19. CASE FoundGone(x)
  BY <1>19 DEF FoundGone
<1>20. CASE NotFoundGone(x)
  BY <1>20 DEF NotFoundGone
<1>21. CASE ContextEnds(x)
  BY <1>21 DEF ContextEnds
<1> QED
  BY <1>1, <1>2, <1>3, <1>4, <1>5, <1>6, <1>7, <1>8, <1>9, <1>10, <1>11, <1>12,
     <1>13, <1>14, <1>15, <1>16, <1>17, <1>18, <1>19, <1>20, <1>21
     DEF CallSteps, CallProgresses, CallFails

\* Every step of the calls, the daemon and the contexts keeps the invariant.
LEMMA LauncherStep == LauncherInv /\ [Next]_vars => LauncherInv'
<1> SUFFICES ASSUME LauncherInv, [Next]_vars PROVE LauncherInv'
  OBVIOUS
<1>1. CASE LauncherSteps
  BY <1>1, CallStep, EnvironmentStep DEF LauncherSteps, CallSteps
<1>2. CASE UNCHANGED vars
  BY <1>2 DEF vars, callVars, engineVars, LauncherInv, TypeOK, KnownSinceReply,
              KnownWasCreated, ExitsHaveStarts, RunHasSeenExit,
              RemovalErrorIsError, KnownContainerRemoved, Exists
<1> QED
  BY <1>1, <1>2 DEF Next, AllReturned

-----------------------------------------------------------------------------
(* Exec's inductive invariant *)

ExecPlaces == {"idle", "attach", "copy", "poll"} \cup Returned

ExecTypeOK ==
    /\ proc \in [Execs -> {"none", "created", "running", "exited"}]
    /\ code \in [Execs -> Codes \cup {NoCode}]
    /\ stream \in [Execs -> {"none", "open", "ended", "closed"}]
    /\ at \in [Execs -> ExecPlaces]
    /\ ended \in [Execs -> BOOLEAN]
    /\ result \in [Execs -> Codes \cup {NoCode}]

\* Where Exec is tells how far its process is: it exists from the create on
\* and has been started once the output is read.
ProcessFollowsExec ==
    \A e \in Execs :
        /\ at[e] = "idle" => proc[e] = "none"
        /\ at[e] = "attach" => proc[e] = "created"
        /\ at[e] \in {"copy", "poll"} => proc[e] \in {"running", "exited"}

\* The engine records a code with the exit and at no other time.
CodeIsRecordedOnce == \A e \in Execs : proc[e] = "exited" <=> code[e] # NoCode

ExecInv ==
    /\ ExecTypeOK
    /\ ProcessFollowsExec
    /\ CodeIsRecordedOnce
    /\ OkMeansRecordedExit

\* No exec begun.
LEMMA ExecInitInv == ExecInit => ExecInv
  BY DEF ExecInit, ExecInv, ExecTypeOK, ExecPlaces, Returned, NoCode,
         ProcessFollowsExec, CodeIsRecordedOnce, OkMeansRecordedExit

\* A step of the launcher ends the processes of a container that stops running.
LEMMA KillStep == ASSUME ExecInv, KillExecs PROVE ExecInv'
<1> USE ExecAssumption DEF ExecInv, ExecTypeOK, Codes, NoCode
<1> DEFINE Killed(e) == Up(e) /\ cont'[e[1]] # "running"
<1>1. /\ UNCHANGED <<at, ended, result>>
      /\ proc' = [e \in Execs |-> IF Killed(e) /\ proc[e] = "running"
                                   THEN "exited" ELSE proc[e]]
      /\ code' = [e \in Execs |-> IF Killed(e) /\ proc[e] = "running"
                                   THEN Signalled ELSE code[e]]
      /\ stream' = [e \in Execs |-> IF Killed(e) /\ stream[e] = "open"
                                     THEN "ended" ELSE stream[e]]
  BY DEF KillExecs
<1> HIDE DEF Killed
<1>2. ExecTypeOK'
  BY <1>1
<1>3. ProcessFollowsExec'
  BY <1>1 DEF ProcessFollowsExec
<1>4. CodeIsRecordedOnce'
  BY <1>1 DEF CodeIsRecordedOnce
<1>5. OkMeansRecordedExit'
  BY <1>1 DEF OkMeansRecordedExit
<1> QED
  BY <1>2, <1>3, <1>4, <1>5

\* A step of one Exec call or of its process.
LEMMA ExecStep ==
    ASSUME ExecInv, NEW e \in Execs,
           \/ ExecCreate(e) \/ ExecCreateFails(e) \/ ExecSteps(e)
           \/ ExecContextEnds(e) \/ StreamEnds(e) \/ ProcessExits(e)
    PROVE  ExecInv'
<1> USE ExecAssumption
    DEF ExecInv, ExecTypeOK, ExecPlaces, Returned, Codes, NoCode, Move, procVars,
        ProcessFollowsExec, CodeIsRecordedOnce, OkMeansRecordedExit
<1>1. CASE ExecCreate(e)
  BY <1>1 DEF ExecCreate
<1>2. CASE ExecCreateFails(e)
  BY <1>2 DEF ExecCreateFails
<1>3. CASE ExecAttach(e)
  BY <1>3 DEF ExecAttach
<1>4. CASE ExecAttachFails(e)
  BY <1>4 DEF ExecAttachFails
<1>5. CASE CopyEnds(e)
  BY <1>5 DEF CopyEnds
<1>6. CASE CopyFails(e)
  BY <1>6 DEF CopyFails
<1>7. CASE PollFindsExit(e)
  BY <1>7 DEF PollFindsExit
<1>8. CASE PollFails(e)
  BY <1>8 DEF PollFails
<1>9. CASE PollCancelled(e)
  BY <1>9 DEF PollCancelled
<1>10. CASE ExecContextEnds(e)
  BY <1>10 DEF ExecContextEnds
<1>11. CASE StreamEnds(e)
  BY <1>11 DEF StreamEnds
<1>12. CASE ProcessExits(e)
  BY <1>12 DEF ProcessExits
<1> QED
  BY <1>1, <1>2, <1>3, <1>4, <1>5, <1>6, <1>7, <1>8, <1>9, <1>10, <1>11, <1>12
     DEF ExecSteps

\* Every step of an exec, and every step of the launcher with what it does to
\* the execs of its containers, keeps the invariant of both.
LEMMA EngineStep == ExecInv /\ [EngineNext]_<<vars, execVars>> => ExecInv'
<1> SUFFICES ASSUME ExecInv, [EngineNext]_<<vars, execVars>> PROVE ExecInv'
  OBVIOUS
<1>1. CASE KillExecs
  BY <1>1, KillStep
<1>2. CASE \E e \in Execs :
             \/ ExecCreate(e) \/ ExecCreateFails(e) \/ ExecSteps(e)
             \/ ExecContextEnds(e) \/ StreamEnds(e) \/ ProcessExits(e)
  BY <1>2, ExecStep
<1>3. CASE UNCHANGED execVars
  BY <1>3 DEF execVars, procVars, ExecInv, ExecTypeOK, ProcessFollowsExec,
              CodeIsRecordedOnce, OkMeansRecordedExit
<1> QED
  BY <1>1, <1>2, <1>3 DEF EngineNext

-----------------------------------------------------------------------------
(* The theorems *)

\* The launcher's invariant holds in every state of every behaviour.
THEOREM LauncherInvariant == Spec => []LauncherInv
  BY LauncherInit, LauncherStep, PTL DEF Spec

\* Every variable of the launcher keeps its type.
THEOREM TypeCorrect == Spec => []TypeOK
<1>1. LauncherInv => TypeOK
  BY DEF LauncherInv
<1> QED
  BY <1>1, LauncherInvariant, PTL

\* However many Exec calls run on the handles, the launcher and its engine
\* behave as they do without them: Exec takes no step of theirs.
THEOREM ExecLeavesLauncher == EngineSpec => Spec
<1>1. EngineInit => Init
  BY DEF EngineInit
<1>2. [EngineNext]_<<vars, execVars>> => [Next]_vars
  BY DEF EngineNext, Next, AllReturned
<1> QED
  BY <1>1, <1>2, PTL DEF EngineSpec, Spec

\* run.go's Remove on the way out: once ContainerCreate has named it, a
\* container is off the engine when Run, a failed Start or Remove returns,
\* unless the error says that it was not removed.
THEOREM NoKnownContainerStays == EngineSpec => []KnownContainerRemoved
<1>1. LauncherInv => KnownContainerRemoved
  BY DEF LauncherInv
<1> QED
  BY <1>1, LauncherInvariant, ExecLeavesLauncher, PTL

\* Run returns nil only for a container that was started, whose exit its wait
\* has delivered, and that has been removed.
THEOREM SuccessIsReal == EngineSpec => []SuccessIsARealExit
<1>1. LauncherInv => SuccessIsARealExit
  <2> SUFFICES ASSUME LauncherInv, NEW x \in Calls,
                      pc[x] = "returned", op[x] = "run", ~err[x]
               PROVE  exitSeen[x] /\ ran[x] /\ cont[x] = "removed"
    BY DEF SuccessIsARealExit
  <2>1. exitSeen[x] /\ ran[x]
    BY DEF LauncherInv, RunHasSeenExit, ExitsHaveStarts
  <2>2. known[x] /\ ~rmErr[x]
    BY DEF LauncherInv, KnownSinceReply, RemovalErrorIsError
  <2>3. ~Exists(x) /\ cont[x] # "absent"
    BY <2>2 DEF LauncherInv, KnownContainerRemoved, KnownWasCreated
  <2> QED
    BY <2>1, <2>3 DEF LauncherInv, TypeOK, ContState, Exists
<1> QED
  BY <1>1, LauncherInvariant, ExecLeavesLauncher, PTL

\* Exec's exit code: it is reported when Exec returns without an error and only
\* then, and it is what the engine recorded for a process that has exited.
THEOREM ExitCodeIsRecorded == EngineSpec => []OkMeansRecordedExit
<1>1. EngineInit => ExecInv
  BY ExecInitInv DEF EngineInit
<1>2. ExecInv => OkMeansRecordedExit
  BY DEF ExecInv
<1> QED
  BY <1>1, <1>2, EngineStep, PTL DEF EngineSpec
=============================================================================
