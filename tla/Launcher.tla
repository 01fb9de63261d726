------------------------------ MODULE Launcher ------------------------------
(***************************************************************************)
(* The container launcher of internal/lab/docker: Create, Start, Run,      *)
(* Stop, Wait and Remove of run.go, each split at its engine calls.        *)
(*                                                                         *)
(* Each call makes one container and either runs it to its exit (Run) or   *)
(* hands a started container to its caller (Start), who must Remove it.    *)
(* The call's context may end at any moment; Remove works on a context of  *)
(* its own.                                                                *)
(***************************************************************************)
EXTENDS Engine

VARIABLES
    op,        \* op[x]: which function was called, "run" or "start"
    pc,        \* pc[x]: the engine call it is in
    ctxDone,   \* ctxDone[x]: its context is cancelled or expired
    known,     \* known[x]: ContainerCreate has told it the container's ID
    exitSeen,  \* exitSeen[x]: Run has read an exit code from its wait
    err,       \* err[x]: the call returns an error
    rmErr      \* rmErr[x]: that error says the container was not removed

callVars == <<op, pc, ctxDone, known, exitSeen, err, rmErr>>
vars == <<engineVars, callVars>>

Pc == {"idle", "creating", "inspecting", "registering", "toStart", "starting",
       "waiting", "logs", "oom", "held", "stopping", "awaiting", "toRemove",
       "removing", "goneCheck", "returned"}

RunOnly == {"registering", "waiting", "logs", "oom"}
StartOnly == {"held", "stopping", "awaiting"}

TypeOK ==
    /\ cont \in [Calls -> ContState]
    /\ flight \in [Calls -> SUBSET ReqKind]
    /\ waiter \in [Calls -> WaiterState]
    /\ ran \in [Calls -> BOOLEAN]
    /\ op \in [Calls -> {"run", "start"}]
    /\ pc \in [Calls -> Pc]
    \* only Run waits for the exit, only Start hands its container out
    /\ \A x \in Calls : pc[x] \notin (IF op[x] = "run" THEN StartOnly ELSE RunOnly)
    /\ ctxDone \in [Calls -> BOOLEAN]
    /\ known \in [Calls -> BOOLEAN]
    /\ exitSeen \in [Calls -> BOOLEAN]
    /\ err \in [Calls -> BOOLEAN]
    /\ rmErr \in [Calls -> BOOLEAN]

Init ==
    /\ cont = [x \in Calls |-> "absent"]
    /\ flight = [x \in Calls |-> {}]
    /\ waiter = [x \in Calls |-> "none"]
    /\ ran = [x \in Calls |-> FALSE]
    /\ op \in [Calls -> {"run", "start"}]
    /\ pc = [x \in Calls |-> "idle"]
    /\ ctxDone = [x \in Calls |-> FALSE]
    /\ known = [x \in Calls |-> FALSE]
    /\ exitSeen = [x \in Calls |-> FALSE]
    /\ err = [x \in Calls |-> FALSE]
    /\ rmErr = [x \in Calls |-> FALSE]

-----------------------------------------------------------------------------
Goto(x, from, to) == pc[x] = from /\ pc' = [pc EXCEPT ![x] = to]

\* An error on the way: it is remembered and the call goes on at "to".
FailTo(x, from, to) ==
    Goto(x, from, to) /\ err' = [err EXCEPT ![x] = TRUE]

\* The caller's context ends; calls made with it fail from now on.
ContextEnds(x) ==
    /\ pc[x] \notin {"idle", "returned"} /\ ~ctxDone[x]
    /\ ctxDone' = [ctxDone EXCEPT ![x] = TRUE]
    /\ UNCHANGED <<engineVars, op, pc, known, exitSeen, err, rmErr>>

\* Create: Translate or CheckConfig refuses and nothing is created.
CreateRefused(x) ==
    /\ FailTo(x, "idle", "returned")
    /\ UNCHANGED <<engineVars, op, ctxDone, known, exitSeen, rmErr>>

\* Create sends ContainerCreate.
CreateSent(x) ==
    /\ Goto(x, "idle", "creating")
    /\ Send(x, "create")
    /\ UNCHANGED <<cont, waiter, ran, op, ctxDone, known, exitSeen, err, rmErr>>

\* The reply carries the container's ID; Create has a handle from here on.
CreateReplied(x) ==
    /\ Goto(x, "creating", "inspecting")
    /\ cont[x] # "absent"
    /\ known' = [known EXCEPT ![x] = TRUE]
    /\ UNCHANGED <<engineVars, op, ctxDone, exitSeen, err, rmErr>>

\* ContainerCreate returns an error (a refusal, a lost reply, a cancelled
\* context): Create returns it at once, there is no ID to remove by.
CreateFails(x) ==
    /\ FailTo(x, "creating", "returned")
    /\ UNCHANGED <<engineVars, op, ctxDone, known, exitSeen, rmErr>>

\* Inspect matches the intent: Run registers its wait next, Start starts.
InspectMatches(x) ==
    /\ ~ctxDone[x] /\ Exists(x)
    /\ Goto(x, "inspecting", IF op[x] = "run" THEN "registering" ELSE "toStart")
    /\ UNCHANGED <<engineVars, op, ctxDone, known, exitSeen, err, rmErr>>

\* Inspect fails or CheckObserved finds a difference: the container goes.
InspectFails(x) ==
    /\ FailTo(x, "inspecting", "toRemove")
    /\ UNCHANGED <<engineVars, op, ctxDone, known, exitSeen, rmErr>>

\* Mutant of RegisterWait: a registration that fails is not noticed.
RegisterWaitErrorLost(x) ==
    /\ Goto(x, "registering", "toStart")
    /\ \/ ~ctxDone[x] /\ Exists(x) /\ waiter' = [waiter EXCEPT ![x] = "registered"]
       \/ UNCHANGED waiter
    /\ UNCHANGED <<cont, flight, ran, op, ctxDone, known, exitSeen, err, rmErr>>

\* Run registers ContainerWait for the next exit before it starts the
\* container.  A failed registration shows up only on wait.Error.
RegisterWait(x) ==
    /\ Goto(x, "registering", "toStart")
    /\ \/ ~ctxDone[x] /\ Exists(x) /\ waiter' = [waiter EXCEPT ![x] = "registered"]
       \/ waiter' = [waiter EXCEPT ![x] = "error"]
    /\ UNCHANGED <<cont, flight, ran, op, ctxDone, known, exitSeen, err, rmErr>>

StartSent(x) ==
    /\ ~ctxDone[x]
    /\ Goto(x, "toStart", "starting")
    /\ Send(x, "start")
    /\ UNCHANGED <<cont, waiter, ran, op, ctxDone, known, exitSeen, err, rmErr>>

\* ContainerStart returns: Run waits for the exit, Start returns the handle.
StartReplied(x) ==
    /\ ran[x]
    /\ Goto(x, "starting", IF op[x] = "run" THEN "waiting" ELSE "held")
    /\ UNCHANGED <<engineVars, op, ctxDone, known, exitSeen, err, rmErr>>

StartFails(x) ==
    /\ \/ ctxDone[x] /\ FailTo(x, "toStart", "toRemove")
       \/ FailTo(x, "starting", "toRemove")
    /\ UNCHANGED <<engineVars, op, ctxDone, known, exitSeen, rmErr>>

\* Run's select takes wait.Result: the exit code is read.  An error message
\* inside the result still ends the run with an error.
WaitDelivers(x) ==
    /\ waiter[x] = "fired"
    /\ exitSeen' = [exitSeen EXCEPT ![x] = TRUE]
    /\ \/ Goto(x, "waiting", "logs") /\ UNCHANGED err
       \/ FailTo(x, "waiting", "toRemove")
    /\ UNCHANGED <<engineVars, op, ctxDone, known, rmErr>>

\* Mutant of WaitFails: the error of a failed wait is dropped.
WaitFailsSilently(x) ==
    /\ waiter[x] = "error" \/ ctxDone[x]
    /\ Goto(x, "waiting", "toRemove")
    /\ UNCHANGED <<engineVars, op, ctxDone, known, exitSeen, err, rmErr>>

\* Run's select takes wait.Error or ctx.Done().
WaitFails(x) ==
    /\ waiter[x] = "error" \/ ctxDone[x]
    /\ FailTo(x, "waiting", "toRemove")
    /\ UNCHANGED <<engineVars, op, ctxDone, known, exitSeen, rmErr>>

\* Run reads the logs, then whether the container was OOM-killed.
ReadResult(x) ==
    /\ ~ctxDone[x] /\ Exists(x)
    /\ Goto(x, "logs", "oom") \/ Goto(x, "oom", "toRemove")
    /\ UNCHANGED <<engineVars, op, ctxDone, known, exitSeen, err, rmErr>>

ReadResultFails(x) ==
    /\ FailTo(x, "logs", "toRemove") \/ FailTo(x, "oom", "toRemove")
    /\ UNCHANGED <<engineVars, op, ctxDone, known, exitSeen, rmErr>>

-----------------------------------------------------------------------------
(* The handle Start returned: its owner stops it, waits for it, removes it. *)

HandleUsed(x) ==
    /\ \/ Goto(x, "held", "stopping") \/ Goto(x, "held", "awaiting")
       \/ Goto(x, "held", "toRemove")
    /\ UNCHANGED <<engineVars, op, ctxDone, known, exitSeen, err, rmErr>>

\* Stop returns once the container has stopped (SIGTERM, then SIGKILL after
\* the grace period); Wait once it is not running.
StopOrWaitReturns(x) ==
    /\ cont[x] # "running"
    /\ Goto(x, "stopping", "held") \/ Goto(x, "awaiting", "held")
    /\ UNCHANGED <<engineVars, op, ctxDone, known, exitSeen, err, rmErr>>

\* Stop or Wait fails, or their context ends; the handle is still held.
StopOrWaitFails(x) ==
    /\ Goto(x, "stopping", "held") \/ Goto(x, "awaiting", "held")
    /\ UNCHANGED <<engineVars, op, ctxDone, known, exitSeen, err, rmErr>>

-----------------------------------------------------------------------------
(* Remove, on a fresh context bounded by cleanupTimeout *)

RemoveSent(x) ==
    /\ Goto(x, "toRemove", "removing")
    /\ Send(x, "remove")
    /\ UNCHANGED <<cont, waiter, ran, op, ctxDone, known, exitSeen, err, rmErr>>

\* ContainerRemove succeeded: the container is gone.
RemoveReplied(x) ==
    /\ cont[x] = "removed" /\ "remove" \notin flight[x]
    /\ Goto(x, "removing", "returned")
    /\ UNCHANGED <<engineVars, op, ctxDone, known, exitSeen, err, rmErr>>

\* ContainerRemove failed, a 404 included: containerGone asks for a listing.
RemoveFails(x) ==
    /\ Goto(x, "removing", "goneCheck")
    /\ UNCHANGED <<engineVars, op, ctxDone, known, exitSeen, err, rmErr>>

\* Mutant of FoundGone: any failed removal is taken for "already gone".
FoundGoneUnasked(x) ==
    /\ Goto(x, "goneCheck", "returned")
    /\ UNCHANGED <<engineVars, op, ctxDone, known, exitSeen, err, rmErr>>

\* The listing answers that the ID does not exist: not an error.
FoundGone(x) ==
    /\ ~Exists(x)
    /\ Goto(x, "goneCheck", "returned")
    /\ UNCHANGED <<engineVars, op, ctxDone, known, exitSeen, err, rmErr>>

\* It is still listed, or the listing failed: Remove's error is returned.
NotFoundGone(x) ==
    /\ FailTo(x, "goneCheck", "returned")
    /\ rmErr' = [rmErr EXCEPT ![x] = TRUE]
    /\ UNCHANGED <<engineVars, op, ctxDone, known, exitSeen>>

EngineSteps(x) ==
    EngineCreates(x) \/ EngineStarts(x) \/ EngineRemoves(x) \/ EngineDrops(x)

\* A step the call takes by itself once its engine call is answered.
CallProgresses(x) ==
    \/ CreateReplied(x) \/ InspectMatches(x) \/ RegisterWait(x)
    \/ StartSent(x) \/ StartReplied(x) \/ WaitDelivers(x) \/ ReadResult(x)
    \/ StopOrWaitReturns(x) \/ RemoveSent(x) \/ RemoveReplied(x) \/ FoundGone(x)

CallFails(x) ==
    \/ CreateFails(x) \/ InspectFails(x) \/ StartFails(x)
    \/ WaitFails(x) \/ ReadResultFails(x) \/ StopOrWaitFails(x)
    \/ RemoveFails(x) \/ NotFoundGone(x)

Environment(x) ==
    /\ EngineSteps(x) \/ ContainerExits(x) \/ SweptAway(x)
    /\ UNCHANGED callVars

AllReturned == (\A x \in Calls : pc[x] = "returned") /\ UNCHANGED vars

LauncherSteps ==
    \E x \in Calls :
        \/ CreateRefused(x) \/ CreateSent(x) \/ HandleUsed(x)
        \/ CallProgresses(x) \/ CallFails(x) \/ ContextEnds(x)
        \/ Environment(x)

Next == LauncherSteps \/ AllReturned

Spec == Init /\ [][Next]_vars

\* Every engine call returns, with a reply or an error: Go code makes progress
\* and a broken connection is noticed.  The engine settles what it was sent,
\* and the one-shot command of a Run ends; a started server need not.
LauncherFairness ==
    \A x \in Calls :
        /\ WF_vars(CallProgresses(x) \/ CallFails(x))
        /\ WF_vars(EngineSteps(x) /\ UNCHANGED callVars)
        /\ WF_vars(op[x] = "run" /\ ContainerExits(x) /\ UNCHANGED callVars)

-----------------------------------------------------------------------------
(* Properties *)

\* Once ContainerCreate has named the container, no way out of Run, of a
\* failed Start or of Remove leaves it on the engine unless the returned
\* error says so, whatever was cancelled, lost or removed by others meanwhile.
KnownContainerRemoved ==
    \A x \in Calls :
        pc[x] = "returned" /\ known[x] /\ ~rmErr[x] => ~Exists(x)

\* Run returns nil only for a container that ran and whose exit its wait has
\* delivered: a fast exit is not missed and "not started" is not an exit.
SuccessIsARealExit ==
    \A x \in Calls :
        pc[x] = "returned" /\ op[x] = "run" /\ ~err[x] =>
            exitSeen[x] /\ ran[x] /\ cont[x] = "removed"

\* Run returns: the wait registered before the start cannot miss the exit, and
\* a failed or cancelled call ends as well.
RunReturns ==
    \A x \in Calls :
        op[x] = "run" /\ pc[x] = "creating" ~> pc[x] = "returned"

\* run.go: "The container is always removed on the way out, also on error or
\* when ctx is cancelled".  After Run returned, without saying that a removal
\* failed, the container it asked for is not on the engine.
AlwaysRemovedOnTheWayOut ==
    \A x \in Calls :
        pc[x] = "returned" /\ op[x] = "run" /\ ~rmErr[x] => ~Exists(x)
=============================================================================
