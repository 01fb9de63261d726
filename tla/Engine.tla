------------------------------- MODULE Engine -------------------------------
(***************************************************************************)
(* The Docker engine as the launcher in internal/lab/docker uses it.  It   *)
(* is not part of the repository: this module models only what the calls   *)
(* in run.go rely on.  A request is applied or dropped by the engine at    *)
(* some time after it was sent, whether or not the client still waits for  *)
(* the reply, so a cancelled call may still take effect.                   *)
(***************************************************************************)
EXTENDS Naturals, FiniteSets

CONSTANT Calls    \* launcher calls; a call's container has its name

VARIABLES
    cont,      \* cont[x]: state of the container call x creates
    flight,    \* flight[x]: requests sent for it and not yet settled
    waiter,    \* waiter[x]: the registered ContainerWait of call x
    ran        \* ran[x]: its container has been started

engineVars == <<cont, flight, waiter, ran>>

ContState == {"absent", "created", "running", "exited", "removed"}
ReqKind == {"create", "start", "remove"}
WaiterState == {"none", "registered", "fired", "error"}

Exists(x) == cont[x] \in {"created", "running", "exited"}

Send(x, req) == flight' = [flight EXCEPT ![x] = @ \cup {req}]

EngineCreates(x) ==
    /\ "create" \in flight[x] /\ cont[x] = "absent"
    /\ cont' = [cont EXCEPT ![x] = "created"]
    /\ flight' = [flight EXCEPT ![x] = @ \ {"create"}]
    /\ UNCHANGED <<waiter, ran>>

EngineStarts(x) ==
    /\ "start" \in flight[x] /\ cont[x] = "created"
    /\ cont' = [cont EXCEPT ![x] = "running"]
    /\ flight' = [flight EXCEPT ![x] = @ \ {"start"}]
    /\ ran' = [ran EXCEPT ![x] = TRUE]
    /\ UNCHANGED waiter

\* A wait fires on the exit that follows its registration, not on earlier ones.
Fires(x) == [waiter EXCEPT ![x] = IF @ = "registered" THEN "fired" ELSE @]

ContainerExits(x) ==
    /\ cont[x] = "running"
    /\ cont' = [cont EXCEPT ![x] = "exited"]
    /\ waiter' = Fires(x)
    /\ UNCHANGED <<flight, ran>>

\* A forced removal kills a running container first, which is an exit; a wait
\* on a container removed without running ends in an error.
Remove(x) ==
    /\ cont' = [cont EXCEPT ![x] = "removed"]
    /\ waiter' = IF cont[x] = "running" THEN Fires(x)
                 ELSE [waiter EXCEPT ![x] = IF @ = "registered" THEN "error" ELSE @]
    /\ UNCHANGED ran

EngineRemoves(x) ==
    /\ "remove" \in flight[x] /\ Exists(x)
    /\ flight' = [flight EXCEPT ![x] = @ \ {"remove"}]
    /\ Remove(x)

\* Sweep, or someone at the docker CLI, removes the container meanwhile.
SweptAway(x) ==
    /\ Exists(x)
    /\ Remove(x)
    /\ UNCHANGED flight

\* The request never reaches the engine, or the engine refuses it.
EngineDrops(x) ==
    /\ \E req \in flight[x] : flight' = [flight EXCEPT ![x] = @ \ {req}]
    /\ UNCHANGED <<cont, waiter, ran>>
=============================================================================
