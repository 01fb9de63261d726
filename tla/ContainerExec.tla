--------------------------- MODULE ContainerExec ---------------------------
(***************************************************************************)
(* Container.Exec of internal/lab/docker/run.go on the containers the      *)
(* launcher hands out: create, attach, copy the output until the stream    *)
(* ends, then poll until the engine has recorded the exit.  An Exec's own  *)
(* context may end at any moment, which stops the wait and not the         *)
(* process; the container may exit or be stopped, swept or removed by its  *)
(* owner under a running Exec.  Every step is a step of Launcher or of one *)
(* Exec: the composition runs both over one engine.                        *)
(***************************************************************************)
EXTENDS Launcher, Integers

CONSTANTS MaxExecs,  \* concurrent Exec calls on one handle
          Signalled  \* the exit code of a process that was killed

Codes == {0, 1, Signalled}
NoCode == -1

ASSUME ExecAssumption == MaxExecs \in Nat /\ Signalled \in Nat \ {0, 1}

\* Exec number e[2] on the container of the launcher call e[1].
Execs == Calls \X (1..MaxExecs)

VARIABLES
    proc,     \* proc[e]: the exec's process as the engine sees it
    code,     \* code[e]: exit code the engine recorded
    stream,   \* stream[e]: the hijacked output stream
    at,       \* at[e]: where Exec is
    ended,    \* ended[e]: its context is cancelled or expired
    result    \* result[e]: Result.ExitCode

procVars == <<proc, code, stream>>
execVars == <<procVars, at, ended, result>>

Returned == {"ok", "cancelled", "failed"}

ExecInit ==
    /\ proc = [e \in Execs |-> "none"]
    /\ code = [e \in Execs |-> NoCode]
    /\ stream = [e \in Execs |-> "none"]
    /\ at = [e \in Execs |-> "idle"]
    /\ ended = [e \in Execs |-> FALSE]
    /\ result = [e \in Execs |-> NoCode]

-----------------------------------------------------------------------------
(* Exec *)

Up(e) == cont[e[1]] = "running"

\* The owner has its handle from the moment Start returned.
HandedOut(x) ==
    /\ op[x] = "start" /\ ~err[x]
    /\ pc[x] \in StartOnly \cup {"toRemove", "removing", "goneCheck"}

Move(e, from, to) == at[e] = from /\ at' = [at EXCEPT ![e] = to]

\* Mutant of ExecContextEnds: no AfterFunc, the blocked read is left alone.
ExecContextEndsOnly(e) ==
    /\ ~ended[e] /\ at[e] \notin {"idle"} \cup Returned
    /\ ended' = [ended EXCEPT ![e] = TRUE]
    /\ UNCHANGED <<proc, code, stream, at, result>>

ExecContextEnds(e) ==
    /\ ~ended[e] /\ at[e] \notin {"idle"} \cup Returned
    /\ ended' = [ended EXCEPT ![e] = TRUE]
    \* AfterFunc closes the attached connection
    /\ stream' = [stream EXCEPT ![e] = IF @ = "open" THEN "closed" ELSE @]
    /\ UNCHANGED <<proc, code, at, result>>

ExecCreate(e) ==
    /\ HandedOut(e[1]) /\ Up(e)
    /\ Move(e, "idle", "attach")
    /\ proc' = [proc EXCEPT ![e] = "created"]
    /\ UNCHANGED <<code, stream, ended, result>>

ExecCreateFails(e) ==
    /\ HandedOut(e[1])
    /\ Move(e, "idle", "failed")
    /\ UNCHANGED <<procVars, ended, result>>

\* ExecAttach starts the process and opens its output stream.
ExecAttach(e) ==
    /\ Up(e) /\ ~ended[e]
    /\ Move(e, "attach", "copy")
    /\ proc' = [proc EXCEPT ![e] = "running"]
    /\ stream' = [stream EXCEPT ![e] = "open"]
    /\ UNCHANGED <<code, ended, result>>

\* It fails for the caller; the engine may have started the process.
ExecAttachFails(e) ==
    /\ Move(e, "attach", "failed")
    /\ \/ UNCHANGED proc
       \/ Up(e) /\ proc' = [proc EXCEPT ![e] = "running"]
    /\ UNCHANGED <<code, stream, ended, result>>

\* StdCopy returns at the end of the stream.  A context that ended by now is
\* reported as such, with the output so far and ExitCode -1.
CopyEnds(e) ==
    /\ stream[e] \in {"ended", "closed"}
    /\ Move(e, "copy", IF ended[e] THEN "cancelled" ELSE "poll")
    /\ UNCHANGED <<procVars, ended, result>>

\* StdCopy fails on a broken stream.
CopyFails(e) ==
    /\ Move(e, "copy", IF ended[e] THEN "cancelled" ELSE "failed")
    /\ UNCHANGED <<procVars, ended, result>>

\* Mutant of PollFindsExit: one inspection, whether or not it still runs.
PollFindsExitOnce(e) ==
    /\ Exists(e[1]) /\ ~ended[e]
    /\ Move(e, "poll", "ok")
    /\ result' = [result EXCEPT ![e] = code[e]]
    /\ UNCHANGED <<procVars, ended>>

\* ExecInspect says the process no longer runs: its exit code is the result.
\* While it still runs, Exec sleeps execPollInterval and asks again.
PollFindsExit(e) ==
    /\ Exists(e[1]) /\ ~ended[e] /\ proc[e] # "running"
    /\ Move(e, "poll", "ok")
    /\ result' = [result EXCEPT ![e] = code[e]]
    /\ UNCHANGED <<procVars, ended>>

\* ExecInspect fails, on a removed container for certain.
PollFails(e) ==
    /\ Move(e, "poll", "failed")
    /\ UNCHANGED <<procVars, ended, result>>

PollCancelled(e) ==
    /\ ended[e]
    /\ Move(e, "poll", "cancelled")
    /\ UNCHANGED <<procVars, ended, result>>

-----------------------------------------------------------------------------
(* The engine *)

\* The process closes its output; the stream can end before the exit is
\* recorded.
StreamEnds(e) ==
    /\ proc[e] \in {"running", "exited"} /\ stream[e] = "open"
    /\ stream' = [stream EXCEPT ![e] = "ended"]
    /\ UNCHANGED <<proc, code, at, ended, result>>

ProcessExits(e) ==
    /\ proc[e] = "running"
    /\ proc' = [proc EXCEPT ![e] = "exited"]
    /\ \E k \in {0, 1} : code' = [code EXCEPT ![e] = k]
    /\ UNCHANGED <<stream, at, ended, result>>

\* With the container ends every exec in it, by its exit, Stop or removal.
KillExecs ==
    LET killed == {e \in Execs : Up(e) /\ cont'[e[1]] # "running"}
        Dies(e) == e \in killed /\ proc[e] = "running"
    IN  /\ proc' = [e \in Execs |-> IF Dies(e) THEN "exited" ELSE proc[e]]
        /\ code' = [e \in Execs |-> IF Dies(e) THEN Signalled ELSE code[e]]
        /\ stream' = [e \in Execs |-> IF e \in killed /\ stream[e] = "open"
                                      THEN "ended" ELSE stream[e]]
        /\ UNCHANGED <<at, ended, result>>

-----------------------------------------------------------------------------
(* Both together *)

\* What Exec does once the call it is in has been answered.
ExecSteps(e) ==
    \/ ExecAttach(e) \/ ExecAttachFails(e) \/ CopyEnds(e) \/ CopyFails(e)
    \/ PollFindsExit(e) \/ PollFails(e) \/ PollCancelled(e)

ExecsSettled == \A e \in Execs : at[e] \in {"idle"} \cup Returned

EngineNext ==
    \/ LauncherSteps /\ KillExecs
    \/ /\ \E e \in Execs :
           \/ ExecCreate(e) \/ ExecCreateFails(e) \/ ExecSteps(e)
           \/ ExecContextEnds(e) \/ StreamEnds(e) \/ ProcessExits(e)
       /\ UNCHANGED vars
    \/ AllReturned /\ ExecsSettled /\ UNCHANGED execVars

EngineInit == Init /\ ExecInit

EngineSpec == EngineInit /\ [][EngineNext]_<<vars, execVars>>

\* Each engine call is answered; the reader sees the end of its stream.  No
\* process of an exec is obliged to exit and no context to end.
ExecFairness ==
    \A e \in Execs :
        /\ WF_execVars(ExecAttach(e) \/ ExecAttachFails(e))
        /\ WF_execVars(CopyEnds(e))
        /\ WF_execVars(PollFindsExit(e) \/ PollCancelled(e))
        /\ WF_execVars(~Exists(e[1]) /\ PollFails(e))

FairSpec == EngineSpec /\ LauncherFairness /\ ExecFairness

-----------------------------------------------------------------------------
(* Properties *)

\* Exec reports an exit code exactly when it returns without an error, and then
\* it is the code the engine recorded for a process that has really exited,
\* although the stream can end before the exit is recorded and the container
\* can be stopped or removed meanwhile.
OkMeansRecordedExit ==
    \A e \in Execs :
        /\ at[e] = "ok" => proc[e] = "exited" /\ result[e] = code[e]
        /\ at[e] = "ok" <=> result[e] # NoCode

\* A cancelled Exec returns, even when its process never exits and never
\* closes its output: the hijacked stream is closed under the blocked read.
\* One whose container has ended returns without help of its context.
ExecReturns ==
    \A e \in Execs :
        ended[e] \/ (at[e] = "copy" /\ ~Up(e)) ~> at[e] \in Returned
=============================================================================
