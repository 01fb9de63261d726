------------------------------ MODULE LabRunner ------------------------------
(***************************************************************************)
(* scripts/perf/run.ts: one "lab", "run" or "serve" command over the       *)
(* adapter process of PerfServer.  "lab" starts the adapter on a free      *)
(* port, waits for READY_FILE, drives k6 against it, captures /stats,      *)
(* analyzes, and stops the adapter in its finally block.                   *)
(***************************************************************************)
EXTENDS PerfServer

CONSTANT MaxCtrlC    \* bound: how often Ctrl-C is typed

VARIABLES
    action,      \* the command: "lab", "run" or "serve"
    other,       \* a server of somebody else listens on 127.0.0.1:8080
    rpc,         \* where run.ts is
    exitedSeen,  \* serverExited
    target,      \* the server BASE_URL names: "none", "own" or "port8080"
    listener,    \* run.ts ignores SIGINT by a listener of its own
    ctrlC,       \* how often Ctrl-C was typed
    captured,    \* domain.json written
    status       \* exit status: "ok" or "bad"

runnerVars == <<action, other, rpc, exitedSeen, target, listener, ctrlC,
                captured, status>>
vars == <<serverVars, runnerVars>>

RunnerPc == {"start", "serve", "poll", "read", "health", "inspect", "k6", "stats",
             "analyze", "finally", "waitStop", "exit", "interrupted"}

TypeOK ==
    /\ ServerTypeOK
    /\ action \in {"lab", "run", "serve"}
    /\ other \in BOOLEAN /\ exitedSeen \in BOOLEAN /\ listener \in BOOLEAN
    /\ captured \in BOOLEAN
    /\ rpc \in RunnerPc /\ ctrlC \in Nat
    /\ target \in {"none", "own", "port8080"}
    /\ status \in {"ok", "bad"}

\* Arguments are checked and the adapter is built.
Init ==
    /\ ServerInit
    /\ action \in {"lab", "run", "serve"} /\ other \in BOOLEAN
    /\ rpc = "start" /\ exitedSeen = FALSE /\ target = "none"
    /\ listener = FALSE /\ ctrlC = 0 /\ captured = FALSE /\ status = "ok"

-----------------------------------------------------------------------------
\* Spawn the adapter for "lab" and "serve"; "run" names a server with BASE_URL.
Start ==
    /\ rpc = "start"
    /\ \/ /\ action = "run" /\ rpc' = "health" /\ target' = "port8080"
          /\ UNCHANGED spc
       \/ /\ action # "run" /\ spc' = "setup"
          /\ rpc' = IF action = "lab" THEN "poll" ELSE "serve"
          /\ UNCHANGED target
    /\ listener' = (action = "serve")
    /\ UNCHANGED <<made, deferred, ready, stop, leaving, how, dropErr,
                   action, other, exitedSeen, ctrlC, captured, status>>

\* server.status resolves some time after the process is gone.
NoticeExit ==
    /\ spc = "exited" /\ ~exitedSeen /\ rpc \notin {"exit", "interrupted"}
    /\ exitedSeen' = TRUE
    /\ UNCHANGED <<serverVars, action, other, rpc, target, listener,
                   ctrlC, captured, status>>

\* "serve" returns the adapter's status once it has exited.
ServeReturns ==
    /\ rpc = "serve" /\ exitedSeen
    /\ rpc' = "exit"
    /\ status' = IF how = "unwound" /\ leaving = "drain" THEN "ok" ELSE "bad"
    /\ UNCHANGED <<serverVars, action, other, exitedSeen, target, listener,
                   ctrlC, captured>>

\* while (!exists(READY_FILE)): the file is there.
FindReadyFile ==
    /\ rpc = "poll" /\ ready # "absent"
    /\ rpc' = "read"
    /\ UNCHANGED <<serverVars, action, other, exitedSeen, target, listener,
                   ctrlC, captured, status>>

\* The server exited first, or the 45 s deadline passed: throw Failure.
PollGivesUp ==
    /\ rpc = "poll" /\ ready = "absent"
    /\ rpc' = "finally" /\ status' = "bad"
    /\ UNCHANGED <<serverVars, action, other, exitedSeen, target, listener,
                   ctrlC, captured>>

\* BASE_URL is the file's text; an empty one falls back to the default.
ReadBaseUrl ==
    /\ rpc = "read"
    /\ target' = IF ready = "full" THEN "own" ELSE "port8080"
    /\ rpc' = "health"
    /\ UNCHANGED <<serverVars, action, other, exitedSeen, listener,
                   ctrlC, captured, status>>

\* Somebody answers at BASE_URL; a drain still answers what it has accepted.
Answers == \/ target = "own" /\ spc \in {"serving", "draining"}
           \/ target = "port8080" /\ other

\* GET /health answers and settings.json is written.
Health ==
    /\ rpc = "health" /\ Answers
    /\ rpc' = "inspect"
    /\ UNCHANGED <<serverVars, action, other, exitedSeen, target, listener,
                   ctrlC, captured, status>>

\* k6 inspect writes workload.json; then the SIGINT listener is installed.
Inspect ==
    /\ rpc = "inspect"
    /\ rpc' = "k6"
    /\ listener' = TRUE
    /\ UNCHANGED <<serverVars, action, other, exitedSeen, target, ctrlC, captured, status>>

\* /health fails or times out, or k6 inspect fails: the error goes through
\* finally.
BeforeTrafficFails ==
    /\ rpc \in {"health", "inspect"}
    /\ rpc' = "finally" /\ status' = "bad"
    /\ UNCHANGED <<serverVars, action, other, exitedSeen, target, listener,
                   ctrlC, captured>>

\* k6 ends, with the status of its checks and thresholds; one that Ctrl-C
\* interrupts fails, unless it was over already.
K6Ends ==
    /\ rpc = "k6"
    /\ rpc' = "stats"
    /\ status' \in {"ok", "bad"}
    /\ UNCHANGED <<serverVars, action, other, exitedSeen, target, listener,
                   ctrlC, captured>>

AfterStats == IF action = "lab" THEN "analyze" ELSE "finally"

CaptureStats ==
    /\ rpc = "stats" /\ Answers
    /\ captured' = TRUE
    /\ rpc' = AfterStats
    /\ UNCHANGED <<serverVars, action, other, exitedSeen, target, listener,
                   ctrlC, status>>

\* "Could not capture final domain state": status ||= 1, and on.
StatsFail ==
    /\ rpc = "stats"
    /\ status' = "bad"
    /\ rpc' = AfterStats
    /\ UNCHANGED <<serverVars, action, other, exitedSeen, target, listener,
                   ctrlC, captured>>

\* DuckDB over the CSV and domain.json: status ||= sqlStatus.
Analyze ==
    /\ rpc = "analyze"
    /\ status' \in {status, "bad"}
    /\ rpc' = "finally"
    /\ UNCHANGED <<serverVars, action, other, exitedSeen, target, listener,
                   ctrlC, captured>>

\* Mutant of StopServer: the SIGTERM is sent again while run.ts waits.
StopServerAgain ==
    /\ rpc \in {"finally", "waitStop"}
    /\ IF spc = "none"
       THEN rpc' = "exit" /\ UNCHANGED serverVars
       ELSE /\ rpc' = "waitStop"
            /\ IF exitedSeen THEN UNCHANGED serverVars ELSE Signalled
    /\ UNCHANGED <<action, other, exitedSeen, target, listener, ctrlC, captured, status>>

\* finally: SIGTERM unless the adapter is known to have exited.
StopServer ==
    /\ rpc = "finally"
    /\ IF spc = "none"
       THEN rpc' = "exit" /\ UNCHANGED serverVars
       ELSE /\ rpc' = "waitStop"
            /\ IF exitedSeen THEN UNCHANGED serverVars ELSE Signalled
    /\ UNCHANGED <<action, other, exitedSeen, target, listener, ctrlC, captured, status>>

\* Mutant of ServerStopped: the exit is not waited for.
ServerStoppedUnwaited ==
    /\ rpc = "waitStop"
    /\ rpc' = "exit"
    /\ UNCHANGED <<serverVars, action, other, exitedSeen, target, listener,
                   ctrlC, captured, status>>

\* The adapter's exit wins the race with the 30 s timer.
ServerStopped ==
    /\ rpc = "waitStop" /\ exitedSeen
    /\ rpc' = "exit"
    /\ UNCHANGED <<serverVars, action, other, exitedSeen, target, listener,
                   ctrlC, captured, status>>

\* The timer wins: SIGKILL, then wait for the exit.
ForceStop ==
    /\ rpc = "waitStop" /\ ~exitedSeen
    /\ Killed
    /\ UNCHANGED runnerVars

\* Ctrl-C goes to the terminal's process group: the adapter gets SIGINT, k6
\* stops, and run.ts, before it installed its listener, dies without finally.
CtrlC ==
    /\ ctrlC < MaxCtrlC /\ rpc \notin {"start", "exit", "interrupted"}
    /\ ctrlC' = ctrlC + 1
    /\ rpc' = IF listener THEN rpc ELSE "interrupted"
    /\ Signalled
    /\ UNCHANGED <<action, other, exitedSeen, target, listener, captured, status>>

\* An interrupted run.ts takes the reading end of the adapter's output along:
\* the adapter dies of SIGPIPE if it has still to print its URL, which it does
\* before Serve, or prints a failed cleanup.
BrokenPipe ==
    /\ rpc = "interrupted"
    /\ spc = "serving" \/ (spc = "cleanup" /\ dropErr)
    /\ Killed
    /\ UNCHANGED runnerVars

Over == rpc \in {"exit", "interrupted"}
ServerGone == spc \in {"none", "exited"}

RunnerWorks ==
    \/ Start \/ NoticeExit \/ ServeReturns \/ FindReadyFile \/ ReadBaseUrl
    \/ Health \/ Inspect \/ K6Ends \/ CaptureStats \/ Analyze
    \/ StopServer \/ ServerStopped

RunnerGivesUp == PollGivesUp \/ BeforeTrafficFails \/ StatsFail \/ ForceStop

Server == (ServerWorks(action = "lab") \/ ServerPanics) /\ UNCHANGED runnerVars

Finished == Over /\ ServerGone /\ UNCHANGED vars

Next == RunnerWorks \/ RunnerGivesUp \/ Server \/ CtrlC \/ BrokenPipe \/ Finished

Spec == Init /\ [][Next]_vars

\* run.ts runs; fetches have timeouts, and the poll loop a deadline.  A lab's
\* adapter may get stuck anywhere; one that nobody will kill has its own
\* timeouts.  Nobody is obliged to type Ctrl-C, except to end "serve".
FairSpec ==
    /\ Spec
    /\ WF_vars(RunnerWorks)
    /\ WF_vars(PollGivesUp \/ BeforeTrafficFails \/ StatsFail)
    /\ WF_vars(ForceStop)
    /\ WF_vars(/\ action = "serve" \/ rpc = "interrupted"
               /\ ServerWorks(action = "lab") /\ UNCHANGED runnerVars)
    /\ WF_vars(rpc = "serve" /\ CtrlC)

-----------------------------------------------------------------------------
(* Properties *)

\* However a lab ends (failure, readiness timeout, Ctrl-C it survives), run.ts
\* exits only after the adapter it started is gone.
ServerNeverOutlivesLab == rpc = "exit" => ServerGone

\* A schema outlives its adapter only where the code cannot drop it: it was
\* killed; a drop failed and was printed; a signal met it before it told its
\* URL, or once more while it was leaving; or Database panicked between
\* "create schema" and the return of that schema's cleanup.
UnwindingDropsSchemas ==
    spc = "exited" /\ made > 0 /\ ~dropErr =>
        \/ how = "killed"
        \/ how = "signal" /\ (ready = "absent" \/ leaving # "none")
        \/ how = "unwound" /\ leaving = "panic" /\ made = 1

\* A run that exits with status 0 has the domain state of the server it
\* drove.  Its own adapter has then dropped its schemas, said that it could
\* not or been killed by run.ts: run.ts's one SIGTERM never meets a drain or a
\* cleanup, unless a Ctrl-C or a failure of Serve has begun it.
OkMeansCaptured ==
    rpc = "exit" /\ status = "ok" /\ action # "serve" =>
        /\ captured
        /\ target = "own" /\ ctrlC = 0 /\ leaving # "panic" =>
             how = "killed" \/ dropErr \/ made = 0

\* Every command ends, with its adapter gone, although a lab's adapter may get
\* stuck in setup, in the drain or in a cleanup.
LabEnds == <>(Over /\ ServerGone)

\* README.md on lab: "build/start the adapter on a free port with fresh
\* isolated fixtures, run the k6 workload".  The traffic of a lab goes to the
\* adapter it has started.
LabMeasuresFreshServer ==
    action = "lab" /\ rpc \in {"k6", "stats", "analyze"} => target = "own"
=============================================================================
