----------------------------- MODULE PerfServer -----------------------------
(***************************************************************************)
(* The life of one performance adapter process (internal/lab/perf): it     *)
(* creates its private schemas, listens, writes READY_FILE, serves, and on *)
(* a signal drains and drops the schemas again.                            *)
(***************************************************************************)
EXTENDS Naturals

CONSTANT Schemas     \* schemas the adapter makes (background-job-queue: 2)

ASSUME SchemasAssumption == Schemas \in Nat

VARIABLES
    spc,       \* where the process is
    made,      \* its schemas that exist in Postgres
    deferred,  \* cleanup functions main has deferred so far
    ready,     \* READY_FILE: "absent", "empty" or "full"
    stop,      \* a signal has reached signal.NotifyContext
    leaving,   \* why main unwinds: "drain", or the "panic" of a failed call
    how,       \* how the process ended: "unwound", by a "signal", "killed"
    dropErr    \* a "drop schema" failed; cleanup printed it and went on

serverVars == <<spc, made, deferred, ready, stop, leaving, how, dropErr>>

ServerPc == {"none", "setup", "pool", "listen", "notified", "writing",
             "serving", "draining", "cleanup", "exited"}

ServerTypeOK ==
    /\ spc \in ServerPc
    /\ made \in 0..Schemas /\ deferred \in 0..Schemas
    /\ ready \in {"absent", "empty", "full"}
    /\ stop \in BOOLEAN /\ dropErr \in BOOLEAN
    /\ leaving \in {"none", "drain", "panic"}
    /\ how \in {"none", "unwound", "signal", "killed"}

ServerInit ==
    /\ spc = "none" /\ made = 0 /\ deferred = 0
    /\ ready = "absent" /\ stop = FALSE /\ dropErr = FALSE
    /\ leaving = "none" /\ how = "none"

\* Database: "create schema", then the pool; only its return hands main the
\* cleanup it defers.
CreateSchema ==
    /\ spc = "setup" /\ made < Schemas
    /\ made' = made + 1
    /\ spc' = "pool"
    /\ UNCHANGED <<deferred, ready, stop, leaving, how, dropErr>>

\* Mutant of DeferCleanup: the returned cleanup is dropped.
DeferCleanupForgotten ==
    /\ spc = "pool"
    /\ spc' = "setup"
    /\ UNCHANGED <<made, deferred, ready, stop, leaving, how, dropErr>>

DeferCleanup ==
    /\ spc = "pool"
    /\ deferred' = deferred + 1
    /\ spc' = "setup"
    /\ UNCHANGED <<made, ready, stop, leaving, how, dropErr>>

\* Fixtures and warm-up are done; Serve opens the listener.
Listen ==
    /\ spc = "setup" /\ made = Schemas
    /\ spc' = "listen"
    /\ UNCHANGED <<made, deferred, ready, stop, leaving, how, dropErr>>

\* signal.NotifyContext: from here a signal asks for a shutdown.
Notify ==
    /\ spc = "listen"
    /\ spc' = "notified"
    /\ UNCHANGED <<made, deferred, ready, stop, leaving, how, dropErr>>

\* os.WriteFile(READY_FILE) creates the file, then writes the URL into it;
\* without READY_FILE the server just serves.
CreateReadyFile(asked) ==
    /\ spc = "notified"
    /\ ready' = IF asked THEN "empty" ELSE ready
    /\ spc' = IF asked THEN "writing" ELSE "serving"
    /\ UNCHANGED <<made, deferred, stop, leaving, how, dropErr>>

WriteReadyFile ==
    /\ spc = "writing"
    /\ ready' = "full"
    /\ spc' = "serving"
    /\ UNCHANGED <<made, deferred, stop, leaving, how, dropErr>>

\* Shutdown has begun: server.Serve returns ErrServerClosed at once, and
\* cancel() gives the signals back to their default action.
ServeEnds ==
    /\ spc = "serving" /\ stop
    /\ spc' = "draining" /\ leaving' = "drain"
    /\ UNCHANGED <<made, deferred, ready, stop, how, dropErr>>

\* <-done: Shutdown has drained the requests within 15 s, or Close has cut
\* them off; main returns into its deferred cleanups.
Drained ==
    /\ spc = "draining"
    /\ spc' = "cleanup"
    /\ UNCHANGED <<made, deferred, ready, stop, leaving, how, dropErr>>

\* lab.Check or a setting out of range panics, lab.Check of an error that
\* Serve returns included; the deferred functions run, cancel() among them.
ServerPanics ==
    /\ spc \in {"setup", "pool", "listen", "notified", "writing", "serving"}
    /\ spc' = "cleanup" /\ leaving' = "panic"
    /\ UNCHANGED <<made, deferred, ready, stop, how, dropErr>>

\* One deferred cleanup: close the pool, drop the schema within 10 s.
DropSchema ==
    /\ spc = "cleanup" /\ deferred > 0
    /\ deferred' = deferred - 1
    /\ \/ made' = made - 1 /\ UNCHANGED dropErr
       \/ dropErr' = TRUE /\ UNCHANGED made
    /\ UNCHANGED <<spc, ready, stop, leaving, how>>

ServerExits ==
    /\ spc = "cleanup" /\ deferred = 0
    /\ spc' = "exited" /\ how' = "unwound"
    /\ UNCHANGED <<made, deferred, ready, stop, leaving, dropErr>>

\* NotifyContext has the signals from its call until its cancel().
Listening == spc \in {"notified", "writing", "serving"}

\* The default action of a signal: the process ends where it is.
Dies ==
    /\ spc' = "exited" /\ how' = "signal"
    /\ UNCHANGED <<made, deferred, ready, stop, leaving, dropErr>>

\* Mutant of Signalled: nobody listens to the stop context.
SignalledUnheard ==
    \/ Listening /\ UNCHANGED serverVars
    \/ spc \notin {"none", "exited"} /\ ~Listening /\ Dies
    \/ spc \in {"none", "exited"} /\ UNCHANGED serverVars

\* SIGINT or SIGTERM arrives.  While NotifyContext has it, it cancels the stop
\* context, once; before that, and again in the drain and the cleanups, it ends
\* the process on the spot.
Signalled ==
    \/ /\ Listening /\ stop' = TRUE
       /\ UNCHANGED <<spc, made, deferred, ready, leaving, how, dropErr>>
    \/ spc \notin {"none", "exited"} /\ ~Listening /\ Dies
    \/ spc \in {"none", "exited"} /\ UNCHANGED serverVars

\* SIGKILL, or SIGPIPE on its standard output or error.
Killed ==
    /\ spc # "none"
    /\ how' = IF spc = "exited" THEN how ELSE "killed"
    /\ spc' = "exited"
    /\ UNCHANGED <<made, deferred, ready, stop, leaving, dropErr>>

ServerWorks(asked) ==
    \/ CreateSchema \/ DeferCleanup \/ Listen \/ Notify
    \/ CreateReadyFile(asked) \/ WriteReadyFile \/ ServeEnds \/ Drained
    \/ DropSchema \/ ServerExits
=============================================================================
