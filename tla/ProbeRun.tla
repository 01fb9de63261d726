------------------------------ MODULE ProbeRun ------------------------------
(***************************************************************************)
(* run() of internal/lab/docker/probe/main.go: the frame every command of  *)
(* the fixture binary runs in.  It looks the command up, refuses what      *)
(* would change a machine that is no fixture, counts the DENIED lines the  *)
(* command prints through its reporter and turns them into an exit status. *)
(*                                                                         *)
(* A line is <<name, ok, who>>: who is the user the process was when it    *)
(* made the check.  The text after OK or DENIED is left out.               *)
(***************************************************************************)
EXTENDS Integers, Sequences, FiniteSets

CONSTANTS Root, Worker,    \* users a process may run as
          Clients          \* connections to a command that listens

ASSUME UserAssumption == Root # Worker

VARIABLES
    cmd,       \* the command on the command line
    marker,    \* TRINKETS_PROBE=1 is in the environment
    phase,     \* "start", "running", "exited" or "killed"
    user,      \* who the process is
    started,   \* who it was when it was started
    lines,     \* the lines it has printed
    denied,    \* reporter.denied
    status,    \* the exit status
    term       \* SIGTERM has been delivered

runVars == <<cmd, marker, phase, user, started, lines, denied, status, term>>

\* The commands that are modelled.  Those outside Mutates need no marker.
Mutates == {"write", "setuid", "mount", "unshare-user", "keyctl", "battery",
            "alloc", "fork", "initdir"}
Commands == Mutates \cup {"id", "status", "pids", "interfaces", "cgroup", "sleep",
                          "peer-echo", "forward"}

RunInit ==
    /\ cmd \in Commands /\ marker \in BOOLEAN
    /\ user \in {Root, Worker} /\ started = user
    /\ phase = "start" /\ lines = {} /\ denied = 0 /\ status = -1 /\ term = FALSE

\* reporter.line for each of a check's lines, ok[n] saying how line n went.
Report(ok) ==
    /\ lines' = lines \cup {<<n, ok[n], user>> : n \in DOMAIN ok}
    /\ denied' = denied + Cardinality({n \in DOMAIN ok : ~ok[n]})

Ok(name) == Report([n \in {name} |-> TRUE])
Deny(name) == Report([n \in {name} |-> FALSE])

\* run returns a status before the command has done anything: the refusal
\* (3), or a usage error of its arguments (2).
RefuseOrUsage ==
    /\ phase = "start"
    /\ \/ cmd \in Mutates /\ ~marker /\ status' = 3
       \/ (cmd \in Mutates => marker) /\ status' = 2
    /\ phase' = "exited"
    /\ UNCHANGED <<cmd, marker, user, started, lines, denied, term>>

\* The command's function is called.
Call ==
    /\ phase = "start" /\ (cmd \in Mutates => marker)
    /\ phase' = "running"

\* Its function returns nil: a survey exits 0 whatever was denied.
ReturnWith(n) ==
    /\ phase = "running" /\ phase' = "exited"
    /\ status' = IF n > 0 /\ cmd # "battery" THEN 1 ELSE 0
    /\ UNCHANGED <<cmd, marker, user, started, term>>

Return == ReturnWith(denied) /\ UNCHANGED <<lines, denied>>

\* What a running command leaves alone while it prints.
RunFrame == UNCHANGED <<cmd, marker, phase, started, status, term>>
RunSilent == RunFrame /\ UNCHANGED <<user, lines, denied>>

\* SIGTERM reaches a command that handles it, once it has said it is there.
TermArrives ==
    /\ phase = "running" /\ cmd \in {"sleep", "forward"} /\ lines # {}
    /\ ~term /\ term' = TRUE
    /\ UNCHANGED <<cmd, marker, phase, user, started, lines, denied, status>>
=============================================================================
