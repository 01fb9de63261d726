------------------------------ MODULE MCProbe ------------------------------
(***************************************************************************)
(* The fixture binary for TLC: run() with the modelled commands, each with *)
(* the clients it has.  A process runs one command, the state of the       *)
(* others stays as it is initially.                                        *)
(***************************************************************************)
EXTENDS ProbeChecks, Forwarder, PeerEcho

\* The marker makes no difference to a command that changes nothing, nor the
\* user to one that listens.
Matters ==
    /\ cmd \notin Mutates => marker
    /\ cmd \in {"forward", "peer-echo"} => user = Worker

ProbeInit == RunInit /\ Matters /\ ChecksInit /\ ForwardInit /\ EchoInit

ProbeNext ==
    \/ (RefuseOrUsage \/ TermArrives) /\ UNCHANGED <<checkVars, forwardVars, echoVars>>
    \/ /\ Call /\ UNCHANGED <<cmd, marker, user, started, lines, denied, status, term>>
       /\ UNCHANGED <<checkVars, forwardVars, echoVars>>
    \/ ChecksNext /\ UNCHANGED <<forwardVars, echoVars>>
    \/ ForwardNext /\ UNCHANGED <<checkVars, echoVars>>
    \/ EchoNext /\ UNCHANGED <<checkVars, forwardVars>>
    \/ phase \in {"exited", "killed"} /\ UNCHANGED <<runVars, checkVars, forwardVars, echoVars>>

ProbeSpec ==
    /\ ProbeInit
    /\ [][ProbeNext]_<<runVars, checkVars, forwardVars, echoVars>>
    /\ ForwardFairness
=============================================================================
