---------------------------- MODULE ProbeProofs ----------------------------
(***************************************************************************)
(* Proofs about the fixture binary: peer-echo with its dialers, the egress *)
(* forwarder, and what the checks report; for any set of clients, number   *)
(* of connections served and number of children.  And about                *)
(* VerifyPeerIdentity, which runs peer-echo and the dialers in containers; *)
(* for any identities it is asked to use.                                  *)
(*                                                                         *)
(* A nil verdict is right because no failure prints what the two checks    *)
(* look for, and what was made is reported because the deferred removals   *)
(* always name it: they are known at every call, and unwinding runs them   *)
(* from the last one.                                                      *)
(***************************************************************************)
EXTENDS MCProbe, MCPeerIdentity, FiniteSetTheorems, SequenceTheorems, TLAPS

probeVars == <<runVars, checkVars, forwardVars, echoVars>>

-----------------------------------------------------------------------------
(* The inductive invariants, one per property *)

\* peer-echo.  It serves one connection at a time and closes a connection that
\* it has answered or given up; when it answers, the client has sent its line,
\* or has been given up.
EchoInv ==
    /\ dial \in [Clients -> {"new", "dialed", "wrote", "replied", "denied", "refused"}]
    /\ \A c, d \in peer : c = d
    /\ closed \subseteq answered \cup givenUp
    /\ \A c \in Clients :
        /\ echo = "answer" /\ c \in peer => dial[c] \notin {"new", "dialed"} \/ c \in givenUp
        /\ c \in answered => dial[c] \notin {"new", "dialed"} \/ c \in givenUp
        /\ dial[c] = "denied" => c \in late \cup givenUp

\* forward.  A stream passes on what came in and its end; a copy that ended by
\* itself has passed everything on, or its receiver was gone.
Tokens == {"data", "eof"}

StreamsOk ==
    /\ in \in [Clients -> SUBSET Tokens] /\ up \in [Clients -> SUBSET Tokens]
    /\ back \in [Clients -> SUBSET Tokens] /\ out \in [Clients -> SUBSET Tokens]
    /\ link \in [Clients -> {"none", "queued", "reset", "dial", "pipe", "denied", "done"}]
    /\ \A c \in Clients :
        /\ up[c] \subseteq in[c] \cup {"eof"} /\ out[c] \subseteq back[c] \cup {"eof"}
        /\ c \in upDone => "eof" \in up[c]
        /\ c \in outDone => "eof" \in out[c]
        /\ c \in upDone \ expired =>
                ("eof" \in in[c] /\ in[c] \subseteq up[c] \cup {"eof"}) \/ "eof" \in back[c]
        /\ c \in outDone \ expired =>
                ("eof" \in back[c] /\ back[c] \subseteq out[c] \cup {"eof"}) \/ c \in gone
        /\ link[c] = "done" => c \in upDone \cap outDone

\* The WaitGroup counts the goroutines, so none is left when Wait returns.
Goroutines == {c \in Clients : link[c] \in {"dial", "pipe"}}

GoroutinesCounted ==
    /\ IsFiniteSet(Goroutines) /\ wg = Cardinality(Goroutines)
    /\ phase = "start" => ln = "none"
    /\ ln = "none" => Goroutines = {}
    /\ cmd = "forward" /\ phase = "exited" => Goroutines = {}

ForwardInv == StreamsOk /\ GoroutinesCounted

\* The checks.  setuid is the last of them, so what is printed is printed as
\* the user the process was started as; a DENIED line is a counted one.
Names == {l[1] : l \in lines}

TodoOk ==
    /\ user \in {Root, Worker} /\ started \in {Root, Worker}
    /\ todo \in Seq(Checks)
    /\ \A k \in 1..Len(todo) : todo[k] = "setuid" => k = Len(todo)
    /\ todo # <<>> => cmd \in Checks \cup {"battery"}
    /\ user # started => todo = <<>> /\ cmd \in Checks \cup {"battery"}

LinesOk ==
    /\ \A l \in lines : l[3] = started
    /\ denied \in Nat
    /\ denied = 0 <=> \A l \in lines : l[2]

DirOk ==
    /\ dir \in [owner : {Root, Worker}, setgid : BOOLEAN, member : BOOLEAN,
               stage : {"none", "chowned", "done"}]
    /\ dir.stage = "chowned" => dir.owner = Worker
    /\ <<"initdir", TRUE, started>> \in lines =>
            dir.stage = "done" /\ dir.owner = Worker /\ dir.setgid = dir.member

ForkOk ==
    /\ phase = "start" \/ cmd # "fork" \/ "fork" \in Names => children = 0
    /\ phase = "exited" => children = 0

ExitOk ==
    /\ phase \in {"start", "running", "exited", "killed"}
    /\ phase = "start" => lines = {} /\ left = {}
    /\ ~marker /\ cmd \in Mutates =>
            phase \in {"start", "exited"} /\ lines = {} /\ left = {}
    /\ phase = "exited" =>
        /\ status = 0 => cmd = "battery" \/ denied = 0
        /\ status = 1 => denied > 0
        /\ ~marker /\ cmd \in Mutates => status = 3

ReportInv == TodoOk /\ LinesOk /\ DirOk /\ ForkOk /\ ExitOk

-----------------------------------------------------------------------------
(* peer-echo *)

\* Every step of the server and of the dialers keeps the invariant.
LEMMA EchoStep ==
    ASSUME EchoInv, EchoNext \/ UNCHANGED echoVars
    PROVE  EchoInv'
<1> USE DEF EchoInv, MoveDial
<1>1. CASE EchoListen
  BY <1>1 DEF EchoListen
<1>2. CASE EchoAccept
  BY <1>2 DEF EchoAccept
<1>3. CASE EchoReads
  BY <1>3 DEF EchoReads
<1>4. CASE EchoAnswers
  BY <1>4 DEF EchoAnswers
<1>5. CASE EchoReturns
  BY <1>5 DEF EchoReturns
<1>6. ASSUME NEW c \in Clients,
             \/ DialConnects(c) \/ DialRefused(c) \/ DialWrites(c)
             \/ DialReads(c) \/ DialTimesOut(c)
      PROVE  EchoInv'
  <2>1. CASE DialConnects(c)
    BY <2>1 DEF DialConnects
  <2>2. CASE DialRefused(c)
    BY <2>2 DEF DialRefused
  <2>3. CASE DialWrites(c)
    BY <2>3 DEF DialWrites
  <2>4. CASE DialReads(c)
    BY <2>4 DEF DialReads
  <2>5. CASE DialTimesOut(c)
    BY <2>5 DEF DialTimesOut
  <2> QED
    BY <1>6, <2>1, <2>2, <2>3, <2>4, <2>5
<1>7. CASE UNCHANGED echoVars
  BY <1>7 DEF echoVars
<1> QED
  BY <1>1, <1>2, <1>3, <1>4, <1>5, <1>6, <1>7 DEF EchoNext

\* A dialer whose reply is denied has waited too long, or the server gave it up:
\* "answering and closing first" loses no reply.
THEOREM RepliesAreRead == ProbeSpec => []DialerGetsItsReply
<1>1. ProbeInit => EchoInv
  BY DEF ProbeInit, EchoInit, EchoInv
<1>2. EchoInv /\ [ProbeNext]_probeVars => EchoInv'
  BY EchoStep DEF ProbeNext, probeVars
<1>3. EchoInv => DialerGetsItsReply
  BY DEF EchoInv, DialerGetsItsReply
<1> QED
  BY <1>1, <1>2, <1>3, PTL DEF ProbeSpec, probeVars

-----------------------------------------------------------------------------
(* forward *)

\* Every step of a connection, its client or its server keeps the streams.
LEMMA StreamsStep ==
    ASSUME StreamsOk, ForwardNext \/ UNCHANGED forwardVars
    PROVE  StreamsOk'
<1> USE DEF StreamsOk, Tokens, Put, MoveLink, streams, copies, Piping
<1>1. CASE Listen
  BY <1>1 DEF Listen
<1>2. CASE TermCloses
  BY <1>2 DEF TermCloses
<1>3. CASE AcceptFails
  BY <1>3 DEF AcceptFails
<1>4. CASE WaitReturns
  BY <1>4 DEF WaitReturns, forwardVars
<1>5. ASSUME NEW c \in Clients, Connect(c) \/ Accept(c) \/ DialReturns(c) \/ DialFails(c)
      PROVE  StreamsOk'
  BY <1>5 DEF Connect, Accept, DialReturns, DialFails
<1>6. ASSUME NEW c \in Clients, CopyUp(c) PROVE StreamsOk'
  BY <1>6 DEF CopyUp
<1>7. ASSUME NEW c \in Clients, CopyUpEnds(c) PROVE StreamsOk'
  BY <1>7 DEF CopyUpEnds
<1>8. ASSUME NEW c \in Clients, CopyBack(c) PROVE StreamsOk'
  BY <1>8 DEF CopyBack
<1>9. ASSUME NEW c \in Clients, CopyBackEnds(c) PROVE StreamsOk'
  BY <1>9 DEF CopyBackEnds
<1>10. ASSUME NEW c \in Clients, PipeReturns(c) PROVE StreamsOk'
  BY <1>10 DEF PipeReturns
<1>11. ASSUME NEW c \in Clients, DeadlinePasses(c) PROVE StreamsOk'
  BY <1>11 DEF DeadlinePasses
<1>12. ASSUME NEW c \in Clients, ClientActs(c) PROVE StreamsOk'
  BY <1>12 DEF ClientActs
<1>13. ASSUME NEW c \in Clients, ClientCloses(c) PROVE StreamsOk'
  BY <1>13 DEF ClientCloses
<1>14. ASSUME NEW c \in Clients, ServerActs(c) PROVE StreamsOk'
  BY <1>14 DEF ServerActs
<1>15. CASE UNCHANGED forwardVars
  BY <1>15 DEF forwardVars
<1> QED
  BY <1>1, <1>2, <1>3, <1>4, <1>5, <1>6, <1>7, <1>8, <1>9, <1>10, <1>11, <1>12, <1>13,
     <1>14, <1>15 DEF ForwardNext, ForwarderSteps

\* The steps of the other commands leave a forwarder's phase alone.
LEMMA OthersLeaveForward ==
    ASSUME ChecksNext \/ EchoNext
    PROVE  /\ cmd' = cmd
           /\ phase' = phase \/ (phase' # "start" /\ cmd # "forward")
<1> USE DEF RunFrame, RunSilent, Return, ReturnWith, runVars
<1>1. CASE MakeCheck
  BY <1>1 DEF MakeCheck, Reads, checkWrite, checkMount, checkSetuid, Making
<1>2. CASE Chown \/ Chmod \/ StartChild \/ StopChildren \/ Sleep
  BY <1>2 DEF Chown, Chmod, StartChild, StopChildren, Sleep
<1>3. CASE Alloc
  BY <1>3 DEF Alloc, Running
<1>4. CASE ChecksReturn
  <2>1. cmd # "forward"
    <3> SUFFICES ASSUME cmd = "forward" PROVE FALSE
      OBVIOUS
    <3>1. cmd \notin Checks \cup {"battery"}
      BY DEF Checks, cmdBattery
    <3> QED
      BY <1>4, <3>1 DEF ChecksReturn, ChecksDone
  <2> QED
    BY <1>4, <2>1 DEF ChecksReturn
<1>5. CASE EchoListen \/ EchoAccept \/ EchoReads \/ EchoAnswers \/ EchoReturns
  BY <1>5 DEF EchoListen, EchoAccept, EchoReads, EchoAnswers, EchoReturns, Echoing
<1>6. CASE UNCHANGED runVars
  BY <1>6
<1> QED
  BY <1>1, <1>2, <1>3, <1>4, <1>5, <1>6 DEF ChecksNext, EchoNext

\* Every step of the process keeps the WaitGroup's count.
LEMMA GoroutinesStep ==
    ASSUME ForwardInv, [ProbeNext]_probeVars
    PROVE  GoroutinesCounted'
<1> USE DEF ForwardInv, StreamsOk
<1>1. ASSUME UNCHANGED <<ln, wg, link>>, cmd' = cmd,
             phase' = phase \/ (phase' # "start" /\ (cmd # "forward" \/ Goroutines = {}))
      PROVE  GoroutinesCounted'
  <2>1. Goroutines' = Goroutines
    BY <1>1 DEF Goroutines
  <2> QED
    BY <1>1, <2>1 DEF GoroutinesCounted
<1> USE DEF RunFrame, RunSilent, Return, ReturnWith, Forwarding, Piping, MoveLink
<1>2. CASE /\ RefuseOrUsage \/ TermArrives \/ (Call /\ cmd' = cmd)
           /\ UNCHANGED forwardVars
  <2>1. cmd' = cmd
    BY <1>2 DEF RefuseOrUsage, TermArrives
  <2>2. phase' = phase \/ (phase = "start" /\ phase' # "start")
    BY <1>2 DEF RefuseOrUsage, TermArrives, Call
  <2>3. phase = "start" => Goroutines = {}
    BY DEF GoroutinesCounted
  <2> QED
    BY <1>1, <1>2, <2>1, <2>2, <2>3 DEF forwardVars
<1>3. CASE (ChecksNext \/ EchoNext) /\ UNCHANGED forwardVars
  BY <1>1, <1>3, OthersLeaveForward DEF forwardVars
<1>4. CASE Listen
  <2>1. ln = "none" /\ ln' # "none" /\ phase = "running" /\ phase' # "start"
    BY <1>4 DEF Listen
  <2>2. Goroutines' = Goroutines /\ wg' = wg /\ Goroutines = {}
    BY <1>4, <2>1 DEF Listen, Goroutines, GoroutinesCounted
  <2> QED
    BY <2>1, <2>2 DEF GoroutinesCounted
<1>5. CASE TermCloses
  <2>1. Goroutines' = Goroutines
    BY <1>5 DEF TermCloses, Goroutines
  <2> QED
    BY <1>5, <2>1 DEF TermCloses, GoroutinesCounted
<1>6. CASE AcceptFails
  BY <1>1, <1>6 DEF AcceptFails
<1>7. CASE WaitReturns
  <2>1. Goroutines = {}
    BY <1>7, FS_EmptySet DEF WaitReturns, GoroutinesCounted
  <2> QED
    BY <1>1, <1>7, <2>1 DEF WaitReturns, forwardVars
<1>8. ASSUME NEW c \in Clients, Accept(c) PROVE GoroutinesCounted'
  <2>1. c \notin Goroutines /\ Goroutines' = Goroutines \cup {c}
    BY <1>8 DEF Accept, Goroutines
  <2>2. IsFiniteSet(Goroutines') /\ Cardinality(Goroutines') = Cardinality(Goroutines) + 1
    BY <2>1, FS_AddElement DEF GoroutinesCounted
  <2> QED
    BY <1>8, <2>2 DEF Accept, GoroutinesCounted
<1>9. ASSUME NEW c \in Clients, DialFails(c) \/ PipeReturns(c) PROVE GoroutinesCounted'
  <2>1. /\ c \in Goroutines /\ Goroutines' = Goroutines \ {c}
        /\ wg' = wg - 1 /\ ln' = ln /\ cmd' = cmd /\ phase = "running" /\ phase' = phase
    BY <1>9 DEF DialFails, PipeReturns, Goroutines
  <2>2. IsFiniteSet(Goroutines') /\ Cardinality(Goroutines') = Cardinality(Goroutines) - 1
    BY <2>1, FS_RemoveElement DEF GoroutinesCounted
  <2>3. ln # "none"
    BY <2>1 DEF GoroutinesCounted
  <2> QED
    BY <2>1, <2>2, <2>3 DEF GoroutinesCounted
<1>10. ASSUME NEW c \in Clients, Connect(c) \/ DialReturns(c) PROVE GoroutinesCounted'
  <2>1. /\ Goroutines' = Goroutines
        /\ UNCHANGED <<wg, ln, cmd, phase>>
    BY <1>10 DEF Connect, DialReturns, Goroutines
  <2> QED
    BY <2>1 DEF GoroutinesCounted
<1>11. ASSUME NEW c \in Clients,
              \/ CopyUp(c) \/ CopyUpEnds(c) \/ CopyBack(c) \/ CopyBackEnds(c)
              \/ DeadlinePasses(c) \/ ClientActs(c) \/ ClientCloses(c) \/ ServerActs(c)
       PROVE  GoroutinesCounted'
  <2>1. UNCHANGED <<ln, wg, link, cmd, phase>>
    <3>1. CASE CopyUp(c) \/ CopyUpEnds(c) \/ CopyBack(c) \/ CopyBackEnds(c)
      BY <3>1 DEF CopyUp, CopyUpEnds, CopyBack, CopyBackEnds
    <3>2. CASE DeadlinePasses(c) \/ ClientActs(c) \/ ClientCloses(c) \/ ServerActs(c)
      BY <3>2 DEF DeadlinePasses, ClientActs, ClientCloses, ServerActs
    <3> QED
      BY <1>11, <3>1, <3>2
  <2> QED
    BY <1>1, <2>1
<1>12. CASE UNCHANGED <<runVars, forwardVars>>
  BY <1>1, <1>12 DEF runVars, forwardVars
<1> HIDE DEF ForwardInv, StreamsOk, RunFrame, RunSilent, Return, ReturnWith, Forwarding,
             Piping, MoveLink
<1>13. CASE ForwardNext
  BY <1>4, <1>5, <1>6, <1>7, <1>8, <1>9, <1>10, <1>11, <1>13 DEF ForwardNext, ForwarderSteps
<1>14. CASE UNCHANGED probeVars
  BY <1>12, <1>14 DEF probeVars
<1>15. CASE phase \in {"exited", "killed"} /\ UNCHANGED probeVars
  BY <1>14, <1>15
<1> QED
  BY <1>2, <1>3, <1>13, <1>14, <1>15 DEF ProbeNext, probeVars

\* Two streams that hold their end and differ in nothing else are the same.
LEMMA SameUpToEnd ==
    ASSUME NEW S, NEW T, NEW e, e \in S, e \in T,
           S \subseteq T \cup {e}, T \subseteq S \cup {e}
    PROVE  S = T
  OBVIOUS

\* A connection that ended by itself has passed on everything, and none is open
\* when the forwarder exits.
THEOREM NothingIsCutShort == ProbeSpec => []ConnectionsAreWhole
<1>1. ProbeInit => ForwardInv
  <2> SUFFICES ASSUME ProbeInit PROVE ForwardInv
    OBVIOUS
  <2>1. StreamsOk
    BY DEF ProbeInit, ForwardInit, StreamsOk, Tokens
  <2>2. Goroutines = {} /\ wg = 0 /\ ln = "none"
    BY DEF ProbeInit, ForwardInit, Goroutines
  <2> QED
    BY <2>1, <2>2, FS_EmptySet DEF ForwardInv, GoroutinesCounted
<1>2. ForwardInv /\ [ProbeNext]_probeVars => ForwardInv'
  <2> SUFFICES ASSUME ForwardInv, [ProbeNext]_probeVars PROVE ForwardInv'
    OBVIOUS
  <2>1. StreamsOk'
    BY StreamsStep DEF ForwardInv, ProbeNext, probeVars
  <2> QED
    BY <2>1, GoroutinesStep DEF ForwardInv
<1>3. ForwardInv => ConnectionsAreWhole
  <2> SUFFICES ASSUME ForwardInv PROVE ConnectionsAreWhole
    OBVIOUS
  <2> USE DEF ForwardInv, StreamsOk
  <2>1. ASSUME NEW c \in Clients, link[c] = "done", c \notin expired
        PROVE  /\ "eof" \in in[c] \/ "eof" \in back[c]
               /\ c \notin gone => out[c] = back[c]
               /\ "eof" \notin back[c] => in[c] = up[c]
    <3>1. "eof" \in in[c] \/ "eof" \in back[c]
      BY <2>1
    <3>2. ASSUME c \notin gone PROVE out[c] = back[c]
      <4>1. /\ "eof" \in back[c] /\ "eof" \in out[c]
            /\ back[c] \subseteq out[c] \cup {"eof"} /\ out[c] \subseteq back[c] \cup {"eof"}
        BY <2>1, <3>2
      <4> QED
        BY <4>1, SameUpToEnd
    <3>3. ASSUME "eof" \notin back[c] PROVE in[c] = up[c]
      <4>1. /\ "eof" \in in[c] /\ "eof" \in up[c]
            /\ in[c] \subseteq up[c] \cup {"eof"} /\ up[c] \subseteq in[c] \cup {"eof"}
        BY <2>1, <3>3
      <4> QED
        BY <4>1, SameUpToEnd
    <3> QED
      BY <3>1, <3>2, <3>3
  <2>2. cmd = "forward" /\ phase = "exited" => \A c \in Clients : link[c] \notin {"dial", "pipe"}
    BY DEF GoroutinesCounted, Goroutines
  <2> QED
    BY <2>1, <2>2 DEF ConnectionsAreWhole
<1> QED
  BY <1>1, <1>2, <1>3, PTL DEF ProbeSpec, probeVars

-----------------------------------------------------------------------------
(* The checks and what they report *)

\* reporter.line adds the lines it prints and counts the denied ones.
LEMMA ReportLemma ==
    ASSUME TodoOk, LinesOk, user = started, started' = started,
           NEW N, IsFiniteSet(N), NEW ok \in [N -> BOOLEAN], Report(ok)
    PROVE  /\ LinesOk'
           /\ lines' = lines \cup {<<n, ok[n], user>> : n \in N}
<1> DEFINE D == {n \in N : ~ok[n]}
           new == {<<n, ok[n], user>> : n \in N}
<1>1. lines' = lines \cup new /\ denied' = denied + Cardinality(D)
  BY DEF Report
<1>2. Cardinality(D) \in Nat /\ (Cardinality(D) = 0 <=> D = {})
  <2>1. D \in SUBSET N
    OBVIOUS
  <2>2. IsFiniteSet(D)
    BY <2>1, FS_Subset
  <2> QED
    BY <2>2, FS_EmptySet, FS_CardinalityType
<1>3. D = {} <=> \A n \in N : ok[n]
  OBVIOUS
<1>4. (\A l \in new : l[2]) <=> (\A n \in N : ok[n])
  <2>1. \A n \in N : <<n, ok[n], user>> \in new /\ <<n, ok[n], user>>[2] = ok[n]
    OBVIOUS
  <2>2. \A l \in new : \E n \in N : l = <<n, ok[n], user>>
    OBVIOUS
  <2>3. ASSUME \A l \in new : l[2], NEW n \in N PROVE ok[n]
    <3> DEFINE t == <<n, ok[n], user>>
    <3>1. t \in new /\ t[2] = ok[n]
      OBVIOUS
    <3> HIDE DEF t, new
    <3> QED
      BY <2>3, <3>1, Zenon
  <2>4. ASSUME \A n \in N : ok[n], NEW l \in new PROVE l[2]
    <3>1. PICK n \in N : l = <<n, ok[n], user>>
      BY <2>2
    <3>2. l[2] = ok[n]
      BY <3>1
    <3> QED
      BY <2>4, <3>2, Zenon
  <2> QED
    BY <2>3, <2>4
<1>5. \A l \in new : l[3] = started
  BY DEF TodoOk
<1>6. denied \in Nat /\ (denied = 0 <=> \A l \in lines : l[2])
  BY DEF LinesOk
<1>7. (\A l \in lines' : l[2]) <=> ((\A l \in lines : l[2]) /\ (\A l \in new : l[2]))
  BY <1>1
<1> HIDE DEF D, new
<1>8. denied' \in Nat /\ (denied' = 0 <=> (denied = 0 /\ D = {}))
  BY <1>1, <1>2, <1>6
<1>9. denied' = 0 <=> \A l \in lines' : l[2]
  BY <1>3, <1>4, <1>6, <1>7, <1>8
<1> QED
  BY <1>1, <1>5, <1>8, <1>9 DEF LinesOk, new

\* A running command prints lines of other names than "initdir" and "fork".
LEMMA PrintStep ==
    ASSUME ReportInv, phase = "running", RunFrame, user = started, TodoOk',
           UNCHANGED <<dir, children>>,
           NEW N, IsFiniteSet(N), NEW ok \in [N -> BOOLEAN], Report(ok),
           "initdir" \notin N, "fork" \notin N
    PROVE  ReportInv'
<1>1. LinesOk' /\ lines' = lines \cup {<<n, ok[n], user>> : n \in N}
  BY ReportLemma DEF ReportInv, RunFrame
<1>2. DirOk'
  BY <1>1 DEF DirOk, ReportInv, RunFrame
<1>3. ForkOk'
  <2>1. "fork" \in Names' => "fork" \in Names
    BY <1>1 DEF Names
  <2> QED
    BY <2>1 DEF ForkOk, ReportInv, RunFrame
<1>4. ExitOk'
  BY DEF ExitOk, ReportInv, RunFrame
<1> QED
  BY <1>1, <1>2, <1>3, <1>4 DEF ReportInv

\* The same for a single line.
LEMMA LineStep ==
    ASSUME ReportInv, phase = "running", RunFrame, user = started, TodoOk',
           UNCHANGED <<dir, children>>,
           NEW name, name \notin {"initdir", "fork"}, Ok(name) \/ Deny(name)
    PROVE  ReportInv'
<1>1. IsFiniteSet({name})
  BY FS_Singleton
<1>2. CASE Ok(name)
  <2>1. [n \in {name} |-> TRUE] \in [{name} -> BOOLEAN]
    OBVIOUS
  <2> QED
    BY <1>1, <1>2, <2>1, PrintStep DEF Ok
<1>3. CASE Deny(name)
  <2>1. [n \in {name} |-> FALSE] \in [{name} -> BOOLEAN]
    OBVIOUS
  <2> QED
    BY <1>1, <1>3, <2>1, PrintStep DEF Deny
<1> QED
  BY <1>2, <1>3

\* The command's function returns, after a last DENIED line or without one.
LEMMA ReturnStep ==
    ASSUME ReportInv, phase = "running", UNCHANGED <<dir, children, left, todo>>,
           children = 0, NEW name, name \notin {"initdir", "fork"},
           \/ Return
           \/ /\ user = started /\ ReturnWith(denied + 1)
              /\ lines' = lines \cup {<<name, FALSE, user>>} /\ denied' = denied + 1
    PROVE  ReportInv'
<1>1. /\ TodoOk'
      /\ phase' = "exited" /\ UNCHANGED <<cmd, marker, user, started>>
      /\ marker \/ cmd \notin Mutates
      /\ status' = IF denied' > 0 /\ cmd # "battery" THEN 1 ELSE 0
  BY DEF ReportInv, TodoOk, ExitOk, Return, ReturnWith
<1>2. LinesOk'
  <2>1. CASE Return
    BY <2>1 DEF Return, ReturnWith, ReportInv, LinesOk
  <2>2. CASE /\ user = started /\ ReturnWith(denied + 1)
             /\ lines' = lines \cup {<<name, FALSE, user>>} /\ denied' = denied + 1
    <3>1. <<name, FALSE, user>> \in lines' /\ ~<<name, FALSE, user>>[2]
      BY <2>2
    <3>2. denied' \in Nat /\ denied' # 0
      BY <2>2 DEF ReportInv, LinesOk
    <3> DEFINE t == <<name, FALSE, user>>
    <3>3. t[3] = started
      BY <2>2
    <3>4. \A l \in lines : l[3] = started
      BY DEF ReportInv, LinesOk
    <3>5. lines' = lines \cup {t} /\ started' = started
      BY <1>1, <2>2
    <3> HIDE DEF t
    <3>6. \A l \in lines' : l[3] = started'
      BY <3>3, <3>4, <3>5
    <3> QED
      BY <3>1, <3>2, <3>6 DEF LinesOk
  <2> QED
    BY <2>1, <2>2
<1>3. DirOk'
  BY <1>1 DEF ReportInv, DirOk, Return
<1>4. ForkOk'
  BY <1>1 DEF ForkOk
<1>5. ExitOk'
  BY <1>1, <1>2 DEF ExitOk, LinesOk
<1> QED
  BY <1>1, <1>2, <1>3, <1>4, <1>5 DEF ReportInv

\* Nothing is printed and nothing returns.
LEMMA QuietStep ==
    ASSUME ReportInv, UNCHANGED <<cmd, marker, phase, user, started, lines, denied, status>>,
           UNCHANGED checkVars
    PROVE  ReportInv'
  BY DEF ReportInv, TodoOk, LinesOk, DirOk, ForkOk, ExitOk, Names, checkVars

\* Commands that are no check of the survey.
LEMMA NotAChecks ==
    {"initdir", "fork", "alloc", "sleep", "forward", "peer-echo"}
        \cap (Checks \cup {"battery"}) = {}
  BY DEF Checks, cmdBattery

\* Whoever runs such a command has not changed its user.
LEMMA StillStarted ==
    ASSUME ReportInv, cmd \in {"initdir", "fork", "alloc", "sleep", "forward", "peer-echo"}
    PROVE  user = started
  BY NotAChecks DEF ReportInv, TodoOk

\* What occurs at the end of a sequence only occurs at the end of its tail only.
LEMMA LastInTail ==
    ASSUME NEW S, NEW s \in Seq(S), s # <<>>, NEW x,
           \A k \in 1..Len(s) : s[k] = x => k = Len(s)
    PROVE  /\ Tail(s) \in Seq(S)
           /\ \A k \in 1..Len(Tail(s)) : Tail(s)[k] = x => k = Len(Tail(s))
           /\ Head(s) = x => Tail(s) = <<>>
<1> DEFINE t == Tail(s)
           n == Len(s)
<1>1. t \in Seq(S) /\ Len(t) = n - 1 /\ \A k \in 1..Len(t) : t[k] = s[k + 1]
  BY HeadTailProperties
<1>2. n \in Nat \ {0} /\ Head(s) = s[1]
  BY EmptySeq
<1>3. t # <<>> => Len(t) \in Nat \ {0}
  BY <1>1, EmptySeq
<1>4. \A k \in 1..n : s[k] = x => k = n
  OBVIOUS
<1> HIDE DEF t, n
<1>5. ASSUME NEW k \in 1..Len(t), t[k] = x PROVE k = Len(t)
  <2>1. k \in Nat /\ k + 1 \in 1..n
    BY <1>1, <1>2, <1>5
  <2>2. s[k + 1] = x
    BY <1>1, <1>5
  <2>3. k + 1 = n
    BY <1>4, <2>1, <2>2
  <2> QED
    BY <1>1, <1>2, <2>1, <2>3
<1>6. ASSUME s[1] = x PROVE t = <<>>
  <2>1. 1 = n
    BY <1>2, <1>4, <1>6
  <2> QED
    BY <1>1, <1>3, <2>1
<1> QED
  BY <1>1, <1>2, <1>5, <1>6 DEF t

\* A check is taken off the list; only setuid, the last, changes the user.
LEMMA TodoStep ==
    ASSUME TodoOk, todo # <<>>, todo' = Tail(todo), UNCHANGED <<cmd, started>>,
           user' = user \/ (Head(todo) = "setuid" /\ user' = Root)
    PROVE  TodoOk' /\ user = started
<1>1. user = started /\ cmd \in Checks \cup {"battery"}
  BY DEF TodoOk
<1>2. /\ Tail(todo) \in Seq(Checks)
      /\ \A k \in 1..Len(Tail(todo)) : Tail(todo)[k] = "setuid" => k = Len(Tail(todo))
      /\ Head(todo) = "setuid" => Tail(todo) = <<>>
  BY LastInTail DEF TodoOk
<1>3. user \in {Root, Worker} /\ started \in {Root, Worker}
  BY DEF TodoOk
<1>4. user' # started' => todo' = <<>>
  BY <1>1, <1>2
<1>5. user' \in {Root, Worker} /\ cmd' \in Checks' \cup {"battery"}
  BY <1>1, <1>3
<1> QED
  BY <1>1, <1>2, <1>3, <1>4, <1>5 DEF TodoOk

\* The lines of the checks that read.
LEMMA CheckNames ==
    \A N \in {cmdID, cmdStatus, cmdPIDs, cmdInterfaces, checkUnshareUser, checkKeyctl,
              checkCgroup} :
        IsFiniteSet(N) /\ "initdir" \notin N /\ "fork" \notin N
<1>1. ASSUME NEW a, NEW b, NEW c
      PROVE  IsFiniteSet({a}) /\ IsFiniteSet({a, b, c})
  <2>1. IsFiniteSet({a}) /\ IsFiniteSet({a} \cup {b}) /\ IsFiniteSet(({a} \cup {b}) \cup {c})
    BY FS_Singleton, FS_AddElement
  <2>2. {a, b, c} = ({a} \cup {b}) \cup {c}
    OBVIOUS
  <2> QED
    BY <2>1, <2>2
<1>2. /\ IsFiniteSet(cmdID) /\ IsFiniteSet(cmdStatus) /\ IsFiniteSet(cmdPIDs)
      /\ IsFiniteSet(cmdInterfaces) /\ IsFiniteSet(checkUnshareUser)
      /\ IsFiniteSet(checkKeyctl) /\ IsFiniteSet(checkCgroup)
  BY <1>1 DEF cmdID, cmdStatus, cmdPIDs, cmdInterfaces, checkUnshareUser, checkKeyctl,
              checkCgroup, OneLine
<1>3. /\ {"initdir", "fork"} \cap (cmdID \cup cmdStatus \cup cmdPIDs) = {}
      /\ {"initdir", "fork"} \cap (cmdInterfaces \cup checkUnshareUser \cup checkKeyctl
                                    \cup checkCgroup) = {}
  BY DEF cmdID, cmdStatus, cmdPIDs, cmdInterfaces, checkUnshareUser, checkKeyctl,
         checkCgroup, OneLine
<1> QED
  BY <1>2, <1>3

\* Every check of the survey keeps the report true.
LEMMA MakeCheckStep == ASSUME ReportInv, MakeCheck PROVE ReportInv'
<1>1. ASSUME NEW check, Making(check), UNCHANGED user
      PROVE  TodoOk' /\ user = started
  BY <1>1, TodoStep DEF Making, RunFrame, ReportInv
<1>2. ASSUME NEW check,
             NEW N \in {cmdID, cmdStatus, cmdPIDs, cmdInterfaces, checkUnshareUser,
                        checkKeyctl, checkCgroup},
             Reads(check, N)
      PROVE  ReportInv'
  <2>1. PICK ok \in [N -> BOOLEAN] : Report(ok)
    BY <1>2 DEF Reads
  <2>2. Making(check) /\ UNCHANGED user
    BY <1>2 DEF Reads
  <2>3. TodoOk' /\ user = started
    BY <1>1, <2>2
  <2>4. phase = "running" /\ RunFrame /\ UNCHANGED <<dir, children>>
    BY <2>2 DEF Making
  <2>5. IsFiniteSet(N) /\ "initdir" \notin N /\ "fork" \notin N
    BY CheckNames
  <2> QED
    BY <2>1, <2>3, <2>4, <2>5, PrintStep
<1>3. CASE checkWrite \/ checkMount
  <2>1. PICK name \in {"write", "mount"} :
            Making(name) /\ UNCHANGED user /\ (Ok(name) \/ Deny(name))
    BY <1>3 DEF checkWrite, checkMount
  <2>2. TodoOk' /\ user = started
    BY <1>1, <2>1
  <2>3. phase = "running" /\ RunFrame /\ UNCHANGED <<dir, children>>
    BY <2>1 DEF Making
  <2> QED
    BY <2>1, <2>2, <2>3, LineStep
<1>4. CASE checkSetuid
  <2>1. /\ Making("setuid") /\ (Ok("setuid") \/ Deny("setuid"))
        /\ user' = user \/ user' = Root
    BY <1>4 DEF checkSetuid
  <2>2. TodoOk' /\ user = started
    BY <2>1, TodoStep DEF Making, RunFrame, ReportInv
  <2>3. phase = "running" /\ RunFrame /\ UNCHANGED <<dir, children>>
    BY <2>1 DEF Making
  <2> QED
    BY <2>1, <2>2, <2>3, LineStep
<1> QED
  BY <1>2, <1>3, <1>4 DEF MakeCheck

\* So do initdir, fork, alloc and sleep.
LEMMA OwnStepsStep ==
    ASSUME ReportInv, Chown \/ Chmod \/ StartChild \/ StopChildren \/ Alloc \/ Sleep
    PROVE  ReportInv'
<1> USE DEF Running
<1>1. ASSUME phase = "running", RunFrame, UNCHANGED <<todo, user>>
      PROVE  TodoOk' /\ ExitOk'
  BY <1>1 DEF ReportInv, TodoOk, ExitOk, RunFrame
<1>2. CASE Chown \/ Chmod
  <2>1. /\ cmd = "initdir" /\ phase = "running" /\ RunFrame /\ UNCHANGED <<todo, user, children>>
        /\ dir.stage \in {"none", "chowned"}
    BY <1>2 DEF Chown, Chmod, RunSilent, RunFrame
  <2>2. TodoOk' /\ ExitOk' /\ user = started /\ started' = started
    BY <1>1, <2>1, StillStarted DEF RunFrame
  <2>3. <<"initdir", TRUE, started>> \notin lines
    BY <2>1 DEF ReportInv, DirOk
  <2>4. children = 0 /\ children' = 0
    BY <2>1 DEF ReportInv, ForkOk
  <2>5. ForkOk'
    BY <2>4 DEF ForkOk
  <2>6. IsFiniteSet({"initdir"})
    BY FS_Singleton
  <2>7. CASE UNCHANGED <<lines, denied>>
    <3>1. LinesOk'
      BY <2>2, <2>7 DEF LinesOk, ReportInv
    <3>2. CASE Chown
      <4>1. \/ \E g \in {FALSE, dir.setgid} :
                  dir' = [dir EXCEPT !.owner = Worker, !.setgid = g, !.stage = "chowned"]
            \/ dir' = [dir EXCEPT !.stage = "done"]
        BY <3>2 DEF Chown
      <4>2. dir \in [owner : {Root, Worker}, setgid : BOOLEAN, member : BOOLEAN,
                        stage : {"none", "chowned", "done"}]
        BY DEF ReportInv, DirOk
      <4>3. DirOk'
        <5>1. CASE dir' = [dir EXCEPT !.stage = "done"]
          BY <2>2, <2>3, <2>7, <4>2, <5>1 DEF DirOk
        <5>2. ASSUME NEW g \in BOOLEAN,
                     dir' = [dir EXCEPT !.owner = Worker, !.setgid = g, !.stage = "chowned"]
              PROVE  DirOk'
          <6>1. /\ dir' \in [owner : {Root, Worker}, setgid : BOOLEAN, member : BOOLEAN,
                             stage : {"none", "chowned", "done"}]
                /\ dir'.owner = Worker
            BY <4>2, <5>2
          <6> QED
            BY <2>2, <2>3, <2>7, <6>1 DEF DirOk
        <5>3. dir.setgid \in BOOLEAN
          BY <4>2
        <5> QED
          BY <4>1, <5>1, <5>2, <5>3
      <4> QED
        BY <2>2, <2>5, <3>1, <4>3 DEF ReportInv
    <3>3. CASE Chmod
      <4>1. /\ dir.owner = Worker
            /\ \/ dir' = [dir EXCEPT !.setgid = dir.member, !.stage = "done"]
               \/ dir' = [dir EXCEPT !.stage = "done"]
        BY <3>3 DEF Chmod, ReportInv, DirOk
      <4> QED
        BY <2>2, <2>3, <2>5, <2>7, <3>1, <4>1 DEF ReportInv, DirOk
    <3> QED
      BY <1>2, <3>2, <3>3
  <2>8. CASE Deny("initdir") /\ dir' = [dir EXCEPT !.stage = "done"]
    <3> DEFINE ok == [n \in {"initdir"} |-> FALSE]
    <3>1. ok \in [{"initdir"} -> BOOLEAN] /\ ok["initdir"] = FALSE
      OBVIOUS
    <3>2. Report(ok)
      BY <2>8 DEF Deny
    <3> HIDE DEF ok
    <3>3. LinesOk' /\ lines' = lines \cup {<<n, ok[n], user>> : n \in {"initdir"}}
      BY <2>2, <2>6, <3>1, <3>2, ReportLemma DEF ReportInv
    <3>4. <<"initdir", TRUE, started>> \notin lines'
      BY <2>3, <3>1, <3>3
    <3>5. DirOk'
      BY <2>2, <2>8, <3>4 DEF ReportInv, DirOk
    <3> QED
      BY <2>2, <2>5, <3>3, <3>5 DEF ReportInv
  <2>9. CASE /\ Chmod /\ Ok("initdir")
             /\ dir' = [dir EXCEPT !.setgid = dir.member, !.stage = "done"]
    <3> DEFINE ok == [n \in {"initdir"} |-> TRUE]
    <3>1. ok \in [{"initdir"} -> BOOLEAN]
      OBVIOUS
    <3>2. Report(ok)
      BY <2>9 DEF Ok
    <3> HIDE DEF ok
    <3>3. LinesOk'
      BY <2>2, <2>6, <3>1, <3>2, ReportLemma DEF ReportInv
    <3>4. DirOk'
      BY <2>9 DEF ReportInv, DirOk, Chmod
    <3> QED
      BY <2>2, <2>5, <3>3, <3>4 DEF ReportInv
  <2> QED
    BY <1>2, <2>7, <2>8, <2>9 DEF Chown, Chmod, RunSilent
<1>3. CASE StartChild
  <2>1. /\ cmd = "fork" /\ phase = "running" /\ RunFrame /\ "fork" \notin Names
        /\ UNCHANGED <<user, lines, denied, todo, left, dir>>
    BY <1>3 DEF StartChild, RunSilent, Names
  <2>2. TodoOk' /\ ExitOk'
    BY <1>1, <2>1
  <2>3. LinesOk' /\ DirOk' /\ ForkOk'
    BY <2>1 DEF ReportInv, LinesOk, DirOk, ForkOk, RunFrame, Names
  <2> QED
    BY <2>2, <2>3 DEF ReportInv
<1>4. CASE StopChildren
  <2> DEFINE N == {"fork-started", "fork"}
             ok == [n \in N |-> n = "fork" => forked = MaxFork]
  <2>1. /\ cmd = "fork" /\ phase = "running" /\ RunFrame /\ children' = 0
        /\ UNCHANGED <<user, todo, left, dir>>
    BY <1>4 DEF StopChildren
  <2>2. TodoOk' /\ ExitOk' /\ user = started /\ started' = started
    BY <1>1, <2>1, StillStarted DEF RunFrame
  <2>3. IsFiniteSet(N) /\ "initdir" \notin N
    <3>1. IsFiniteSet({"fork-started"}) /\ IsFiniteSet({"fork-started"} \cup {"fork"})
      BY FS_Singleton, FS_AddElement
    <3>2. N = {"fork-started"} \cup {"fork"}
      OBVIOUS
    <3> QED
      BY <3>1, <3>2
  <2>4. ok \in [N -> BOOLEAN]
    OBVIOUS
  <2>5. Report(ok)
    BY <1>4 DEF StopChildren
  <2> HIDE DEF N, ok
  <2>6. LinesOk' /\ lines' = lines \cup {<<n, ok[n], user>> : n \in N}
    BY <2>2, <2>3, <2>4, <2>5, ReportLemma DEF ReportInv
  <2>7. DirOk'
    BY <2>1, <2>2, <2>3, <2>6 DEF ReportInv, DirOk
  <2> QED
    BY <2>1, <2>2, <2>6, <2>7 DEF ReportInv, ForkOk
<1>5. CASE Alloc \/ Sleep
  <2>1. cmd \in {"alloc", "sleep"} /\ phase = "running" /\ UNCHANGED checkVars
    BY <1>5 DEF Alloc, Sleep
  <2>2. user = started /\ user' = user /\ started' = started /\ cmd' = cmd /\ marker' = marker
    BY <1>5, <2>1, StillStarted DEF Alloc, Sleep, RunFrame
  <2>3. TodoOk'
    BY <2>1, <2>2 DEF ReportInv, TodoOk, checkVars
  <2>4. CASE RunFrame /\ \E name \in {"alloc", "sleep", "signal"} : Ok(name)
    BY <2>1, <2>2, <2>3, <2>4, LineStep DEF checkVars
  <2>5. CASE phase' = "killed" /\ UNCHANGED <<lines, denied>>
    <3>1. LinesOk' /\ DirOk'
      BY <2>1, <2>2, <2>5 DEF ReportInv, LinesOk, DirOk, checkVars
    <3>2. ForkOk' /\ ExitOk'
      BY <2>1, <2>2, <2>5 DEF ReportInv, ForkOk, ExitOk, Names, checkVars
    <3> QED
      BY <2>3, <3>1, <3>2 DEF ReportInv
  <2> QED
    BY <1>5, <2>4, <2>5 DEF Alloc, Sleep, RunFrame
<1> QED
  BY <1>2, <1>3, <1>4, <1>5

\* ChecksReturn: fork's children are gone by then.
LEMMA ChecksReturnStep == ASSUME ReportInv, ChecksReturn PROVE ReportInv'
<1>1. Return /\ phase = "running" /\ UNCHANGED <<dir, children, left, todo>>
  BY DEF ChecksReturn, checkVars, Return, ReturnWith
<1>2. children = 0
  <2>1. CASE cmd = "fork"
    <3>1. cmd \notin Checks \cup {"battery"}
      BY <2>1, NotAChecks
    <3>2. "fork" \in Names
      BY <2>1, <3>1 DEF ChecksReturn, ChecksDone, Names
    <3> QED
      BY <3>2 DEF ReportInv, ForkOk
  <2>2. CASE cmd # "fork"
    BY <2>2 DEF ReportInv, ForkOk
  <2> QED
    BY <2>1, <2>2
<1>3. "none" \notin {"initdir", "fork"}
  OBVIOUS
<1> QED
  BY <1>1, <1>2, <1>3, ReturnStep

\* The commands that listen report what they accept and dial.
LEMMA ListenersStep ==
    ASSUME ReportInv, ForwardNext \/ EchoNext, UNCHANGED checkVars
    PROVE  ReportInv'
<1>1. UNCHANGED <<dir, children, left, todo>>
  BY DEF checkVars
<1>2. ASSUME cmd \in {"forward", "peer-echo"}, phase = "running"
      PROVE  children = 0 /\ user = started
  BY <1>2, StillStarted DEF ReportInv, ForkOk
<1>3. ASSUME cmd \in {"forward", "peer-echo"}, phase = "running", RunFrame, UNCHANGED user,
             \E name \in {"listen", "accept", "forward", "peer"} : Ok(name) \/ Deny(name)
      PROVE  ReportInv'
  <2>1. TodoOk'
    BY <1>1, <1>3 DEF ReportInv, TodoOk, RunFrame
  <2> QED
    BY <1>1, <1>2, <1>3, <2>1, LineStep
<1>4. ASSUME cmd \in {"forward", "peer-echo"}, phase = "running",
             NEW name \in {"listen", "accept"},
             \/ Return
             \/ /\ ReturnWith(denied + 1)
                /\ lines' = lines \cup {<<name, FALSE, user>>} /\ denied' = denied + 1
      PROVE  ReportInv'
  BY <1>1, <1>2, <1>4, ReturnStep
<1>5. ASSUME RunSilent \/ UNCHANGED runVars PROVE ReportInv'
  BY <1>5, QuietStep DEF RunSilent, RunFrame, runVars
<1>6. CASE Listen \/ EchoListen
  BY <1>3, <1>4, <1>6 DEF Listen, EchoListen, Forwarding, Echoing
<1>7. CASE AcceptFails \/ WaitReturns
  BY <1>3, <1>4, <1>5, <1>7 DEF AcceptFails, WaitReturns, Forwarding
<1>8. CASE EchoAccept
  BY <1>3, <1>8 DEF EchoAccept, Echoing
<1>9. CASE EchoReturns
  BY <1>4, <1>9 DEF EchoReturns, Echoing
<1>10. CASE TermCloses \/ EchoReads \/ EchoAnswers
  BY <1>5, <1>10 DEF TermCloses, EchoReads, EchoAnswers
<1>11. ASSUME NEW c \in Clients, DialReturns(c) \/ DialFails(c) PROVE ReportInv'
  BY <1>3, <1>11 DEF DialReturns, DialFails, Forwarding
<1>12. ASSUME NEW c \in Clients,
              \/ Connect(c) \/ Accept(c) \/ CopyUp(c) \/ CopyUpEnds(c) \/ CopyBack(c)
              \/ CopyBackEnds(c) \/ PipeReturns(c) \/ DeadlinePasses(c) \/ ClientActs(c)
              \/ ClientCloses(c) \/ ServerActs(c)
       PROVE  RunSilent
  BY <1>12 DEF Connect, Accept, CopyUp, CopyUpEnds, CopyBack, CopyBackEnds, PipeReturns,
               DeadlinePasses, ClientActs, ClientCloses, ServerActs
<1>13. CASE ForwardNext
  BY <1>5, <1>6, <1>7, <1>10, <1>11, <1>12, <1>13 DEF ForwardNext, ForwarderSteps
<1>14. CASE EchoNext
  BY <1>5, <1>6, <1>8, <1>9, <1>10, <1>14 DEF EchoNext
<1> QED
  BY <1>13, <1>14

\* run's own steps.
LEMMA RunStep ==
    ASSUME ReportInv, UNCHANGED checkVars,
           \/ RefuseOrUsage \/ TermArrives
           \/ Call /\ UNCHANGED <<cmd, marker, user, started, lines, denied, status, term>>
    PROVE  ReportInv'
<1>1. CASE TermArrives
  BY <1>1, QuietStep DEF TermArrives
<1>2. CASE \/ RefuseOrUsage
           \/ Call /\ UNCHANGED <<cmd, marker, user, started, lines, denied, status, term>>
  <2>1. /\ phase = "start" /\ UNCHANGED <<cmd, marker, user, started, lines, denied>>
        /\ UNCHANGED <<todo, left, dir, children, forked>>
        /\ \/ phase' = "exited" /\ cmd \in Mutates /\ ~marker /\ status' = 3
           \/ phase' = "exited" /\ (cmd \in Mutates => marker) /\ status' = 2
           \/ phase' = "running" /\ (cmd \in Mutates => marker)
    BY <1>2 DEF RefuseOrUsage, Call, checkVars
  <2>2. TodoOk' /\ LinesOk' /\ DirOk'
    BY <2>1 DEF ReportInv, TodoOk, LinesOk, DirOk
  <2>3. ForkOk'
    BY <2>1 DEF ReportInv, ForkOk
  <2>4. ExitOk'
    BY <2>1 DEF ReportInv, ExitOk
  <2> QED
    BY <2>2, <2>3, <2>4 DEF ReportInv
<1> QED
  BY <1>1, <1>2

\* What the process prints is true: its lines are of the user it was started as,
\* its exit status says whether one was denied, OK of fork means that its
\* children are gone, and OK of initdir that the directory has its owner and,
\* from a process in its group, the setgid bit.
THEOREM ReportsAreTrue == ProbeSpec => []ReportIsTrue
<1>1. ProbeInit => ReportInv
  <2> SUFFICES ASSUME ProbeInit PROVE ReportInv
    OBVIOUS
  <2> USE DEF ProbeInit, RunInit, ChecksInit
  <2>1. TodoOk
    <3>1. <<>> \in Seq(Checks) /\ Len(<<>>) = 0
      OBVIOUS
    <3>2. /\ cmdBattery \in Seq(Checks)
          /\ \A k \in 1..Len(cmdBattery) : cmdBattery[k] = "setuid" => k = Len(cmdBattery)
      BY DEF Checks, cmdBattery
    <3>3. cmd \in Checks => <<cmd>> \in Seq(Checks) /\ Len(<<cmd>>) = 1
      OBVIOUS
    <3> QED
      BY <3>1, <3>2, <3>3 DEF TodoOk
  <2>2. LinesOk
    BY DEF LinesOk
  <2>3. DirOk /\ ForkOk /\ ExitOk
    BY DEF DirOk, ForkOk, ExitOk, Names
  <2> QED
    BY <2>1, <2>2, <2>3 DEF ReportInv
<1>2. ReportInv /\ [ProbeNext]_probeVars => ReportInv'
  <2> SUFFICES ASSUME ReportInv, [ProbeNext]_probeVars PROVE ReportInv'
    OBVIOUS
  <2>1. CASE ChecksNext
    BY <2>1, MakeCheckStep, OwnStepsStep, ChecksReturnStep DEF ChecksNext
  <2>2. CASE UNCHANGED <<runVars, checkVars>>
    BY <2>2, QuietStep DEF runVars
  <2> QED
    BY <2>1, <2>2, ListenersStep, RunStep DEF ProbeNext, probeVars
<1>3. ReportInv => ReportIsTrue
  <2> SUFFICES ASSUME ReportInv PROVE ReportIsTrue
    OBVIOUS
  <2>1. /\ \A l \in lines : l[3] = started
        /\ <<"initdir", TRUE, started>> \in lines =>
                dir.owner = Worker /\ (dir.member => dir.setgid)
    BY DEF ReportInv, LinesOk, DirOk
  <2>2. ASSUME phase = "exited"
        PROVE  /\ children = 0
               /\ status = 0 => cmd = "battery" \/ denied = 0
               /\ status = 1 => denied # 0
               /\ ~marker /\ cmd \in Mutates => lines = {} /\ left = {} /\ status = 3
    BY <2>2 DEF ReportInv, ForkOk, ExitOk, LinesOk
  <2>3. denied = 0 <=> \A l \in lines : l[2]
    BY DEF ReportInv, LinesOk
  <2> QED
    BY <2>1, <2>2, <2>3 DEF ReportIsTrue
<1> QED
  BY <1>1, <1>2, <1>3, PTL DEF ProbeSpec, probeVars

-----------------------------------------------------------------------------
(* VerifyPeerIdentity: the inductive invariant *)

Before == {"start", "build", "stream", "inspect", "volume", "init", "broker",
           "listen", "dial", "check"}
After == {"unwind", "returned"}

\* The removals deferred once the image, the volume and the broker are made.
WithImage == <<"image">>
WithVolume == <<"image", "volume">>
WithBroker == <<"image", "volume", "broker">>

PeerTypeOK ==
    /\ remapped \in SUBSET {"Worker1", "Worker2"} /\ gate \in BOOLEAN
    /\ pc \in Before \cup After
    /\ ctxDone \in BOOLEAN /\ stray \in BOOLEAN /\ fault \in BOOLEAN
    /\ image \in {"none", "building", "failed", "present"}
    /\ volume \in {"none", "present", "unknown"} /\ broker \in {"none", "up", "dead"}

\* Unwinding starts from the removals deferred at the call that ended it.
RemovalsFollowCalls ==
    /\ defers \in {<<>>, WithImage, WithVolume, WithBroker}
    /\ pc \in {"start", "build", "returned"} => defers = <<>>
    /\ pc \in {"stream", "inspect", "volume"} => defers = WithImage
    /\ pc \in {"init", "broker"} => defers = WithVolume
    /\ pc \in {"listen", "dial", "check"} => defers = WithBroker

\* What exists is still to be removed, or its removal has failed.
HeldIsDeferred ==
    /\ broker # "none" => defers = WithBroker \/ "remove broker" \in errs
    /\ volume = "present" => defers \in {WithVolume, WithBroker} \/ "remove volume" \in errs

\* It unwinds without an error only after the check agreed.
ErrorsFollowCalls ==
    /\ pc \in Before => errs = {}
    /\ pc \notin {"start", "returned"} => validate(ids)
    /\ pc \in After /\ errs = {} => validate(ids) /\ Trusted

\* Where nothing failed, each removal has taken away what was made for it, and the
\* verdict is the engine's.
UndisturbedInOrder ==
    ~fault =>
        /\ ~ctxDone /\ ~stray /\ stream = {}
        /\ image # "failed" /\ volume # "unknown" /\ broker # "dead"
        /\ image = "present" => defers # <<>>
        /\ image = "building" => pc = "stream"
        /\ volume = "present" => defers \in {WithVolume, WithBroker}
        /\ broker = "up" => defers = WithBroker
        /\ pc \in After /\ validate(ids) /\ Trusted => errs = {}

CallsInv ==
    /\ PeerTypeOK /\ RemovalsFollowCalls /\ HeldIsDeferred /\ ErrorsFollowCalls
    /\ UndisturbedInOrder

\* What a worker's container may print.
Shown(role) == {Answer(role)} \cup WrongAnswers(role)

\* One dial after the other, each with its own identity; only a failure makes one
\* print anything but the engine's answer.
DialsFollowRoles ==
    /\ dials \in Seq(UNION {Shown(role) : role \in {"Worker1", "Worker2", "Outsider"}})
    /\ pc \in Before \ {"dial", "check"} => dials = <<>>
    /\ pc = "dial" => Len(dials) < 3
    /\ pc = "check" => Len(dials) = 3
    /\ \A i \in 1..Len(dials) :
        /\ dials[i] \in Shown(Roles[i])
        /\ ~fault => dials[i] = Answer(Roles[i])

\* The lists of removals differ, and each is the one before with one more.
LEMMA RemovalLists ==
    /\ WithImage # <<>> /\ WithVolume # <<>> /\ WithBroker # <<>>
    /\ WithImage # WithVolume /\ WithImage # WithBroker /\ WithVolume # WithBroker
    /\ Append(WithImage, "volume") = WithVolume /\ Append(WithVolume, "broker") = WithBroker
<1> USE DEF WithImage, WithVolume, WithBroker
<1>1. Len(WithImage) = 1 /\ Len(WithVolume) = 2 /\ Len(WithBroker) = 3 /\ Len(<<>>) = 0
  OBVIOUS
<1>2. /\ WithVolume \in Seq({"image", "volume", "broker"})
      /\ WithBroker \in Seq({"image", "volume", "broker"})
  OBVIOUS
<1>3. Append(WithImage, "volume") = WithVolume
  <2>1. Append(WithImage, "volume") \in Seq({"image", "volume", "broker"}) /\ Len(Append(WithImage, "volume")) = 2
    OBVIOUS
  <2>2. \A i \in 1..2 : Append(WithImage, "volume")[i] = WithVolume[i]
    OBVIOUS
  <2> HIDE DEF WithVolume
  <2> QED
    BY <1>1, <1>2, <2>1, <2>2, SeqEqual
<1>4. Append(WithVolume, "broker") = WithBroker
  <2>1. Append(WithVolume, "broker") \in Seq({"image", "volume", "broker"}) /\ Len(Append(WithVolume, "broker")) = 3
    OBVIOUS
  <2>2. \A i \in 1..3 : Append(WithVolume, "broker")[i] = WithBroker[i]
    OBVIOUS
  <2> HIDE DEF WithBroker
  <2> QED
    BY <1>1, <1>2, <2>1, <2>2, SeqEqual
<1> QED
  BY <1>1, <1>3, <1>4

\* A removal runs the last deferred one and leaves those before it.
LEMMA RemovalOrder ==
    /\ WithImage[Len(WithImage)] = "image" /\ WithVolume[Len(WithVolume)] = "volume"
    /\ WithBroker[Len(WithBroker)] = "broker"
    /\ SubSeq(WithImage, 1, Len(WithImage) - 1) = <<>>
    /\ SubSeq(WithVolume, 1, Len(WithVolume) - 1) = WithImage
    /\ SubSeq(WithBroker, 1, Len(WithBroker) - 1) = WithVolume
<1> USE DEF WithImage, WithVolume, WithBroker
<1>1. Len(WithImage) = 1 /\ Len(WithVolume) = 2 /\ Len(WithBroker) = 3
  OBVIOUS
<1>2. SubSeq(WithImage, 1, 0) = <<>>
  OBVIOUS
<1>3. SubSeq(WithVolume, 1, 1) = WithImage
  <2>1. SubSeq(WithVolume, 1, 1) \in Seq({"image", "volume", "broker"}) /\ Len(SubSeq(WithVolume, 1, 1)) = 1
    OBVIOUS
  <2>2. \A i \in 1..1 : SubSeq(WithVolume, 1, 1)[i] = WithImage[i]
    OBVIOUS
  <2>3. WithImage \in Seq({"image", "volume", "broker"})
    OBVIOUS
  <2> HIDE DEF WithImage, WithVolume
  <2> QED
    BY <1>1, <2>1, <2>2, <2>3, SeqEqual
<1>4. SubSeq(WithBroker, 1, 2) = WithVolume
  <2>1. SubSeq(WithBroker, 1, 2) \in Seq({"image", "volume", "broker"}) /\ Len(SubSeq(WithBroker, 1, 2)) = 2
    OBVIOUS
  <2>2. \A i \in 1..2 : SubSeq(WithBroker, 1, 2)[i] = WithVolume[i]
    OBVIOUS
  <2>3. WithVolume \in Seq({"image", "volume", "broker"})
    OBVIOUS
  <2> HIDE DEF WithVolume, WithBroker
  <2> QED
    BY <1>1, <2>1, <2>2, <2>3, SeqEqual
<1> QED
  BY <1>1, <1>2, <1>3, <1>4

\* What a PeerDial shows.
LEMMA PeerDialFields ==
    ASSUME NEW role, NEW e, NEW r, NEW d, d = PeerDial(role, e, r)
    PROVE  d.uid = ids[role] /\ d.dial = e /\ d.reply = r
  BY DEF PeerDial

\* Only the outsider dials without the socket's group.
LEMMA PeerDialGroup ==
    ASSUME NEW role, NEW e, NEW r, NEW d, d = PeerDial(role, e, r)
    PROVE  d.inGroup <=> role # "Outsider"
  BY DEF PeerDial

\* checkPeerIdentity agrees only where the engine can be trusted, and always
\* agrees there unless a dial failed.
LEMMA VerdictIsExact ==
    ASSUME DialsFollowRoles, pc = "check", validate(ids),
           remapped \in SUBSET {"Worker1", "Worker2"}, gate \in BOOLEAN
    PROVE  /\ checkPeerIdentity(dials) => Trusted
           /\ ~fault /\ Trusted => checkPeerIdentity(dials)
<1>1. DOMAIN dials = {1, 2, 3}
  <2>1. Len(dials) = 3 /\ dials \in Seq(UNION {Shown(role) : role \in {"Worker1", "Worker2", "Outsider"}})
    BY DEF DialsFollowRoles
  <2>2. DOMAIN dials = 1..3
    BY <2>1
  <2> QED
    BY <2>2
<1>2. /\ dials[1] \in Shown("Worker1") /\ dials[2] \in Shown("Worker2")
      /\ dials[3] \in Shown("Outsider")
      /\ ~fault => /\ dials[1] = Answer("Worker1")
                   /\ dials[2] = Answer("Worker2")
                   /\ dials[3] = Answer("Outsider")
  <2>1. Len(dials) = 3 /\ \A i \in 1..Len(dials) :
          dials[i] \in Shown(Roles[i]) /\ (~fault => dials[i] = Answer(Roles[i]))
    BY DEF DialsFollowRoles
  <2>2. Roles[1] = "Worker1" /\ Roles[2] = "Worker2" /\ Roles[3] = "Outsider"
    BY DEF Roles
  <2>3. 1 \in 1..3 /\ 2 \in 1..3 /\ 3 \in 1..3
    OBVIOUS
  <2> QED
    BY <2>1, <2>2, <2>3
<1>3. ASSUME NEW role \in {"Worker1", "Worker2"}, NEW d \in Shown(role)
      PROVE  d.inGroup /\ d.uid = ids[role] /\ (d.reply = "assigned uid" => role \notin remapped)
  <2>0. role # "Outsider"
    OBVIOUS
  <2>1. CASE d = Answer(role)
    <3>1. PICK e, r : /\ r = IF role \in remapped THEN "other uid" ELSE "assigned uid"
                      /\ d = PeerDial(role, e, r)
      BY <2>0, <2>1 DEF Answer, Connects
    <3>2. d.reply = r /\ d.uid = ids[role]
      <4>1. d = PeerDial(role, e, r)
        BY <3>1
      <4> QED
        BY <4>1, PeerDialFields
    <3>3. r = "assigned uid" => role \notin remapped
      BY <3>1
    <3>4. d.inGroup
      BY <2>0, <3>1, PeerDialGroup
    <3> QED
      BY <3>2, <3>3, <3>4
  <2>2. CASE d \in WrongAnswers(role)
    <3>1. PICK e \in {"ok", "refused", "none"}, r \in {"none", "malformed"} :
            d = PeerDial(role, e, r)
      BY <2>2 DEF WrongAnswers
    <3>2. d.reply = r /\ d.uid = ids[role]
      BY <3>1, PeerDialFields
    <3>3. r # "assigned uid"
      OBVIOUS
    <3>4. d.inGroup
      BY <2>0, <3>1, PeerDialGroup
    <3> QED
      BY <3>2, <3>3, <3>4
  <2> QED
    BY <1>3, <2>1, <2>2 DEF Shown
<1>4. ASSUME NEW d \in Shown("Outsider")
      PROVE  ~d.inGroup /\ (d.dial = "permission denied" => gate)
  <2>1. CASE d = Answer("Outsider")
    <3>1. CASE ~Connects("Outsider")
      <4>1. d = PeerDial("Outsider", "permission denied", "none")
        BY <2>1, <3>1 DEF Answer
      <4> QED
        BY <3>1, <4>1, PeerDialGroup DEF Connects
    <3>2. CASE Connects("Outsider")
      <4>1. PICK e, r : e = "ok" /\ d = PeerDial("Outsider", e, r)
        BY <2>1, <3>2 DEF Answer
      <4>2. d.dial = e
        BY <4>1, PeerDialFields
      <4>3. e # "permission denied"
        BY <4>1
      <4>4. ~d.inGroup
        BY <4>1, PeerDialGroup
      <4> QED
        BY <4>2, <4>3, <4>4
    <3> QED
      BY <3>1, <3>2
  <2>2. CASE d \in WrongAnswers("Outsider")
    <3>1. PICK e \in {"ok", "refused", "none"}, r \in {"none", "malformed"} :
            d = PeerDial("Outsider", e, r)
      BY <2>2 DEF WrongAnswers
    <3>2. d.dial = e
      BY <3>1, PeerDialFields
    <3>3. e # "permission denied"
      OBVIOUS
    <3>4. ~d.inGroup
      BY <3>1, PeerDialGroup
    <3> QED
      BY <3>2, <3>3, <3>4
  <2> QED
    BY <1>4, <2>1, <2>2 DEF Shown
<1>5. ASSUME checkPeerIdentity(dials) PROVE Trusted
  <2>1. /\ dials[1].reply = "assigned uid" /\ dials[2].reply = "assigned uid"
        /\ dials[3].dial = "permission denied"
    BY <1>1, <1>2, <1>3, <1>4, <1>5 DEF checkPeerIdentity
  <2> QED
    BY <1>2, <1>3, <1>4, <2>1 DEF Trusted
<1>6. ASSUME ~fault, Trusted PROVE checkPeerIdentity(dials)
  <2> DEFINE D == {dials[i] : i \in DOMAIN dials}
  <2>1. D = {dials[1], dials[2], dials[3]}
    BY <1>1
  <2>2. dials[1].reply = "assigned uid" /\ dials[2].reply = "assigned uid"
    <3>1. ASSUME NEW role \in {"Worker1", "Worker2"}
          PROVE  Answer(role).reply = "assigned uid"
      <4>1. PICK e, r : /\ r = "assigned uid"
                        /\ Answer(role) = PeerDial(role, e, r)
        BY <1>6 DEF Trusted, Answer, Connects
      <4>2. Answer(role) = PeerDial(role, e, r)
        BY <4>1
      <4>3. Answer(role).reply = r
        BY <4>2, PeerDialFields
      <4> QED
        BY <4>1, <4>3
    <3> QED
      BY <1>2, <1>6, <3>1
  <2>3. dials[3].dial = "permission denied"
    <3>1. ids["Outsider"] \notin {ids.SocketGID, ids.BrokerUID}
      BY DEF validate, Fields
    <3>2. PICK e, r : /\ e = "permission denied"
                      /\ Answer("Outsider") = PeerDial("Outsider", e, r)
      BY <1>6, <3>1 DEF Trusted, Answer, Connects
    <3>3. Answer("Outsider").dial = "permission denied"
      <4>1. Answer("Outsider") = PeerDial("Outsider", e, r)
        BY <3>2
      <4>2. Answer("Outsider").dial = e
        BY <4>1, PeerDialFields
      <4> QED
        BY <3>2, <4>2
    <3> QED
      BY <1>2, <1>6, <3>3
  <2>4. {d.uid : d \in {e \in D : e.inGroup}} = {ids["Worker1"], ids["Worker2"]}
    <3>1. {e \in D : e.inGroup} = {dials[1], dials[2]}
      BY <1>2, <1>3, <1>4, <2>1
    <3>2. dials[1].uid = ids["Worker1"] /\ dials[2].uid = ids["Worker2"]
      BY <1>2, <1>3
    <3> HIDE DEF D
    <3> QED
      BY <3>1, <3>2
  <2>5. ids["Worker1"] # ids["Worker2"]
    BY DEF validate, Fields
  <2>6. Cardinality({d.uid : d \in {e \in D : e.inGroup}}) = 2
    <3>1. /\ IsFiniteSet({ids["Worker1"]}) /\ Cardinality({ids["Worker1"]}) = 1
          /\ ids["Worker2"] \notin {ids["Worker1"]}
      BY <2>5, FS_Singleton
    <3>2. Cardinality({ids["Worker1"]} \cup {ids["Worker2"]}) = 2
      <4>1. Cardinality({ids["Worker1"]} \cup {ids["Worker2"]}) = Cardinality({ids["Worker1"]}) + 1
        BY <3>1, FS_AddElement
      <4> QED
        BY <3>1, <4>1
    <3>3. {ids["Worker1"]} \cup {ids["Worker2"]} = {ids["Worker1"], ids["Worker2"]}
      OBVIOUS
    <3> HIDE DEF D
    <3> QED
      BY <2>4, <3>2, <3>3
  <2> QED
    <3>1. \A d \in D : IF d.inGroup THEN d.reply = "assigned uid" ELSE d.dial = "permission denied"
      BY <1>2, <1>3, <1>4, <2>1, <2>2, <2>3
    <3>2. \E d \in D : ~d.inGroup
      BY <1>2, <1>4, <2>1
    <3>3. Cardinality({d.uid : d \in {e \in D : e.inGroup}}) >= 2
      BY <2>6
    <3> QED
      BY ONLY <3>1, <3>2, <3>3 DEF checkPeerIdentity
<1> QED
  BY <1>5, <1>6

PeerInv == CallsInv /\ DialsFollowRoles

\* Nothing made, nothing deferred.
LEMMA PeerInit == Init => PeerInv
<1> SUFFICES ASSUME Init PROVE PeerInv
  OBVIOUS
<1> USE DEF Init, Before, After
<1>1. CallsInv
  BY RemovalLists DEF CallsInv, PeerTypeOK, RemovalsFollowCalls, HeldIsDeferred,
                      ErrorsFollowCalls, UndisturbedInOrder
<1>2. DialsFollowRoles
  BY DEF DialsFollowRoles
<1> QED
  BY <1>1, <1>2 DEF PeerInv

\* Every step keeps the calls, the removals and the errors together.
LEMMA CallsStep ==
    ASSUME PeerInv, Next
    PROVE  CallsInv'
<1> USE RemovalLists
    DEF PeerInv, CallsInv, PeerTypeOK, RemovalsFollowCalls, HeldIsDeferred, ErrorsFollowCalls,
        UndisturbedInOrder, Before, After, Goto, Unwind,
        world, build, Trusted
<1>1. CASE Validate
  BY <1>1 DEF Validate
<1>2. CASE BuildStarts
  BY <1>2 DEF BuildStarts, WithImage
<1>3. CASE BuildFails
  BY <1>3 DEF BuildFails, WithImage
<1>4. CASE ReadLine
  <2>3. PeerTypeOK' /\ RemovalsFollowCalls'
    BY <1>4, ZenonT(60) DEF ReadLine
  <2>4. HeldIsDeferred' /\ ErrorsFollowCalls'
    BY <1>4 DEF ReadLine
  <2>5. UndisturbedInOrder'
    BY <1>4 DEF ReadLine
  <2> QED
    BY <2>3, <2>4, <2>5
<1>5. CASE StreamEnds
  <2>3. PeerTypeOK' /\ RemovalsFollowCalls'
    BY <1>5 DEF StreamEnds
  <2>4. HeldIsDeferred' /\ ErrorsFollowCalls'
    BY <1>5 DEF StreamEnds
  <2>5. UndisturbedInOrder'
    <3>1. ASSUME ~fault'
          PROVE  /\ ~fault /\ stream' = {} /\ image = "present" /\ pc' = "inspect"
                 /\ UNCHANGED <<remapped, gate, ids, ctxDone, image, volume, broker, stray,
                                defers, errs>>
      BY <1>5, <3>1 DEF StreamEnds
    <3> QED
      BY <3>1
  <2> QED
    BY <2>3, <2>4, <2>5
<1>6. CASE InspectImage
  BY <1>6, ZenonT(60) DEF InspectImage
<1>7. CASE CreateVolume
  BY <1>7 DEF CreateVolume
<1>8. CASE CreateVolumeFails
  BY <1>8 DEF CreateVolumeFails
<1>9. CASE InitVolume
  BY <1>9 DEF InitVolume
<1>10. CASE InitFails
  BY <1>10 DEF InitFails, LaunchFails
<1>11. CASE StartBroker
  BY <1>11 DEF StartBroker
<1>12. CASE StartBrokerFails
  BY <1>12 DEF StartBrokerFails, LaunchFails
<1>13. CASE WaitListen
  BY <1>13 DEF WaitListen
<1>14. CASE WaitListenFails
  BY <1>14 DEF WaitListenFails
<1>15. CASE Dial
  <2>1. /\ pc = "dial" /\ pc' \in {"check", "dial"} /\ fault' \in {fault, TRUE}
        /\ UNCHANGED <<remapped, gate, ids, ctxDone, image, stream, volume, broker, stray,
                       defers, errs>>
    BY <1>15 DEF Dial
  <2>3. PeerTypeOK' /\ RemovalsFollowCalls'
    BY <2>1, ZenonT(60)
  <2>4. HeldIsDeferred' /\ ErrorsFollowCalls'
    BY <2>1
  <2>5. UndisturbedInOrder'
    <3>1. ~fault' => ~fault
      BY <2>1
    <3> QED
      BY <2>1, <3>1
  <2> QED
    BY <2>3, <2>4, <2>5
<1>16. CASE DialRunFails
  BY <1>16 DEF DialRunFails, LaunchFails
<1>17. CASE Check
  <2>1. /\ pc = "check" /\ pc' = "unwind"
        /\ errs' = IF checkPeerIdentity(dials) THEN errs ELSE errs \cup {"verdict"}
        /\ UNCHANGED <<remapped, gate, ids, ctxDone, image, stream, volume, broker, stray,
                       dials, defers, fault>>
    BY <1>17 DEF Check
  <2>2. /\ checkPeerIdentity(dials) => Trusted
        /\ ~fault /\ Trusted => checkPeerIdentity(dials)
    BY <2>1, VerdictIsExact
  <2> QED
    BY <2>1, <2>2
<1>18. CASE RemoveBroker
  <2>1. defers = WithBroker /\ defers' = WithVolume
    BY <1>18, RemovalOrder DEF RemoveBroker, Removing
  <2>2. /\ UNCHANGED <<remapped, gate, ids, pc, ctxDone, stream, stray, dials>>
        /\ UNCHANGED <<image, volume>>
        /\ \/ broker' = "none" /\ UNCHANGED <<errs, fault>>
           \/ fault' = TRUE
    BY ONLY <1>18 DEF RemoveBroker, Removing, world
  <2>3. PeerTypeOK' /\ RemovalsFollowCalls'
    BY <1>18, <2>1 DEF RemoveBroker, Removing
  <2>4. HeldIsDeferred' /\ ErrorsFollowCalls'
    BY <1>18, <2>1 DEF RemoveBroker, Removing
  <2>5. UndisturbedInOrder'
    <3>1. ASSUME ~fault'
          PROVE  /\ ~fault /\ broker' = "none" /\ UNCHANGED <<image, volume>>
                 /\ UNCHANGED <<remapped, gate, ids, pc, ctxDone, stream, stray, errs>>
      BY <2>1, <2>2, <3>1
    <3> QED
      BY <2>1, <3>1
  <2> QED
    BY <2>3, <2>4, <2>5
<1>19. CASE RemoveVolume
  <2>1. defers = WithVolume /\ defers' = WithImage
    BY <1>19, RemovalOrder DEF RemoveVolume, Removing
  <2>2. /\ UNCHANGED <<remapped, gate, ids, pc, ctxDone, stream, stray, dials>>
        /\ UNCHANGED <<image, broker>>
        /\ \/ volume' = "none" /\ UNCHANGED <<errs, fault>>
           \/ fault' = (fault \/ (broker = "none" /\ ~stray))
    BY ONLY <1>19 DEF RemoveVolume, Removing, world
  <2>3. PeerTypeOK' /\ RemovalsFollowCalls'
    BY <1>19, <2>1 DEF RemoveVolume, Removing
  <2>4. HeldIsDeferred' /\ ErrorsFollowCalls'
    BY <1>19, <2>1 DEF RemoveVolume, Removing
  <2>5. UndisturbedInOrder'
    <3>1. ASSUME ~fault'
          PROVE  /\ ~fault /\ volume' = "none" /\ UNCHANGED <<image, broker>>
                 /\ UNCHANGED <<remapped, gate, ids, pc, ctxDone, stream, stray, errs>>
      BY <2>1, <2>2, <3>1
    <3> QED
      BY <2>1, <3>1
  <2> QED
    BY <2>3, <2>4, <2>5
<1>20. CASE RemoveImage
  <2>1. defers = WithImage /\ defers' = <<>>
    BY <1>20, RemovalOrder DEF RemoveImage, Removing
  <2>2. /\ UNCHANGED <<remapped, gate, ids, pc, ctxDone, stream, stray, dials>>
        /\ pc = "unwind" /\ UNCHANGED <<volume, broker>>
        /\ \/ image = "present" /\ image' = "none" /\ UNCHANGED <<errs, fault>>
           \/ image # "present" /\ UNCHANGED <<image, errs, fault>>
           \/ fault' = TRUE
    BY ONLY <1>20 DEF RemoveImage, Removing, world
  <2>3. PeerTypeOK' /\ RemovalsFollowCalls'
    BY <1>20, <2>1 DEF RemoveImage, Removing
  <2>4. HeldIsDeferred' /\ ErrorsFollowCalls'
    BY <1>20, <2>1 DEF RemoveImage, Removing
  <2>5. UndisturbedInOrder'
    <3>1. ASSUME ~fault'
          PROVE  /\ ~fault /\ image' = "none" /\ UNCHANGED <<volume, broker>>
                 /\ UNCHANGED <<remapped, gate, ids, pc, ctxDone, stream, stray, errs>>
      BY <2>1, <2>2, <3>1
    <3> QED
      BY <2>1, <3>1
  <2> QED
    BY <2>3, <2>4, <2>5
<1>21. CASE Returns
  BY <1>21 DEF Returns
<1>22. CASE ContextEnds
  <2>1. UNCHANGED <<pc, defers>>
    BY <1>22 DEF ContextEnds
  <2>2. RemovalsFollowCalls'
    BY <2>1
  <2>3. PeerTypeOK'
    BY <1>22, <2>1 DEF ContextEnds
  <2>4. HeldIsDeferred' /\ ErrorsFollowCalls'
    BY <1>22 DEF ContextEnds
  <2>5. UndisturbedInOrder'
    BY <1>22 DEF ContextEnds
  <2> QED
    BY <2>2, <2>3, <2>4, <2>5
<1>23. CASE EngineBuilds
  <2>1. UNCHANGED <<pc, defers>>
    BY <1>23 DEF EngineBuilds
  <2>2. RemovalsFollowCalls'
    BY <2>1
  <2>3. PeerTypeOK'
    BY <1>23, <2>1 DEF EngineBuilds
  <2>4. HeldIsDeferred' /\ ErrorsFollowCalls'
    BY <1>23 DEF EngineBuilds
  <2>5. UndisturbedInOrder'
    BY <1>23 DEF EngineBuilds
  <2> QED
    BY <2>2, <2>3, <2>4, <2>5
<1>24. CASE BrokerDies
  <2>1. UNCHANGED <<pc, defers>>
    BY <1>24 DEF BrokerDies
  <2>2. RemovalsFollowCalls'
    BY <2>1
  <2>3. PeerTypeOK'
    BY <1>24, <2>1 DEF BrokerDies
  <2>4. HeldIsDeferred' /\ ErrorsFollowCalls'
    BY <1>24 DEF BrokerDies
  <2>5. UndisturbedInOrder'
    BY <1>24 DEF BrokerDies
  <2> QED
    BY <2>2, <2>3, <2>4, <2>5
<1>25. CASE Done
  <2>3. PeerTypeOK' /\ RemovalsFollowCalls'
    BY <1>25, ZenonT(60) DEF Done, vars
  <2>4. HeldIsDeferred' /\ ErrorsFollowCalls'
    BY <1>25 DEF Done, vars
  <2>5. UndisturbedInOrder'
    BY <1>25 DEF Done, vars
  <2> QED
    BY <2>3, <2>4, <2>5
<1> HIDE RemovalLists
    DEF PeerInv, CallsInv
<1> QED
  BY <1>1, <1>2, <1>3, <1>4, <1>5, <1>6, <1>7, <1>8, <1>9, <1>10, <1>11, <1>12, <1>13, <1>14,
     <1>15, <1>16, <1>17, <1>18, <1>19, <1>20, <1>21, <1>22, <1>23, <1>24, <1>25
  DEF Next, Verify, Environment

\* Only a dial adds to the dials, with the identity whose turn it is.
LEMMA DialStep ==
    ASSUME PeerInv, Dial
    PROVE  DialsFollowRoles'
<1> DEFINE P == UNION {Shown(r) : r \in {"Worker1", "Worker2", "Outsider"}}
           role == Roles[Len(dials) + 1]
<1>1. \A r : Shown(r)' = Shown(r) /\ Answer(r)' = Answer(r)
  <2>1. UNCHANGED <<remapped, gate, ids>>
    BY DEF Dial, world
  <2> QED
    BY <2>1 DEF Shown, Answer, WrongAnswers, PeerDial,
                Connects
<1>2. P' = P
  BY <1>1
<1>3. /\ dials \in Seq(P) /\ Len(dials) \in Nat /\ (pc = "dial" => Len(dials) < 3)
      /\ \A i \in 1..Len(dials) :
            /\ dials[i] \in Shown(Roles[i])
            /\ ~fault => dials[i] = Answer(Roles[i])
  BY DEF PeerInv, DialsFollowRoles
<1>4. Len(Roles) = 3
  BY DEF Roles
<1>5. /\ pc = "dial" /\ pc' = IF Len(dials') = 3 THEN "check" ELSE "dial"
      /\ \E d \in Shown(role) :
            /\ dials' = Append(dials, d) /\ (fault => fault')
            /\ ~fault' => d = Answer(role)
  <2> HIDE DEF role
  <2> QED
    BY <1>4 DEF Dial, Shown, role
<1>6. Len(dials) \in 0..2
  <2>1. PICK n \in Nat : n = Len(dials) /\ n < 3
    BY <1>3, <1>5
  <2>2. n \in 0..2
    BY <2>1
  <2> QED
    BY <2>1, <2>2
<1>7. PICK d \in Shown(role) :
        /\ dials' = Append(dials, d) /\ (fault => fault')
        /\ ~fault' => d = Answer(role)
  BY <1>5
<1>8. role \in {"Worker1", "Worker2", "Outsider"}
  <2>1. /\ Roles[1] = "Worker1" /\ Roles[2] = "Worker2"
        /\ Roles[3] = "Outsider"
    BY DEF Roles
  <2>2. \A n \in 0..2 : n + 1 = 1 \/ n + 1 = 2 \/ n + 1 = 3
    OBVIOUS
  <2> QED
    BY <1>6, <2>1, <2>2
<1>9. d \in P
  <2> HIDE DEF role
  <2> QED
    BY <1>8
<1> HIDE DEF P, role
<1>10. /\ dials' \in Seq(P) /\ Len(dials') = Len(dials) + 1
       /\ \A i \in 1..Len(dials) : dials'[i] = dials[i]
       /\ dials'[Len(dials) + 1] = d
  BY <1>3, <1>7, <1>9
<1>11. ASSUME NEW i \in 1..Len(dials')
       PROVE  /\ dials'[i] \in Shown(Roles[i])
              /\ ~fault' => dials'[i] = Answer(Roles[i])
  <2>1. CASE i = Len(dials) + 1
    BY <1>7, <1>10, <2>1 DEF role
  <2>2. CASE i \in 1..Len(dials)
    <3>1. dials'[i] = dials[i]
      BY <1>10, <2>2
    <3> QED
      BY <1>3, <1>7, <2>2, <3>1
  <2>3. i = Len(dials) + 1 \/ i \in 1..Len(dials)
    BY <1>3, <1>10
  <2> QED
    BY <2>1, <2>2, <2>3
<1>12. /\ pc' \in {"dial", "check"} /\ (pc' = "dial" => Len(dials') < 3)
       /\ pc' = "check" => Len(dials') = 3
  BY <1>5, <1>6, <1>10
<1>13. dials' \in Seq(P')
  BY <1>2, <1>10
<1>14. \A i \in 1..Len(dials') :
            /\ dials'[i] \in Shown(Roles[i])'
            /\ ~fault' => dials'[i] = Answer(Roles[i])'
  BY <1>1, <1>11
<1> QED
  BY <1>12, <1>13, <1>14 DEF DialsFollowRoles, P, Before

\* Every other step leaves the dials as they are.
LEMMA DialsStay ==
    ASSUME PeerInv, UNCHANGED <<remapped, gate, ids, dials>>, fault => fault',
           pc' \in Before => pc' = pc \/ (pc \in Before \ {"dial", "check"} /\ pc' # "check")
    PROVE  DialsFollowRoles'
<1> DEFINE P == UNION {Shown(r) : r \in {"Worker1", "Worker2", "Outsider"}}
<1>1. \A r : Shown(r)' = Shown(r) /\ Answer(r)' = Answer(r)
  BY DEF Shown, Answer, WrongAnswers, PeerDial,
         Connects
<1>2. P' = P
  BY <1>1
<1>3. dials \in Seq(P) /\ DialsFollowRoles
  BY DEF PeerInv, DialsFollowRoles
<1>4. dials' \in Seq(P')
  BY <1>2, <1>3
<1> HIDE DEF P
<1>5. \A i \in 1..Len(dials') :
            /\ dials'[i] \in Shown(Roles[i])'
            /\ ~fault' => dials'[i] = Answer(Roles[i])'
  BY <1>1, <1>3 DEF DialsFollowRoles
<1>6. /\ pc' \in Before \ {"dial", "check"} => dials = <<>>
      /\ pc' = "dial" => Len(dials) < 3
      /\ pc' = "check" => Len(dials) = 3
  <2>1. Len(<<>>) = 0
    OBVIOUS
  <2> QED
    BY <1>3, <2>1 DEF DialsFollowRoles, Before
<1> QED
  BY <1>4, <1>5, <1>6 DEF DialsFollowRoles, P

\* Every step keeps the invariant.
LEMMA PeerStep ==
    ASSUME PeerInv, Next \/ UNCHANGED vars
    PROVE  PeerInv'
<1>2. CASE Next
  <2>1. CASE Dial
    BY <1>2, <2>1, CallsStep, DialStep DEF PeerInv
  <2>2. CASE ~Dial
    <3>1. UNCHANGED <<remapped, gate, ids, dials>>
      BY <1>2, <2>2
      DEF Next, Verify, Environment, Done,
          Validate, BuildStarts, BuildFails,
          ReadLine, StreamEnds, InspectImage,
          CreateVolume, CreateVolumeFails, InitVolume,
          InitFails, StartBroker, StartBrokerFails,
          WaitListen, WaitListenFails, DialRunFails,
          Check, RemoveBroker, RemoveVolume,
          RemoveImage, Returns, ContextEnds,
          EngineBuilds, BrokerDies, LaunchFails,
          Removing, world, vars
    <3>2. fault => fault'
      BY <1>2, <2>2, Zenon
      DEF Next, Verify, Environment, Done,
          Validate, BuildStarts, BuildFails,
          ReadLine, StreamEnds, InspectImage,
          CreateVolume, CreateVolumeFails, InitVolume,
          InitFails, StartBroker, StartBrokerFails,
          WaitListen, WaitListenFails, DialRunFails,
          Check, RemoveBroker, RemoveVolume,
          RemoveImage, Returns, ContextEnds,
          EngineBuilds, BrokerDies, LaunchFails,
          Removing, vars
    <3>3. pc' \in Before => pc' = pc \/ (pc \in Before \ {"dial", "check"} /\ pc' # "check")
      BY <1>2, <2>2
      DEF Before, Goto, Unwind,
          Next, Verify, Environment, Done,
          Validate, BuildStarts, BuildFails,
          ReadLine, StreamEnds, InspectImage,
          CreateVolume, CreateVolumeFails, InitVolume,
          InitFails, StartBroker, StartBrokerFails,
          WaitListen, WaitListenFails, DialRunFails,
          Check, RemoveBroker, RemoveVolume,
          RemoveImage, Returns, ContextEnds,
          EngineBuilds, BrokerDies, LaunchFails,
          Removing, vars
    <3> QED
      BY <1>2, <3>1, <3>2, <3>3, CallsStep, DialsStay DEF PeerInv
  <2> QED
    BY <2>1, <2>2
<1>3. CASE UNCHANGED vars
  <2>1. UNCHANGED <<remapped, gate, ids, pc, ctxDone, image, stream, volume, broker, stray, dials,
                    defers, errs, fault>>
    BY <1>3 DEF vars, world, build
  <2>2. PeerTypeOK'
    BY <2>1 DEF PeerInv, CallsInv, PeerTypeOK
  <2>3. RemovalsFollowCalls' /\ HeldIsDeferred'
    BY <2>1 DEF PeerInv, CallsInv, RemovalsFollowCalls, HeldIsDeferred
  <2>4. ErrorsFollowCalls' /\ UndisturbedInOrder'
    BY <2>1 DEF PeerInv, CallsInv, ErrorsFollowCalls, UndisturbedInOrder, Trusted
  <2> QED
    BY <2>1, <2>2, <2>3, <2>4, DialsStay DEF PeerInv, CallsInv
<1> QED
  BY <1>2, <1>3

\* The invariant of VerifyPeerIdentity.
LEMMA PeerInvariant == Spec => []PeerInv
<1>1. PeerInv /\ [Next]_vars => PeerInv'
  BY PeerStep
<1> QED
  BY <1>1, PeerInit, PTL DEF Spec

\* No error from VerifyPeerIdentity, whatever identities it was asked for and
\* whatever failed on the way, means that this engine's peer credentials and
\* socket groups can be trusted.
THEOREM NilIsTrusted == Spec => []NilMeansTrusted
<1>1. PeerInv => NilMeansTrusted
  BY DEF PeerInv, CallsInv, ErrorsFollowCalls, After, NilMeansTrusted
<1> QED
  BY <1>1, PeerInvariant, PTL

\* On every path the broker and the volume are gone when VerifyPeerIdentity
\* returns, or its error says which of them is not.
THEOREM LeftoversAreReported == Spec => []LeftoversReported
<1>1. PeerInv => LeftoversReported
  BY RemovalLists DEF PeerInv, CallsInv, RemovalsFollowCalls, HeldIsDeferred,
                      LeftoversReported
<1> QED
  BY <1>1, PeerInvariant, PTL

\* Where nothing fails, everything is removed and the verdict is exactly whether
\* the identities are usable and the engine can be trusted.
THEOREM UndisturbedVerdict == Spec => []UndisturbedVerdictIsExact
<1>1. PeerInv => UndisturbedVerdictIsExact
  BY RemovalLists DEF PeerInv, CallsInv, PeerTypeOK, RemovalsFollowCalls, ErrorsFollowCalls,
                      UndisturbedInOrder, After, UndisturbedVerdictIsExact
<1> QED
  BY <1>1, PeerInvariant, PTL
============================================================================
