------------------------------ MODULE PeerEcho ------------------------------
(***************************************************************************)
(* probe's peer-echo command (net.go) and the dial commands that talk to   *)
(* it: one accept loop that serves a connection at a time, reads its       *)
(* request line and answers with the peer's credentials.  Both ends give   *)
(* up after ioTimeout.                                                     *)
(***************************************************************************)
EXTENDS ProbeRun

CONSTANT Count    \* connections peer-echo serves before it returns

VARIABLES
    sock,       \* the listening socket: "none", "open" or "closed"
    backlog,    \* connections waiting to be accepted
    echo,       \* the loop: "accept", "read" or "answer"
    served,     \* connections served; the one being served is next
    peer,       \* the connection being served, {} in between
    dial,       \* dial[c]: where the dial command of c is
    closed,     \* connections the server has closed
    answered,   \* connections it has answered first
    late,       \* clients whose deadline has passed
    givenUp     \* clients the server gave up on

echoVars == <<sock, backlog, echo, served, peer, dial, closed, answered, late, givenUp>>

EchoInit ==
    /\ sock = "none" /\ backlog = <<>> /\ echo = "accept" /\ served = 0 /\ peer = {}
    /\ dial = [c \in Clients |-> "new"]
    /\ closed = {} /\ answered = {} /\ late = {} /\ givenUp = {}

Echoing == cmd = "peer-echo" /\ phase = "running"
MoveDial(c, from, to) == dial[c] = from /\ dial' = [dial EXCEPT ![c] = to]

-----------------------------------------------------------------------------
(* cmdPeerEcho *)

EchoListen ==
    /\ Echoing /\ sock = "none"
    /\ \/ sock' = "open" /\ Ok("listen") /\ RunFrame /\ UNCHANGED user
       \/ sock' = "closed" /\ lines' = lines \cup {<<"listen", FALSE, user>>}
          /\ denied' = denied + 1 /\ ReturnWith(denied + 1)
    /\ UNCHANGED <<backlog, echo, served, peer, dial, closed, answered, late, givenUp>>

\* The next connection is accepted and the kernel asked who its peer is.
EchoAccept ==
    /\ Echoing /\ sock = "open" /\ echo = "accept" /\ served < Count /\ backlog # <<>>
    /\ backlog' = Tail(backlog)
    /\ \/ /\ Ok("peer") /\ echo' = "read" /\ peer' = {Head(backlog)}
          /\ UNCHANGED <<served, closed, givenUp>>
       \/ /\ Deny("peer") /\ served' = served + 1
          /\ closed' = closed \cup {Head(backlog)} /\ givenUp' = givenUp \cup {Head(backlog)}
          /\ UNCHANGED <<echo, peer>>
    /\ RunFrame /\ UNCHANGED <<user, sock, dial, answered, late>>

\* Mutant of EchoReads: it answers first.
EchoReadsNothing ==
    /\ Echoing /\ echo = "read" /\ echo' = "answer"
    /\ RunSilent
    /\ UNCHANGED <<sock, backlog, served, peer, dial, closed, answered, late, givenUp>>

\* The request line, or the client's end of file, is there; or the read
\* deadline passes.
EchoReads ==
    /\ Echoing /\ echo = "read" /\ echo' = "answer"
    /\ \E c \in peer :
        \/ dial[c] \notin {"new", "dialed"} /\ UNCHANGED givenUp
        \/ givenUp' = givenUp \cup {c}
    /\ RunSilent
    /\ UNCHANGED <<sock, backlog, served, peer, dial, closed, answered, late>>

\* It answers, closes and goes on with the next.
EchoAnswers ==
    /\ Echoing /\ echo = "answer" /\ echo' = "accept"
    /\ answered' = answered \cup peer /\ closed' = closed \cup peer
    /\ peer' = {} /\ served' = served + 1
    /\ RunSilent /\ UNCHANGED <<sock, backlog, dial, late, givenUp>>

\* Count connections are served, or Accept fails: the listener is closed under
\* the connections that still wait.
EchoReturns ==
    /\ Echoing /\ sock = "open" /\ echo = "accept"
    /\ \/ served = Count /\ Return
       \/ /\ served < Count /\ ReturnWith(denied + 1)
          /\ lines' = lines \cup {<<"accept", FALSE, user>>} /\ denied' = denied + 1
    /\ sock' = "closed" /\ backlog' = <<>>
    /\ LET waiting == {backlog[i] : i \in 1..Len(backlog)}
       IN  closed' = closed \cup waiting /\ givenUp' = givenUp \cup waiting
    /\ UNCHANGED <<echo, served, peer, dial, answered, late>>

-----------------------------------------------------------------------------
(* cmdDial, with a message *)

DialConnects(c) ==
    /\ MoveDial(c, "new", "dialed") /\ sock = "open"
    /\ backlog' = Append(backlog, c)
    /\ UNCHANGED <<sock, echo, served, peer, closed, answered, late, givenUp>>

DialRefused(c) ==
    /\ MoveDial(c, "new", "refused") /\ sock # "open"
    /\ UNCHANGED <<sock, backlog, echo, served, peer, closed, answered, late, givenUp>>

\* The message is written, or hits a closed socket.
DialWrites(c) ==
    /\ MoveDial(c, "dialed", IF c \in closed THEN "denied" ELSE "wrote")
    /\ UNCHANGED <<sock, backlog, echo, served, peer, closed, answered, late, givenUp>>

\* The reply is read, or the end of file of a connection closed without one.
DialReads(c) ==
    /\ c \in closed
    /\ MoveDial(c, "wrote", IF c \in answered THEN "replied" ELSE "denied")
    /\ UNCHANGED <<sock, backlog, echo, served, peer, closed, answered, late, givenUp>>

DialTimesOut(c) ==
    /\ MoveDial(c, "dialed", "denied") \/ MoveDial(c, "wrote", "denied")
    /\ late' = late \cup {c}
    /\ UNCHANGED <<sock, backlog, echo, served, peer, closed, answered, givenUp>>

EchoNext ==
    \/ EchoListen \/ EchoAccept \/ EchoReads \/ EchoAnswers \/ EchoReturns
    \/ /\ cmd = "peer-echo" /\ UNCHANGED runVars
       /\ \E c \in Clients : \/ DialConnects(c) \/ DialRefused(c) \/ DialWrites(c)
                             \/ DialReads(c) \/ DialTimesOut(c)

-----------------------------------------------------------------------------
(* Properties *)

\* "Answering and closing first raced a client that writes then reads": a dial
\* command's reply is denied only when one of the deadlines passed, or when the
\* server never accepted the connection or could not ask who it was.  Losing
\* the race with the server's close is no reason.
DialerGetsItsReply ==
    \A c \in Clients :
        dial[c] = "denied" => c \in late \cup givenUp
=============================================================================
