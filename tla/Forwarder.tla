----------------------------- MODULE Forwarder -----------------------------
(***************************************************************************)
(* The egress fixture: probe's forward command (egress.go) between clients *)
(* on its unix socket and the http-count server (net.go) it is fixed to.   *)
(* Each connection has a goroutine that dials, then copies both ways until *)
(* each side has finished sending or its deadline has passed.              *)
(*                                                                         *)
(* A connection is four streams, each holding "data", "eof", both or       *)
(* nothing: in (written by the client), up (passed to the server), back    *)
(* (written by the server), out (passed to the client).                    *)
(***************************************************************************)
EXTENDS ProbeRun

VARIABLES
    ln,                  \* the listener: "none", "open" or "closed"
    main,                \* cmdForward: "accept" or "wait" (wg.Wait)
    wg,                  \* the WaitGroup's counter
    link,                \* link[c]: the connection's goroutine
    in, up, back, out,   \* the streams of each connection
    upDone, outDone,     \* connections whose copy in that direction has ended
    expired,             \* connections whose deadline has passed
    gone                 \* clients that have closed their end

streams == <<in, up, back, out>>
copies == <<upDone, outDone>>
forwardVars == <<ln, main, wg, link, streams, copies, expired, gone>>

ForwardInit ==
    /\ ln = "none" /\ main = "accept" /\ wg = 0
    /\ link = [c \in Clients |-> "none"]
    /\ in = [c \in Clients |-> {}] /\ up = [c \in Clients |-> {}]
    /\ back = [c \in Clients |-> {}] /\ out = [c \in Clients |-> {}]
    /\ upDone = {} /\ outDone = {} /\ expired = {} /\ gone = {}

Forwarding == cmd = "forward" /\ phase = "running"
Put(s, c, x) == [s EXCEPT ![c] = @ \cup x]
MoveLink(c, from, to) == link[c] = from /\ link' = [link EXCEPT ![c] = to]

-----------------------------------------------------------------------------
(* cmdForward *)

Listen ==
    /\ Forwarding /\ ln = "none"
    /\ \/ ln' = "open" /\ Ok("listen") /\ RunFrame /\ UNCHANGED user
       \/ ln' = "closed" /\ lines' = lines \cup {<<"listen", FALSE, user>>}
          /\ denied' = denied + 1 /\ ReturnWith(denied + 1)
    /\ UNCHANGED <<main, wg, link, streams, copies, expired, gone>>

\* A client connects; the connection waits to be accepted.
Connect(c) ==
    /\ Forwarding /\ ln = "open"
    /\ MoveLink(c, "none", "queued")
    /\ RunSilent /\ UNCHANGED <<ln, main, wg, streams, copies, expired, gone>>

Accept(c) ==
    /\ Forwarding /\ main = "accept" /\ ln = "open"
    /\ MoveLink(c, "queued", "dial")
    /\ wg' = wg + 1
    /\ RunSilent /\ UNCHANGED <<ln, main, streams, copies, expired, gone>>

\* SIGTERM closes the listener; what waited to be accepted is reset.
TermCloses ==
    /\ Forwarding /\ term /\ ln = "open"
    /\ ln' = "closed"
    /\ link' = [c \in Clients |-> IF link[c] = "queued" THEN "reset" ELSE link[c]]
    /\ RunSilent /\ UNCHANGED <<main, wg, streams, copies, expired, gone>>

\* Accept returns ErrClosed, or another error that is reported.
AcceptFails ==
    /\ Forwarding /\ main = "accept" /\ ln # "none"
    /\ main' = "wait"
    /\ \/ ln = "closed" /\ RunSilent
       \/ ln = "open" /\ Deny("accept") /\ RunFrame /\ UNCHANGED user
    /\ UNCHANGED <<ln, wg, link, streams, copies, expired, gone>>

\* Every goroutine is done: cmdForward returns.
WaitReturns ==
    /\ Forwarding /\ main = "wait" /\ wg = 0
    /\ Return /\ UNCHANGED forwardVars

-----------------------------------------------------------------------------
(* The goroutine of a connection *)

DialReturns(c) ==
    /\ Forwarding /\ MoveLink(c, "dial", "pipe")
    /\ Ok("forward") /\ RunFrame
    /\ UNCHANGED <<user, ln, main, wg, streams, copies, expired, gone>>

DialFails(c) ==
    /\ Forwarding /\ MoveLink(c, "dial", "denied")
    /\ wg' = wg - 1
    /\ Deny("forward") /\ RunFrame
    /\ UNCHANGED <<user, ln, main, streams, copies, expired, gone>>

Piping(c) == Forwarding /\ link[c] = "pipe"

CopyUp(c) ==
    /\ Piping(c) /\ c \notin upDone
    /\ "data" \in in[c] \ up[c] /\ "eof" \notin back[c]
    /\ up' = Put(up, c, {"data"})
    /\ RunSilent /\ UNCHANGED <<ln, main, wg, link, in, back, out, copies, expired, gone>>

\* Mutant of CopyUpEnds: the client's connection has no deadline.
CopyUpEndsUntimed(c) ==
    /\ Piping(c) /\ c \notin upDone
    /\ "eof" \in in[c] /\ in[c] \subseteq up[c] \cup {"eof"}
    /\ upDone' = upDone \cup {c} /\ up' = Put(up, c, {"eof"})
    /\ RunSilent /\ UNCHANGED <<ln, main, wg, link, in, back, out, outDone, expired, gone>>

\* io.Copy(up, client) ends at the client's end of data, at the deadline, or on
\* a server that no longer reads; up.CloseWrite passes the end on.
CopyUpEnds(c) ==
    /\ Piping(c) /\ c \notin upDone
    /\ \/ "eof" \in in[c] /\ in[c] \subseteq up[c] \cup {"eof"}
       \/ c \in expired
       \/ "data" \in in[c] \ up[c] /\ "eof" \in back[c]
    /\ upDone' = upDone \cup {c} /\ up' = Put(up, c, {"eof"})
    /\ RunSilent /\ UNCHANGED <<ln, main, wg, link, in, back, out, outDone, expired, gone>>

CopyBack(c) ==
    /\ Piping(c) /\ c \notin outDone \cup gone
    /\ "data" \in back[c] \ out[c]
    /\ out' = Put(out, c, {"data"})
    /\ RunSilent /\ UNCHANGED <<ln, main, wg, link, in, up, back, copies, expired, gone>>

\* The other direction: io.Copy(client, up) and client.CloseWrite.
CopyBackEnds(c) ==
    /\ Piping(c) /\ c \notin outDone
    /\ \/ "eof" \in back[c] /\ back[c] \subseteq out[c] \cup {"eof"}
       \/ c \in expired
       \/ "data" \in back[c] \ out[c] /\ c \in gone
    /\ outDone' = outDone \cup {c} /\ out' = Put(out, c, {"eof"})
    /\ RunSilent /\ UNCHANGED <<ln, main, wg, link, in, up, back, upDone, expired, gone>>

\* Mutant of PipeReturns: pipe returns when one direction has ended.
PipeReturnsHalf(c) ==
    /\ Piping(c) /\ c \in upDone \cup outDone
    /\ MoveLink(c, "pipe", "done") /\ wg' = wg - 1
    /\ RunSilent /\ UNCHANGED <<ln, main, streams, copies, expired, gone>>

\* Both directions have ended: the connections are closed, wg.Done.
PipeReturns(c) ==
    /\ Piping(c) /\ c \in upDone \cap outDone
    /\ MoveLink(c, "pipe", "done") /\ wg' = wg - 1
    /\ RunSilent /\ UNCHANGED <<ln, main, streams, copies, expired, gone>>

\* forwardTimeout after the accept.
DeadlinePasses(c) ==
    /\ Forwarding /\ link[c] \in {"dial", "pipe"} /\ c \notin expired
    /\ expired' = expired \cup {c}
    /\ RunSilent /\ UNCHANGED <<ln, main, wg, link, streams, copies, gone>>

-----------------------------------------------------------------------------
(* The client and the server *)

\* The client sends its request, finishes sending, or closes.
ClientActs(c) ==
    /\ Forwarding /\ link[c] \in {"queued", "dial", "pipe"} /\ "eof" \notin in[c]
    /\ \E x \in {"data", "eof"} \ in[c] : in' = Put(in, c, {x})
    /\ RunSilent
    /\ UNCHANGED <<ln, main, wg, link, up, back, out, copies, expired, gone>>

ClientCloses(c) ==
    /\ Forwarding /\ link[c] \in {"queued", "dial", "pipe"} /\ c \notin gone
    /\ gone' = gone \cup {c} /\ in' = Put(in, c, {"eof"})
    /\ RunSilent
    /\ UNCHANGED <<ln, main, wg, link, up, back, out, copies, expired>>

\* http-count answers a request, and closes the connection when it likes.
ServerActs(c) ==
    /\ Forwarding /\ link[c] = "pipe" /\ "eof" \notin back[c]
    /\ \/ "data" \in up[c] /\ "data" \notin back[c] /\ back' = Put(back, c, {"data"})
       \/ back' = Put(back, c, {"eof"})
    /\ RunSilent
    /\ UNCHANGED <<ln, main, wg, link, in, up, out, copies, expired, gone>>

ForwarderSteps(c) ==
    \/ DialReturns(c) \/ DialFails(c) \/ CopyUp(c) \/ CopyUpEnds(c)
    \/ CopyBack(c) \/ CopyBackEnds(c) \/ PipeReturns(c)

ForwardMain == TermCloses \/ (AcceptFails /\ ln = "closed") \/ WaitReturns

ForwardNext ==
    \/ Listen \/ TermCloses \/ AcceptFails \/ WaitReturns
    \/ \E c \in Clients :
        \/ Connect(c) \/ Accept(c) \/ ForwarderSteps(c) \/ DeadlinePasses(c)
        \/ ClientActs(c) \/ ClientCloses(c) \/ ServerActs(c)

\* Goroutines run, DialTimeout returns and deadlines pass.  Clients and server
\* owe nothing.
ForwardFairness ==
    /\ WF_<<runVars, forwardVars>>(ForwardMain)
    /\ \A c \in Clients :
        /\ WF_<<runVars, forwardVars>>(ForwarderSteps(c))
        /\ WF_<<runVars, forwardVars>>(DeadlinePasses(c))

-----------------------------------------------------------------------------
(* Properties *)

\* "the command exits 0 once open connections end", and no client or server
\* can keep it: SIGTERM leads to the exit, whoever has stopped reading, sending
\* or closing.
ForwarderExits == cmd = "forward" /\ term ~> phase = "exited"

\* A connection that ended by itself has passed on everything: the request
\* and its end to a server that had not closed, the reply and its end to a
\* client that was still there.  None is open when the process exits.
ConnectionsAreWhole ==
    /\ \A c \in Clients :
        link[c] = "done" /\ c \notin expired =>
            /\ "eof" \in in[c] \/ "eof" \in back[c]
            /\ c \notin gone => out[c] = back[c]
            /\ "eof" \notin back[c] => in[c] = up[c]
    /\ cmd = "forward" /\ phase = "exited" =>
        \A c \in Clients : link[c] \notin {"dial", "pipe"}
=============================================================================
