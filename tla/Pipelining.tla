----------------------------- MODULE Pipelining -----------------------------
(***************************************************************************)
(* The pipelining-work lesson under its HTTP adapter: batches of INCRs,    *)
(* one round trip each or all in one flush, and one GET /stats that reads  *)
(* the stored sum and then loads the batch counters.                       *)
(*                                                                         *)
(* Valkey applies what was sent to it in order, also after the batch has   *)
(* returned an error, and go-redis sends again what a broken connection    *)
(* left unanswered.  The two variants have keys and counters of their own, *)
(* so a behaviour has one of them.                                         *)
(***************************************************************************)
EXTENDS Integers, FiniteSets, FiniteSetsExt

CONSTANTS Batches,      \* requests for POST /operation
          BatchSize,    \* keys of a batch
          MaxResends    \* bound: commands or flushes sent again

Keys == 1..BatchSize
Variants == {"sequential", "pipeline"}

VARIABLES
    variant,          \* the variant all requests ask for
    val,              \* val[k]: the counter Valkey stores under key k
    pc,               \* pc[b]: where the handler of b is
    sent,             \* sent[b]: keys of b sent to Valkey
    next,             \* next[b]: the next key of b Valkey applies
    resends,          \* resends so far
    batches, failed,  \* the adapter's counters
    statsPc, report,  \* GET /stats: its next step and what it has read
    window            \* requests in flight while it was reading

traffic == <<pc, sent, next>>
stats == <<statsPc, report, window>>
vars == <<variant, val, traffic, resends, batches, failed, stats>>

\* One untimed batch per variant has run and the keys are deleted again.
Init ==
    /\ variant \in Variants
    /\ val = [k \in Keys |-> 0]
    /\ pc = [b \in Batches |-> "new"]
    /\ sent = [b \in Batches |-> 0] /\ next = [b \in Batches |-> 1]
    /\ resends = 0 /\ batches = 0 /\ failed = 0
    /\ statsPc = "new" /\ window = {}
    /\ report = [sum |-> 0, batches |-> 0, failed |-> 0]

InFlight == {b \in Batches : pc[b] \in {"run", "ended"}}
Reading == statsPc \notin {"new", "done", "erred"}

Goto(b, from, to) == pc[b] = from /\ pc' = [pc EXCEPT ![b] = to]

-----------------------------------------------------------------------------
(* POST /operation *)

\* The variant is neither sequential nor pipeline: 400.
Refuse(b) ==
    /\ Goto(b, "new", "refused")
    /\ UNCHANGED <<variant, val, sent, next, resends, batches, failed, stats>>

Start(b) ==
    /\ Goto(b, "new", "run")
    /\ window' = IF Reading THEN window \cup {b} ELSE window
    /\ UNCHANGED <<variant, val, sent, next, resends, batches, failed, statsPc, report>>

\* IncrementSequential sends the next key once the last one was answered.
IncrementSequential(b) ==
    /\ variant = "sequential" /\ next[b] = sent[b] + 1
    /\ sent' = [sent EXCEPT ![b] = @ + 1]

\* IncrementPipelined flushes all keys.
IncrementPipelined(b) ==
    /\ variant = "pipeline" /\ sent[b] = 0
    /\ sent' = [sent EXCEPT ![b] = BatchSize]

Send(b) ==
    /\ pc[b] = "run" /\ sent[b] < BatchSize
    /\ IncrementSequential(b) \/ IncrementPipelined(b)
    /\ UNCHANGED <<variant, val, pc, next, resends, batches, failed, stats>>

\* The operation returns nil with its last reply.
OpReturns(b) ==
    /\ next[b] > BatchSize
    /\ Goto(b, "run", "ended")
    /\ UNCHANGED <<variant, val, sent, next, resends, batches, failed, stats>>

CountBatch(b) ==
    /\ Goto(b, "ended", "ok")
    /\ batches' = batches + 1
    /\ UNCHANGED <<variant, val, sent, next, resends, failed, stats>>

\* Mutant of OpFails: the operation's error is not looked at.
OpFailsUnseen(b) ==
    /\ Goto(b, "run", "ended")
    /\ UNCHANGED <<variant, val, sent, next, resends, batches, failed, stats>>

\* A reply is an error, the connection breaks or the request's context ends:
\* 503.  What is on its way may still be applied.
OpFails(b) ==
    /\ Goto(b, "run", "failed")
    /\ failed' = failed + 1
    /\ UNCHANGED <<variant, val, sent, next, resends, batches, stats>>

-----------------------------------------------------------------------------
(* Valkey and the client library *)

Apply(b) ==
    /\ next[b] <= sent[b]
    /\ val' = [val EXCEPT ![next[b]] = @ + 1]
    /\ next' = [next EXCEPT ![b] = @ + 1]
    /\ UNCHANGED <<variant, pc, sent, resends, batches, failed, stats>>

\* What a broken connection carried is lost.
Drop(b) ==
    /\ pc[b] = "failed" /\ next[b] <= sent[b]
    /\ sent' = [sent EXCEPT ![b] = next[b] - 1]
    /\ UNCHANGED <<variant, val, pc, next, resends, batches, failed, stats>>

\* go-redis retries a command, or a whole pipeline, whose reply it did not get.
Resend(b) ==
    /\ pc[b] = "run" /\ sent[b] > 0 /\ resends < MaxResends
    /\ next' = [next EXCEPT ![b] = IF variant = "pipeline" THEN 1 ELSE sent[b]]
    /\ resends' = resends + 1
    /\ UNCHANGED <<variant, val, pc, sent, batches, failed, stats>>

-----------------------------------------------------------------------------
(* GET /stats *)

\* core.Sum totals one MGET, or fails and the answer is 503.
Sum ==
    /\ statsPc = "new"
    /\ statsPc' \in {"batches", "erred"}
    /\ report' = [report EXCEPT !.sum = MapThenSumSet(LAMBDA k : val[k], Keys)]
    /\ window' = InFlight
    /\ UNCHANGED <<variant, val, traffic, resends, batches, failed>>

StatsLoads ==
    /\ \/ statsPc = "batches" /\ statsPc' = "failed" /\ report' = [report EXCEPT !.batches = batches]
       \/ statsPc = "failed" /\ statsPc' = "done" /\ report' = [report EXCEPT !.failed = failed]
    /\ UNCHANGED <<variant, val, traffic, resends, batches, failed, window>>

Idle == InFlight = {} /\ UNCHANGED vars

Next ==
    \/ \E b \in Batches :
        \/ Refuse(b) \/ Start(b) \/ Send(b) \/ OpReturns(b) \/ CountBatch(b)
        \/ OpFails(b) \/ Apply(b) \/ Drop(b) \/ Resend(b)
    \/ Sum \/ StatsLoads
    \/ Idle

Spec == Init /\ [][Next]_vars

-----------------------------------------------------------------------------
(* Properties *)

\* "A pipeline is not atomic", and /stats reads the sum before the counters.
\* Still every key holds one increment of each confirmed batch, and expected
\* and actual sum differ by no more than the failed batches, the batches in
\* flight while /stats was reading, and what was sent twice.
SumIsAccounted ==
    /\ \A k \in Keys : val[k] >= batches
    /\ statsPc = "done" =>
        LET expected == report.batches * BatchSize
            inFlight == Cardinality(window) * BatchSize
        IN  report.sum \in (expected - inFlight)..
                (expected + inFlight + (report.failed + resends) * BatchSize)
=============================================================================
