---------------------------- MODULE ExactlyOnce ----------------------------
(***************************************************************************)
(* What the idempotent strategy of the completed-job-counter lesson        *)
(* promises: however often an event is delivered, it is counted once.      *)
(***************************************************************************)
EXTENDS Naturals

CONSTANT Events

VARIABLES counted,   \* events counted so far
          total      \* the counter

Init == counted = {} /\ total = 0

Count(e) ==
    /\ e \in Events \ counted
    /\ counted' = counted \cup {e}
    /\ total' = total + 1

Next == \E e \in Events : Count(e)

Spec == Init /\ [][Next]_<<counted, total>>
=============================================================================
