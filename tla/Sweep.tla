------------------------------- MODULE Sweep -------------------------------
(***************************************************************************)
(* Sweep and ListLesson of internal/lab/docker/cleanup.go: the net for     *)
(* crashed runs.  It lists the lesson's containers, volumes and networks   *)
(* in three engine calls, removes them in that order by name, and lists    *)
(* again when a removal failed.  Meanwhile runs of this and other lessons  *)
(* create and remove objects, and any engine call may fail or lose its     *)
(* reply.                                                                  *)
(***************************************************************************)
EXTENDS Naturals, FiniteSets

CONSTANTS
    Containers, Volumes, Networks,   \* the names objects may have
    Ours,                            \* names whose labels carry our lesson
    Uses                             \* pairs <<container, volume or network>>

Objects == Containers \cup Volumes \cup Networks

ASSUME SweepAssumption ==
    /\ Ours \subseteq Objects
    /\ Uses \subseteq Containers \X (Volumes \cup Networks)
    \* only a lesson's own containers use its volumes and networks
    /\ \A u \in Uses : u[1] \in Ours <=> u[2] \in Ours
    \* the three kinds of names do not meet
    /\ Containers \cap (Volumes \cup Networks) = {}
    /\ Volumes \cap Networks = {}

VARIABLES
    there,     \* objects on the engine
    future,    \* objects some run may still create (names are never reused)
    pc,        \* "list", "remove", "relist", "nil", "err"
    phase,     \* the kind the running listing asks for next
    left,      \* Leftovers of the first listing
    todo,      \* the part of it whose removal has not been tried
    failed,    \* names whose removal returned an error
    removed,   \* Leftovers returned as removed
    still,     \* Leftovers of the second listing
    disturbed  \* a call failed, or another run touched the engine

vars == <<there, future, pc, phase, left, todo, failed, removed, still, disturbed>>

Phases == {"containers", "volumes", "networks"}

TypeOK ==
    /\ there \subseteq Objects /\ future \subseteq Objects
    /\ pc \in {"list", "remove", "relist", "nil", "err"}
    /\ phase \in Phases
    /\ left \subseteq Objects /\ todo \subseteq left
    /\ failed \subseteq left /\ removed \subseteq left
    /\ still \subseteq Objects
    /\ disturbed \in BOOLEAN

\* Whatever a crashed run left behind, and whatever other runs will do.
Init ==
    /\ there \in SUBSET Objects
    /\ future = Objects \ there
    /\ pc = "list" /\ phase = "containers"
    /\ left = {} /\ todo = {} /\ failed = {} /\ removed = {} /\ still = {}
    /\ disturbed = FALSE

-----------------------------------------------------------------------------
(* Other runs *)

Appear(o) ==
    /\ o \in future
    /\ there' = there \cup {o}
    /\ future' = future \ {o}
    /\ disturbed' = TRUE
    /\ UNCHANGED <<pc, phase, left, todo, failed, removed, still>>

\* A run removes its own object, containers before what they use.
Vanish(o) ==
    /\ o \in there
    /\ \A u \in Uses : u[2] = o => u[1] \notin there
    /\ there' = there \ {o}
    /\ disturbed' = TRUE
    /\ UNCHANGED <<future, pc, phase, left, todo, failed, removed, still>>

-----------------------------------------------------------------------------
(* ListLesson *)

KindOf(p) == CASE p = "containers" -> Containers
               [] p = "volumes" -> Volumes
               [] p = "networks" -> Networks

After(p) == IF p = "containers" THEN "volumes" ELSE "networks"

\* What the server-side label filter may return for one kind: everything of
\* ours, and, should the filter be broken or ignored, anything else.
Filtered(p) == {s \in SUBSET (there \cap KindOf(p)) :
                    there \cap KindOf(p) \cap Ours \subseteq s}

\* Mutant of OwnedBy: the filter is trusted.
OwnedByTrusting(s) == s

\* ownedBy re-checks both labels on what the filter selected.
OwnedBy(s) == s \cap Ours

ListKind ==
    /\ pc \in {"list", "relist"}
    /\ \E s \in Filtered(phase) :
        IF pc = "list"
        THEN left' = left \cup OwnedBy(s) /\ UNCHANGED still
        ELSE still' = still \cup OwnedBy(s) /\ UNCHANGED left
    /\ phase' = IF phase = "networks" THEN "containers" ELSE After(phase)
    /\ todo' = IF pc = "list" THEN left' ELSE todo
    /\ pc' = CASE phase # "networks" -> pc
               [] phase = "networks" /\ pc = "list" -> "remove"
               [] phase = "networks" /\ pc = "relist" ->
                    IF failed \cap still' = {} THEN "nil" ELSE "err"
    /\ UNCHANGED <<there, future, failed, removed, disturbed>>

\* validLesson refuses the name, or one of the three list calls fails: Sweep
\* returns the error.
ListFails ==
    /\ pc \in {"list", "relist"}
    /\ pc' = "err"
    /\ disturbed' = TRUE
    /\ UNCHANGED <<there, future, phase, left, todo, failed, removed, still>>

-----------------------------------------------------------------------------
(* The removals *)

\* Mutant of Order: volumes and networks before the containers that use them.
OrderBackwards(o) == IF o \in Networks THEN 1 ELSE IF o \in Volumes THEN 2 ELSE 3

\* Containers first, then volumes, then networks.
Order(o) == IF o \in Containers THEN 1 ELSE IF o \in Volumes THEN 2 ELSE 3

IsNext(o) == o \in todo /\ \A q \in todo : Order(o) <= Order(q)

InUse(o) == \E u \in Uses : u[2] = o /\ u[1] \in there

\* The engine refuses to remove what a container uses, and a container or
\* network that is gone; a forced removal of a missing volume succeeds.
Removable(o) == o \notin Containers => ~InUse(o)

RemoveSucceeds(o) ==
    /\ pc = "remove" /\ IsNext(o)
    /\ Removable(o) /\ (o \in there \/ o \in Volumes)
    /\ there' = there \ {o}
    /\ removed' = removed \cup {o}
    /\ todo' = todo \ {o}
    /\ UNCHANGED <<future, pc, phase, left, failed, still, disturbed>>

\* The removal is refused.
RemoveRefused(o) ==
    /\ pc = "remove" /\ IsNext(o)
    /\ ~Removable(o) \/ (o \notin there /\ o \notin Volumes)
    /\ failed' = failed \cup {o}
    /\ todo' = todo \ {o}
    /\ UNCHANGED <<there, future, pc, phase, left, removed, still, disturbed>>

\* The call fails on its way: the context ended or the connection broke,
\* before or after the engine acted.
RemoveBreaks(o) ==
    /\ pc = "remove" /\ IsNext(o)
    /\ \/ UNCHANGED there
       \/ Removable(o) /\ there' = there \ {o}
    /\ failed' = failed \cup {o}
    /\ todo' = todo \ {o}
    /\ disturbed' = TRUE
    /\ UNCHANGED <<future, pc, phase, left, removed, still>>

\* Mutant of RemovalsDone: failures are not looked into.
RemovalsDoneNil ==
    /\ pc = "remove" /\ todo = {}
    /\ pc' = "nil"
    /\ UNCHANGED <<there, future, phase, left, todo, failed, removed, still, disturbed>>

\* All removals tried: nil when none failed, else a second listing decides.
RemovalsDone ==
    /\ pc = "remove" /\ todo = {}
    /\ pc' = IF failed = {} THEN "nil" ELSE "relist"
    /\ UNCHANGED <<there, future, phase, left, todo, failed, removed, still, disturbed>>

Sweeper ==
    \/ ListKind \/ ListFails \/ RemovalsDone
    \/ \E o \in Objects : RemoveSucceeds(o) \/ RemoveRefused(o) \/ RemoveBreaks(o)

OtherRuns == \E o \in Objects : Appear(o) \/ Vanish(o)

Returned == pc \in {"nil", "err"}

Next ==
    \/ Sweeper
    \/ OtherRuns
    \/ Returned /\ UNCHANGED vars

Spec == Init /\ [][Next]_vars

-----------------------------------------------------------------------------
(* Properties *)

\* "and nothing else": whatever the server-side filter returns, Sweep itself
\* removes no object of another lesson.
SweepTouchesOnlyOurs ==
    [][Sweeper => there \ there' \subseteq Ours]_vars

\* A nil error is true: nothing the first listing found is on the engine any
\* more, although failed removals were forgiven for objects that vanished.
NilMeansListedGone == pc = "nil" => left \cap there = {}

\* Left alone, one Sweep is enough: it returns nil and the lesson has nothing
\* left, because what uses a volume or network is removed before it.
UndisturbedSweepIsClean ==
    Returned /\ ~disturbed => pc = "nil" /\ there \cap Ours = {}
=============================================================================
