---------------------------- MODULE SweepProofs ----------------------------
(***************************************************************************)
(* Proofs about Sweep, for any objects, any lesson and any use of volumes  *)
(* and networks by containers.                                             *)
(*                                                                         *)
(* A nil answer is right because no name is ever used twice: what was      *)
(* listed once and is gone stays gone, so a removal that succeeded and a   *)
(* failed one that the second listing does not show are both final.        *)
(***************************************************************************)
EXTENDS Sweep, TLAPS

-----------------------------------------------------------------------------
(* The inductive invariant *)

\* The kinds the running listing has asked for already.
Listed(p) == CASE p = "containers" -> {}
               [] p = "volumes" -> Containers
               [] p = "networks" -> Containers \cup Volumes

\* An object still to be created is neither on the engine nor in a listing.
NamesAreFresh == future \cap there = {} /\ future \cap left = {}

\* ownedBy: the first listing keeps the lesson's own objects only.
ListedAreOurs == left \subseteq Ours

\* Every listed object is waiting for its removal, removed, or failed.
RemovalsAreTracked ==
    /\ pc = "list" => todo = left /\ failed = {} /\ removed = {} /\ still = {}
    /\ pc \in {"remove", "relist", "nil"} => left = todo \cup removed \cup failed
    /\ pc \in {"relist", "nil"} => todo = {}
    /\ pc = "remove" => phase = "containers"

RemovedIsGone == removed \cap there = {}

\* A failed object of a kind listed again is in that listing or gone.
RelistIsComplete ==
    pc = "relist" => failed \cap there \cap Listed(phase) \subseteq still

\* While nothing interferes, the listing shows what there is, every removal
\* succeeds, and what is left of the lesson is what is still to be removed.
UndisturbedRemoves ==
    ~disturbed =>
        /\ pc \in {"list", "remove", "nil"}
        /\ todo \subseteq there /\ failed = {}
        /\ pc = "list" => there \cap Ours \cap Listed(phase) \subseteq left
        /\ pc \in {"remove", "nil"} => there \cap Ours \subseteq todo

IInv ==
    /\ TypeOK
    /\ NamesAreFresh
    /\ ListedAreOurs
    /\ RemovalsAreTracked
    /\ RemovedIsGone
    /\ RelistIsComplete
    /\ UndisturbedRemoves
    /\ NilMeansListedGone

-----------------------------------------------------------------------------
(* The invariant is inductive *)

\* What the server-side filter may return, and what ownedBy keeps of it: of
\* the kind asked for, all of the lesson's objects and no other's.
LEMMA FilterLemma ==
    ASSUME NEW p \in Phases, NEW s \in Filtered(p)
    PROVE  OwnedBy(s) = there \cap KindOf(p) \cap Ours
  BY DEF Filtered, OwnedBy

\* A listing goes through the three kinds and then has seen every object.
LEMMA ListedLemma ==
    /\ Listed("volumes") = Listed("containers") \cup KindOf("containers")
    /\ Listed("networks") = Listed("volumes") \cup KindOf("volumes")
    /\ Objects = Listed("networks") \cup KindOf("networks")
  BY DEF Listed, KindOf, Objects

\* Before a sweep has listed anything the invariant holds.
LEMMA InitInv == Init => IInv
  BY SweepAssumption
     DEF Init, IInv, TypeOK, NamesAreFresh, ListedAreOurs, RemovalsAreTracked,
         RemovedIsGone, RelistIsComplete, UndisturbedRemoves, Listed, Phases,
         NilMeansListedGone

\* Other runs: a new object's name was in no listing, so a listed object that
\* is gone never comes back.
LEMMA OtherRunsStep ==
    ASSUME IInv, NEW o \in Objects, Appear(o) \/ Vanish(o)
    PROVE  IInv'
<1> USE DEF IInv, TypeOK
<1>1. UNCHANGED <<pc, phase, left, todo, failed, removed, still>> /\ disturbed'
  BY DEF Appear, Vanish
<1>2. /\ there' \subseteq there \cup {o}
      /\ o \in there' /\ o \notin there => o \in future
      /\ there' \subseteq Objects /\ future' \subseteq future
      /\ future' \cap there' = {}
  BY DEF Appear, Vanish, NamesAreFresh
<1>3. left \cap there' \subseteq there
  BY <1>2 DEF NamesAreFresh
<1>4. TypeOK' /\ NamesAreFresh' /\ ListedAreOurs' /\ RemovalsAreTracked'
  BY <1>1, <1>2 DEF NamesAreFresh, ListedAreOurs, RemovalsAreTracked
<1>5. RemovedIsGone' /\ RelistIsComplete' /\ NilMeansListedGone'
  BY <1>1, <1>3 DEF RemovedIsGone, RelistIsComplete, NilMeansListedGone, Listed
<1>6. UndisturbedRemoves'
  BY <1>1 DEF UndisturbedRemoves
<1> QED
  BY <1>4, <1>5, <1>6

\* The first listing: it keeps the lesson's objects of the kind it asked for.
LEMMA ListStep ==
    ASSUME IInv, pc = "list", ListKind
    PROVE  IInv'
<1> USE DEF IInv, TypeOK
<1> DEFINE new == there \cap KindOf(phase) \cap Ours
<1>1. left' = left \cup new
  BY FilterLemma DEF ListKind
<1>2. UNCHANGED <<there, future, failed, removed, still, disturbed>>
  BY DEF ListKind
<1>3. todo' = left'
  BY DEF ListKind
<1>4. \/ phase # "networks" /\ pc' = "list" /\ phase' = After(phase)
      \/ phase = "networks" /\ pc' = "remove" /\ phase' = "containers"
  BY DEF ListKind
<1>5. phase' \in Phases
  BY <1>4 DEF After, Phases
<1>6. TypeOK'
  BY <1>1, <1>2, <1>3, <1>4, <1>5
<1>7. NamesAreFresh' /\ ListedAreOurs' /\ RemovalsAreTracked' /\ RemovedIsGone'
  BY <1>1, <1>2, <1>3, <1>4
     DEF NamesAreFresh, ListedAreOurs, RemovalsAreTracked, RemovedIsGone
<1>8. RelistIsComplete' /\ NilMeansListedGone'
  BY <1>4 DEF RelistIsComplete, NilMeansListedGone
<1>9. UndisturbedRemoves'
  <2>1. pc' \in {"list", "remove"}
    BY <1>4
  <2>2. ~disturbed => todo' \subseteq there' /\ failed' = {}
    BY <1>1, <1>2, <1>3 DEF UndisturbedRemoves, RemovalsAreTracked
  <2>3. CASE phase # "networks"
    <3>1. Listed(phase') = Listed(phase) \cup KindOf(phase)
      BY <1>4, <2>3, ListedLemma DEF After, Phases
    <3> QED
      BY <1>1, <1>2, <1>4, <2>1, <2>2, <2>3, <3>1 DEF UndisturbedRemoves
  <2>4. CASE phase = "networks"
    BY <1>1, <1>2, <1>3, <1>4, <2>1, <2>2, <2>4, ListedLemma, SweepAssumption
       DEF UndisturbedRemoves
  <2> QED
    BY <2>3, <2>4
<1> QED
  BY <1>6, <1>7, <1>8, <1>9

\* The second listing: once it is complete, a failed object that is not in it
\* is gone, and the others were removed.
LEMMA RelistStep ==
    ASSUME IInv, pc = "relist", ListKind
    PROVE  IInv'
<1> USE DEF IInv, TypeOK
<1> DEFINE new == there \cap KindOf(phase) \cap Ours
<1>1. still' = still \cup new
  BY FilterLemma DEF ListKind
<1>2. UNCHANGED <<there, future, left, todo, failed, removed, disturbed>>
  BY DEF ListKind
<1>3. \/ phase # "networks" /\ pc' = "relist" /\ phase' = After(phase)
      \/ /\ phase = "networks" /\ phase' = "containers"
         /\ pc' = IF failed \cap still' = {} THEN "nil" ELSE "err"
  BY DEF ListKind
<1>4. phase' \in Phases
  BY <1>3 DEF After, Phases
<1>5. TypeOK'
  BY <1>1, <1>2, <1>3, <1>4, SweepAssumption
<1>6. failed \cap there \cap (Listed(phase) \cup KindOf(phase)) \subseteq still'
  BY <1>1 DEF RelistIsComplete, ListedAreOurs
<1>7. NamesAreFresh' /\ ListedAreOurs' /\ RemovalsAreTracked' /\ RemovedIsGone'
  BY <1>2, <1>3
     DEF NamesAreFresh, ListedAreOurs, RemovalsAreTracked, RemovedIsGone
<1>8. RelistIsComplete'
  <2> SUFFICES ASSUME phase # "networks", phase' = After(phase)
               PROVE  failed' \cap there' \cap Listed(phase') \subseteq still'
    BY <1>3 DEF RelistIsComplete
  <2>1. Listed(phase') = Listed(phase) \cup KindOf(phase)
    BY ListedLemma DEF After, Phases
  <2> QED
    BY <1>2, <1>6, <2>1
<1>9. NilMeansListedGone'
  <2> SUFFICES ASSUME phase = "networks", failed \cap still' = {}
               PROVE  left' \cap there' = {}
    BY <1>3 DEF NilMeansListedGone
  <2>1. failed \cap there = {}
    BY <1>6, ListedLemma
  <2> QED
    BY <1>2, <2>1 DEF RemovalsAreTracked, RemovedIsGone
<1>10. UndisturbedRemoves'
  BY <1>2 DEF UndisturbedRemoves
<1> QED
  BY <1>5, <1>7, <1>8, <1>9, <1>10

\* With nothing interfering no removal is refused: what is to be removed is on
\* the engine, and the containers that use it were removed before.
LEMMA NotRefused ==
    ASSUME IInv, pc = "remove", ~disturbed, NEW o \in Objects, IsNext(o)
    PROVE  Removable(o) /\ o \in there
<1> USE DEF IInv, TypeOK
<1>1. o \in there
  BY DEF IsNext, UndisturbedRemoves
<1>2. ASSUME o \notin Containers, NEW u \in Uses, u[2] = o, u[1] \in there
      PROVE  FALSE
  <2>1. u[1] \in Ours /\ u[1] \in Containers
    BY <1>2, SweepAssumption DEF IsNext, ListedAreOurs
  <2>2. u[1] \in todo
    BY <1>2, <2>1 DEF UndisturbedRemoves
  <2>3. Order(o) <= 1
    BY <2>1, <2>2 DEF IsNext, Order
  <2> QED
    BY <1>2, <2>3 DEF Order
<1> QED
  BY <1>1, <1>2 DEF Removable, InUse

\* The removals: each is tried once, and what it removed is gone for good.
LEMMA RemoveStep ==
    ASSUME IInv, NEW o \in Objects,
           RemoveSucceeds(o) \/ RemoveRefused(o) \/ RemoveBreaks(o)
    PROVE  IInv'
<1> USE DEF IInv, TypeOK
<1>1. /\ pc = "remove" /\ o \in todo /\ IsNext(o)
      /\ UNCHANGED <<future, pc, phase, left, still>>
      /\ todo' = todo \ {o}
  BY DEF RemoveSucceeds, RemoveRefused, RemoveBreaks, IsNext
<1>2. there' \subseteq there /\ there \ {o} \subseteq there'
  BY DEF RemoveSucceeds, RemoveRefused, RemoveBreaks
<1>3. \/ removed' = removed /\ failed' = failed \cup {o}
      \/ failed' = failed /\ removed' = removed \cup {o} /\ o \notin there'
  BY DEF RemoveSucceeds, RemoveRefused, RemoveBreaks
<1>4. disturbed' \in BOOLEAN
  BY DEF RemoveSucceeds, RemoveRefused, RemoveBreaks
<1>5. TypeOK'
  BY <1>1, <1>2, <1>3, <1>4
<1>6. NamesAreFresh' /\ ListedAreOurs' /\ RemovalsAreTracked'
  BY <1>1, <1>2, <1>3 DEF NamesAreFresh, ListedAreOurs, RemovalsAreTracked
<1>7. RemovedIsGone' /\ RelistIsComplete' /\ NilMeansListedGone'
  BY <1>1, <1>2, <1>3 DEF RemovedIsGone, RelistIsComplete, NilMeansListedGone
<1>8. UndisturbedRemoves'
  <2> SUFFICES ASSUME ~disturbed' PROVE UndisturbedRemoves'
    BY DEF UndisturbedRemoves
  <2>1. ~disturbed /\ ~RemoveBreaks(o)
    BY DEF RemoveSucceeds, RemoveRefused, RemoveBreaks
  <2>2. ~RemoveRefused(o)
    BY <1>1, <2>1, NotRefused DEF RemoveRefused
  <2>3. there' = there \ {o} /\ failed' = failed
    BY <2>1, <2>2 DEF RemoveSucceeds
  <2> QED
    BY <1>1, <2>1, <2>3 DEF UndisturbedRemoves
<1> QED
  BY <1>5, <1>6, <1>7, <1>8

\* Every step of a sweep, of the daemon and of other programs keeps it.
LEMMA InvStep == IInv /\ [Next]_vars => IInv'
<1> SUFFICES ASSUME IInv, [Next]_vars PROVE IInv'
  OBVIOUS
<1>1. CASE ListKind
  BY <1>1, ListStep, RelistStep DEF ListKind
<1>2. CASE ListFails
  BY <1>2 DEF IInv, ListFails, TypeOK, NamesAreFresh, ListedAreOurs,
              RemovalsAreTracked, RemovedIsGone, RelistIsComplete,
              UndisturbedRemoves, NilMeansListedGone
<1>3. CASE RemovalsDone
  <2>1. UNCHANGED <<there, future, phase, left, todo, failed, removed, still,
                    disturbed>>
    BY <1>3 DEF RemovalsDone
  <2>2. /\ pc = "remove" /\ todo = {}
        /\ pc' = IF failed = {} THEN "nil" ELSE "relist"
    BY <1>3 DEF RemovalsDone
  <2>3. TypeOK' /\ NamesAreFresh' /\ ListedAreOurs' /\ RemovalsAreTracked'
        /\ RemovedIsGone'
    BY <2>1, <2>2 DEF IInv, TypeOK, NamesAreFresh, ListedAreOurs,
                      RemovalsAreTracked, RemovedIsGone
  <2>4. RelistIsComplete'
    BY <2>1, <2>2 DEF IInv, RelistIsComplete, RemovalsAreTracked, Listed
  <2>5. NilMeansListedGone'
    BY <2>1, <2>2 DEF IInv, NilMeansListedGone, RemovalsAreTracked, RemovedIsGone
  <2>6. UndisturbedRemoves'
    BY <2>1, <2>2 DEF IInv, UndisturbedRemoves
  <2> QED
    BY <2>3, <2>4, <2>5, <2>6 DEF IInv
<1>4. CASE \E o \in Objects :
             RemoveSucceeds(o) \/ RemoveRefused(o) \/ RemoveBreaks(o)
  BY <1>4, RemoveStep
<1>5. CASE OtherRuns
  BY <1>5, OtherRunsStep DEF OtherRuns
<1>6. CASE UNCHANGED vars
  BY <1>6 DEF vars, IInv, TypeOK, NamesAreFresh, ListedAreOurs,
              RemovalsAreTracked, RemovedIsGone, RelistIsComplete,
              UndisturbedRemoves, NilMeansListedGone, Listed
<1> QED
  BY <1>1, <1>2, <1>3, <1>4, <1>5, <1>6 DEF Next, Sweeper

-----------------------------------------------------------------------------
(* The theorems *)

\* The invariant holds in every state of every run of Sweep.
THEOREM Invariant == Spec => []IInv
  BY InitInv, InvStep, PTL DEF Spec

\* Every variable keeps its type.
THEOREM TypeCorrect == Spec => []TypeOK
<1>1. IInv => TypeOK
  BY DEF IInv
<1> QED
  BY <1>1, Invariant, PTL

\* cleanup.go's nil: nothing the first listing found is on the engine any more,
\* although a removal that failed is forgiven when the second listing, made kind
\* by kind while other runs create and remove objects, no longer shows it.
THEOREM NilIsTrue == Spec => []NilMeansListedGone
<1>1. IInv => NilMeansListedGone
  BY DEF IInv
<1> QED
  BY <1>1, Invariant, PTL

\* Left alone, Sweep returns nil and the lesson has nothing left: containers
\* go first, so no volume or network is in use when its turn comes.
THEOREM OneSweepIsEnough == Spec => []UndisturbedSweepIsClean
<1>1. IInv => UndisturbedSweepIsClean
  BY DEF IInv, UndisturbedRemoves, UndisturbedSweepIsClean, Returned,
         RemovalsAreTracked
<1> QED
  BY <1>1, Invariant, PTL

\* Sweep removes nothing of another lesson, whatever the label filter returns:
\* it removes what it listed, and ownedBy has looked at the labels of that.
THEOREM OthersAreSafe == Spec => SweepTouchesOnlyOurs
<1>1. ASSUME IInv, [Next]_vars
      PROVE  [Sweeper => there \ there' \subseteq Ours]_vars
  <2> SUFFICES ASSUME Sweeper PROVE there \ there' \subseteq Ours
    OBVIOUS
  <2>1. CASE ListKind \/ ListFails \/ RemovalsDone
    BY <2>1 DEF ListKind, ListFails, RemovalsDone
  <2>2. ASSUME NEW o \in Objects,
               RemoveSucceeds(o) \/ RemoveRefused(o) \/ RemoveBreaks(o)
        PROVE  there \ there' \subseteq Ours
    <3>1. o \in Ours
      BY <1>1, <2>2 DEF RemoveSucceeds, RemoveRefused, RemoveBreaks, IsNext,
                        IInv, TypeOK, ListedAreOurs
    <3>2. there \ {o} \subseteq there'
      BY <2>2 DEF RemoveSucceeds, RemoveRefused, RemoveBreaks
    <3> QED
      BY <3>1, <3>2
  <2> QED
    BY <2>1, <2>2 DEF Sweeper
<1> QED
  BY <1>1, Invariant, PTL DEF Spec, SweepTouchesOnlyOurs
=============================================================================
