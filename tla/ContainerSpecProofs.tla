------------------------ MODULE ContainerSpecProofs ------------------------
(***************************************************************************)
(* Proofs about the checks around ContainerCreate, for any number of knobs *)
(* a lesson flips: every combination of the knob values, not only those    *)
(* near a preset; about the image containers are made from, for any number *)
(* of directories and paths of any length; and about the output they       *)
(* print, for texts of any length.                                         *)
(*                                                                         *)
(* A listed directory has its owner because its path sorts before every    *)
(* path it is a parent of, so its own COPY creates it.  A text comes back  *)
(* because splitting and joining undo each other piece by piece and every  *)
(* line, malformed or not, keeps its text.                                 *)
(***************************************************************************)
EXTENDS MCContainerSpec, FiniteSetTheorems, SequenceTheorems, WellFoundedInduction, TLAPS

-----------------------------------------------------------------------------
(* The inductive invariant *)

\* Every knob of the Spec has one of its values.
KnobsOk == DOMAIN spec = DOMAIN Knobs /\ \A k \in DOMAIN Knobs : spec[k] \in Knobs[k]

\* What was sent is the translated Spec and passed CheckConfig.
SentIsChecked ==
    stage \in {"sent", "recorded", "kept", "removed"} =>
        req = Request(spec) /\ Translates(spec) /\ CheckConfig(req)

\* What inspect reports is the engine's doing.
RecordedByEngine ==
    stage \in {"recorded", "kept", "removed"} =>
        got \in Faithful(req) \cup Unfaithful(req)

\* The container is handed out exactly when CheckObserved agreed.
VerdictIsCheckObserved ==
    /\ stage = "kept" => CheckObserved(got, req)
    /\ stage = "removed" => ~CheckObserved(got, req)

IInv ==
    /\ stage \in {"spec", "refused", "sent", "recorded", "kept", "removed"}
    /\ KnobsOk
    /\ SentIsChecked
    /\ RecordedByEngine
    /\ VerdictIsCheckObserved

-----------------------------------------------------------------------------
(* The invariant is inductive *)

\* Both presets give every knob one of its values.
LEMMA PresetsOk == Init => KnobsOk
<1> SUFFICES ASSUME Init PROVE KnobsOk
  OBVIOUS
<1>1. DOMAIN Knobs = {"names", "user", "groups", "mounts", "network",
                      "readOnlyRoot", "capDrop", "capAdd", "noNewPrivileges",
                      "seccomp", "pidMode", "memory", "nanoCPUs", "pidsLimit",
                      "runtime"}
  BY DEF Knobs
<1>2. DOMAIN DefaultSpec = DOMAIN Knobs /\ DOMAIN Restricted = DOMAIN Knobs
  BY <1>1 DEF DefaultSpec, Restricted
<1>3. /\ DefaultSpec.names \in Knobs.names /\ Restricted.names \in Knobs.names
      /\ DefaultSpec.user \in Knobs.user /\ Restricted.user \in Knobs.user
      /\ DefaultSpec.groups \in Knobs.groups /\ Restricted.groups \in Knobs.groups
      /\ DefaultSpec.network \in Knobs.network /\ Restricted.network \in Knobs.network
      /\ DefaultSpec.seccomp \in Knobs.seccomp /\ Restricted.seccomp \in Knobs.seccomp
      /\ DefaultSpec.pidMode \in Knobs.pidMode /\ Restricted.pidMode \in Knobs.pidMode
      /\ DefaultSpec.runtime \in Knobs.runtime /\ Restricted.runtime \in Knobs.runtime
  BY DEF DefaultSpec, Restricted, Knobs
<1>4. /\ DefaultSpec.readOnlyRoot \in Knobs.readOnlyRoot /\ Restricted.readOnlyRoot \in Knobs.readOnlyRoot
      /\ DefaultSpec.noNewPrivileges \in Knobs.noNewPrivileges /\ Restricted.noNewPrivileges \in Knobs.noNewPrivileges
  BY DEF DefaultSpec, Restricted, Knobs
<1>5. /\ DefaultSpec.memory \in Knobs.memory /\ Restricted.memory \in Knobs.memory
      /\ DefaultSpec.nanoCPUs \in Knobs.nanoCPUs /\ Restricted.nanoCPUs \in Knobs.nanoCPUs
      /\ DefaultSpec.pidsLimit \in Knobs.pidsLimit /\ Restricted.pidsLimit \in Knobs.pidsLimit
  BY DEF DefaultSpec, Restricted, Knobs
<1>6. /\ DefaultSpec.mounts \in Knobs.mounts /\ Restricted.mounts \in Knobs.mounts
  BY DEF DefaultSpec, Restricted, Knobs
<1>7. /\ DefaultSpec.capDrop \in Knobs.capDrop /\ Restricted.capDrop \in Knobs.capDrop
      /\ DefaultSpec.capAdd \in Knobs.capAdd /\ Restricted.capAdd \in Knobs.capAdd
  BY DEF DefaultSpec, Restricted, Knobs
<1>8. \A k \in DOMAIN Knobs : DefaultSpec[k] \in Knobs[k] /\ Restricted[k] \in Knobs[k]
  BY <1>1, <1>3, <1>4, <1>5, <1>6, <1>7
<1> QED
  BY <1>2, <1>8 DEF Init, KnobsOk

\* One step per action; only Flip touches the Spec.
LEMMA InvStep == IInv /\ [Next]_vars => IInv'
<1> SUFFICES ASSUME IInv, [Next]_vars PROVE IInv'
  OBVIOUS
<1> USE DEF IInv
<1>1. CASE Flip
  <2>1. KnobsOk'
    BY <1>1 DEF Flip, KnobsOk
  <2>2. UNCHANGED <<stage, req, got>> /\ stage = "spec"
    BY <1>1 DEF Flip
  <2> QED
    BY <2>1, <2>2 DEF SentIsChecked, RecordedByEngine, VerdictIsCheckObserved
<1>2. CASE Send
  BY <1>2 DEF Send, KnobsOk, SentIsChecked, RecordedByEngine, VerdictIsCheckObserved
<1>3. CASE Refuse
  BY <1>3 DEF Refuse, KnobsOk, SentIsChecked, RecordedByEngine, VerdictIsCheckObserved
<1>4. CASE EngineRecords
  BY <1>4 DEF EngineRecords, KnobsOk, SentIsChecked, RecordedByEngine,
              VerdictIsCheckObserved
<1>5. CASE Decide
  BY <1>5 DEF Decide, KnobsOk, SentIsChecked, RecordedByEngine, VerdictIsCheckObserved
<1>6. CASE UNCHANGED vars
  BY <1>6 DEF vars, KnobsOk, SentIsChecked, RecordedByEngine, VerdictIsCheckObserved
<1> QED
  BY <1>1, <1>2, <1>3, <1>4, <1>5, <1>6 DEF Next

\* The inductive invariant holds in every reachable state.
THEOREM Invariant == Spec => []IInv
<1>1. Init => IInv
  BY PresetsOk DEF Init, IInv, SentIsChecked, RecordedByEngine, VerdictIsCheckObserved
<1> QED
  BY <1>1, InvStep, PTL DEF Spec

-----------------------------------------------------------------------------
(* The theorems *)

\* Translate refuses everything CheckConfig would: for every Spec whatever, a
\* request that Translate makes passes CheckConfig.
THEOREM TranslateIsStricter == ASSUME NEW s PROVE Translates(s) => CheckConfig(Request(s))
<1> SUFFICES ASSUME Translates(s) PROVE CheckConfig(Request(s))
  OBVIOUS
<1>1. noDockerSocket(Request(s))
  BY DEF noDockerSocket, Request, Translates, GoodMount
<1>2. neverPrivileged(Request(s))
  BY DEF neverPrivileged, Request, Translates
<1>3. swapPinned(Request(s))
  BY DEF swapPinned, Request
<1>4. "path" \notin Request(s).securityOpt
  BY DEF Request, SecurityOpt, Translates
<1>5. Request(s).name = "trinkets" /\ {"harness", "lesson"} \subseteq Request(s).labels
  BY DEF Request
<1> QED
  BY <1>1, <1>2, <1>3, <1>4, <1>5 DEF CheckConfig

\* In every state of a lesson's choosing the two checks agree.
THEOREM TranslationIsAdmissible == Spec => []TranslatedIsAdmissible
<1>1. TranslatedIsAdmissible
  BY TranslateIsStricter DEF TranslatedIsAdmissible
<1> QED
  BY <1>1, PTL

\* What the engine may make of a field that is empty in the request, and of an
\* empty list: Faithful taken apart.
Fill(v, defaults) == IF v = "" THEN defaults ELSE {v}
FillList(l) == IF l.caps = {} THEN {l, NilCaps} ELSE {l}

Filled(r, u, n, t, d) ==
    [r EXCEPT !.user = u, !.network = n, !.runtime = t, !.capDrop = d]

FilledIn(r) ==
    {Filled(r, u, n, t, d) :
        u \in Fill(r.user, {"", "worker", "root"}),
        n \in Fill(r.network, {"", "bridge", "default"}),
        t \in Fill(r.runtime, {"runc"}),
        d \in FillList(r.capDrop)}

\* The two forms are the same.
LEMMA FaithfulIsFilledIn == ASSUME NEW r PROVE Faithful(r) = FilledIn(r)
  BY DEF Faithful, FilledIn, Filled, Fill, FillList

\* The records of a faithful engine are the request with those fields filled in.
LEMMA FaithfulFillsIn ==
    ASSUME NEW r, NEW g \in Faithful(r)
    PROVE  \E u \in Fill(r.user, {"", "worker", "root"}),
              n \in Fill(r.network, {"", "bridge", "default"}),
              t \in Fill(r.runtime, {"runc"}),
              d \in FillList(r.capDrop) : g = Filled(r, u, n, t, d)
<1> DEFINE U == Fill(r.user, {"", "worker", "root"})
           N == Fill(r.network, {"", "bridge", "default"})
           T == Fill(r.runtime, {"runc"})
           D == FillList(r.capDrop)
           F(u, n, t, d) == Filled(r, u, n, t, d)
<1>1. Faithful(r) = FilledIn(r)
  BY FaithfulIsFilledIn
<1>2. FilledIn(r) = {F(u, n, t, d) : u \in U, n \in N, t \in T, d \in D}
  BY DEF FilledIn
<1> HIDE DEF U, N, T, D, F
<1>3. \E u \in U, n \in N, t \in T, d \in D : g = F(u, n, t, d)
  BY <1>1, <1>2
<1> QED
  BY <1>3 DEF U, N, T, D, F

\* A faithful engine records the request but for the fields it fills in.
LEMMA FaithfulFields ==
    ASSUME NEW s, NEW g \in Faithful(Request(s))
    PROVE  LET r == Request(s)
           IN  /\ \A f \in Compared \cup {"labels", "privileged", "capAdd"} : g[f] = r[f]
               /\ g.user \in (IF r.user = "" THEN {"", "worker", "root"} ELSE {r.user})
               /\ g.network \in (IF r.network = "" THEN {"", "bridge", "default"}
                                  ELSE {r.network})
               /\ g.runtime \in (IF r.runtime = "" THEN {"runc"} ELSE {r.runtime})
               /\ g.capDrop \in (IF r.capDrop.caps = {} THEN {r.capDrop, NilCaps}
                                  ELSE {r.capDrop})
<1> DEFINE r == Request(s)
<1>1. PICK u \in Fill(r.user, {"", "worker", "root"}),
           n \in Fill(r.network, {"", "bridge", "default"}),
           t \in Fill(r.runtime, {"runc"}),
           d \in FillList(r.capDrop) : g = Filled(r, u, n, t, d)
  BY FaithfulFillsIn
<1>2. {"user", "network", "runtime", "capDrop"} \subseteq DOMAIN r
  BY DEF Request
<1>3. Compared \cup {"labels", "privileged", "capAdd"} \subseteq DOMAIN r
  BY DEF Request, Compared
<1> HIDE DEF r
<1>4. g.user = u /\ g.network = n /\ g.runtime = t /\ g.capDrop = d
  BY <1>1, <1>2 DEF Filled
<1>5. \A f \in Compared \cup {"labels", "privileged", "capAdd"} : g[f] = r[f]
  BY <1>1, <1>3 DEF Compared, Filled
<1> QED
  BY <1>1, <1>4, <1>5 DEF r, Fill, FillList

\* Whatever the engine did, inspect's drop list is the requested one or nil, and
\* its add list the requested one or a list with a capability in it.
LEMMA ListsRecorded ==
    ASSUME NEW s, NEW g \in Faithful(Request(s)) \cup Unfaithful(Request(s))
    PROVE  /\ g.capDrop \in {Request(s).capDrop, NilCaps}
           /\ g.capAdd \in {Request(s).capAdd, CapList({Cap("CHOWN", TRUE, TRUE)})}
<1> DEFINE r == Request(s)
<1>1. CASE g \in Faithful(r)
  BY <1>1, FaithfulFields
<1>2. CASE g \in Unfaithful(r)
  <2>1. PICK f \in DOMAIN Wrong : \E v \in Wrong[f] : g = [r EXCEPT ![f] = v]
    BY <1>2 DEF Unfaithful
  <2>2. CASE f = "capDrop"
    BY <2>1, <2>2, ZenonT(60) DEF Wrong, Request
  <2>3. CASE f = "capAdd"
    BY <2>1, <2>3, ZenonT(60) DEF Wrong, Request
  <2>4. CASE f \notin {"capDrop", "capAdd"}
    BY <2>1, <2>4 DEF Request
  <2> QED
    BY <2>2, <2>3, <2>4
<1> QED
  BY <1>1, <1>2

\* What CheckObserved lets through keeps the config invariants.
LEMMA ObservedKeepsConfig ==
    ASSUME NEW s, NEW r, r = Request(s), CheckConfig(r), NEW g, CheckObserved(g, r)
    PROVE  CheckConfig(g)
<1>1. /\ g.binds = r.binds /\ g.mounts = r.mounts
      /\ g.memory = r.memory /\ g.memorySwap = r.memorySwap
  BY DEF CheckObserved, Compared
<1>2. noDockerSocket(g)
  BY <1>1 DEF noDockerSocket, CheckConfig
<1>3. neverPrivileged(g)
  BY DEF CheckObserved
<1>4. swapPinned(g)
  BY <1>1 DEF swapPinned, CheckConfig
<1>5. g.name = "trinkets" /\ {"harness", "lesson"} \subseteq g.labels
  BY DEF CheckObserved, Compared, CheckConfig
<1>6. "path" \notin g.securityOpt
  BY DEF CheckObserved, Compared, CheckConfig
<1> QED
  BY <1>2, <1>3, <1>4, <1>5, <1>6 DEF CheckConfig

\* normalizeCaps neither loses the last capability nor makes one up.
LEMMA NormalizedEmptiness ==
    ASSUME NEW l, "caps" \in DOMAIN l
    PROVE  /\ "caps" \in DOMAIN normalizeCaps(l)
           /\ normalizeCaps(l).caps = {} <=> l.caps = {}
<1>1. /\ "caps" \in DOMAIN normalizeCaps(l)
      /\ normalizeCaps(l).caps
            = {Cap(c.word, c.word # "ALL" \/ c.prefixed, TRUE) : c \in l.caps}
  BY DEF normalizeCaps
<1> QED
  BY <1>1

\* What CheckObserved lets through for a restricted request is restricted.
LEMMA ObservedKeepsRestriction ==
    ASSUME NEW s, "caps" \in DOMAIN s.capDrop, "caps" \in DOMAIN s.capAdd,
           NEW r, r = Request(s), IsRestricted(r),
           NEW g \in Faithful(r) \cup Unfaithful(r), CheckObserved(g, r)
    PROVE  IsRestricted(g)
<1>1. /\ g.readonlyRootfs = r.readonlyRootfs /\ g.securityOpt = r.securityOpt
      /\ g.pidMode = r.pidMode /\ g.ipcMode = r.ipcMode
      /\ g.cgroupnsMode = r.cgroupnsMode /\ g.memory = r.memory
      /\ g.nanoCPUs = r.nanoCPUs /\ g.pidsLimit = r.pidsLimit
  BY DEF CheckObserved, Compared
<1>2. g.user = "worker" /\ g.network = "none"
  BY DEF CheckObserved, IsRestricted
<1>3. /\ g.capDrop \in {r.capDrop, NilCaps}
      /\ g.capAdd \in {r.capAdd, CapList({Cap("CHOWN", TRUE, TRUE)})}
  BY ListsRecorded
<1>4. r.capDrop = normalizeCaps(s.capDrop) /\ r.capAdd = normalizeCaps(s.capAdd)
  BY DEF Request
<1>5. "caps" \in DOMAIN r.capDrop /\ "caps" \in DOMAIN r.capAdd
  BY <1>4, NormalizedEmptiness
<1>6. ALL \in r.capDrop.caps /\ r.capAdd.caps = {}
  BY DEF IsRestricted
<1>7. g.capDrop # NilCaps
  <2>1. "caps" \in DOMAIN NilCaps /\ NilCaps.caps = {}
    BY DEF NilCaps
  <2>2. normalizeCaps(NilCaps).caps = {} /\ normalizeCaps(r.capDrop).caps # {}
    BY <1>5, <1>6, <2>1, NormalizedEmptiness
  <2> QED
    BY <2>2 DEF CheckObserved
<1>8. g.capAdd = r.capAdd
  <2> DEFINE chown == CapList({Cap("CHOWN", TRUE, TRUE)})
  <2>1. "caps" \in DOMAIN chown /\ chown.caps # {}
    BY DEF CapList
  <2> HIDE DEF chown
  <2>2. normalizeCaps(chown).caps # {} /\ normalizeCaps(r.capAdd).caps = {}
    BY <1>5, <1>6, <2>1, NormalizedEmptiness
  <2>3. g.capAdd # chown
    BY <2>2 DEF CheckObserved
  <2> QED
    BY <1>3, <2>3 DEF chown
<1> QED
  BY <1>1, <1>2, <1>3, <1>6, <1>7, <1>8 DEF IsRestricted

\* The capability lists of every Spec are nil or lists.
LEMMA SpecLists ==
    ASSUME KnobsOk
    PROVE  /\ spec.capDrop = NilCaps \/ \E S : spec.capDrop = CapList(S)
           /\ "caps" \in DOMAIN spec.capDrop /\ "caps" \in DOMAIN spec.capAdd
<1>1. spec.capDrop \in Knobs.capDrop /\ spec.capAdd \in Knobs.capAdd
  BY DEF KnobsOk, Knobs
<1>2. \A l \in Knobs.capDrop \cup Knobs.capAdd : l = NilCaps \/ \E S : l = CapList(S)
  <2>1. \A l \in Knobs.capDrop : l = NilCaps \/ \E S : l = CapList(S)
    BY DEF Knobs
  <2>2. \A l \in Knobs.capAdd : l = NilCaps \/ \E S : l = CapList(S)
    BY DEF Knobs
  <2> QED
    BY <2>1, <2>2
<1>3. "caps" \in DOMAIN NilCaps /\ \A S : "caps" \in DOMAIN CapList(S)
  BY DEF NilCaps, CapList
<1> QED
  BY <1>1, <1>2, <1>3

\* For every Spec and every wrong field of the engine's record: a container that
\* is handed out keeps the config invariants, and a restricted request is handed
\* out as a restricted container.
THEOREM KeptContainersAreAsIntended == Spec => []KeptIsAsIntended
<1>1. IInv => KeptIsAsIntended
  BY ObservedKeepsConfig, ObservedKeepsRestriction, SpecLists
     DEF IInv, SentIsChecked, RecordedByEngine, VerdictIsCheckObserved, KeptIsAsIntended
<1> QED
  BY <1>1, Invariant, PTL

\* No false alarm but one, for every Spec: a container a faithful engine
\* recorded is removed again exactly when the engine turned an empty list of
\* dropped capabilities into nil.
THEOREM NoFalseAlarm == Spec => []FaithfulIsKept
<1>1. IInv => FaithfulIsKept
  <2> SUFFICES ASSUME IInv, stage \in {"kept", "removed"}, got \in Faithful(req)
               PROVE  ~CheckObserved(got, req) <=>
                          req.capDrop = CapList({}) /\ got.capDrop = NilCaps
    BY DEF IInv, VerdictIsCheckObserved, FaithfulIsKept
  <2>1. req = Request(spec) /\ CheckConfig(req)
    BY DEF IInv, SentIsChecked
  <2>2. /\ \A f \in Compared \cup {"labels", "privileged", "capAdd"} : got[f] = req[f]
        /\ got.user \in (IF req.user = "" THEN {"", "worker", "root"} ELSE {req.user})
        /\ got.network \in (IF req.network = "" THEN {"", "bridge", "default"}
                             ELSE {req.network})
        /\ got.runtime \in (IF req.runtime = "" THEN {"runc"} ELSE {req.runtime})
        /\ got.capDrop \in (IF req.capDrop.caps = {} THEN {req.capDrop, NilCaps}
                             ELSE {req.capDrop})
    BY <2>1, FaithfulFields
  <2>3. got.capDrop = req.capDrop \/ (req.capDrop = CapList({}) /\ got.capDrop = NilCaps)
    <3>1. /\ spec.capDrop = NilCaps \/ \E S : spec.capDrop = CapList(S)
          /\ "caps" \in DOMAIN spec.capDrop
          /\ req.capDrop = normalizeCaps(spec.capDrop)
      BY <2>1, SpecLists DEF IInv, Request
    <3>2. CASE req.capDrop.caps = {}
      <4>1. spec.capDrop.caps = {}
        BY <3>1, <3>2, NormalizedEmptiness
      <4>2. spec.capDrop \in {NilCaps, CapList({})}
        <5>1. ASSUME NEW S, spec.capDrop = CapList(S) PROVE spec.capDrop = CapList({})
          <6>1. S = {}
            BY <4>1, <5>1 DEF CapList
          <6> QED
            BY <5>1, <6>1
        <5> QED
          BY <3>1, <5>1
      <4>3. req.capDrop \in {NilCaps, CapList({})}
        <5>1. normalizeCaps(NilCaps) = NilCaps
          BY DEF normalizeCaps, NilCaps
        <5>2. normalizeCaps(CapList({})) = CapList({})
          BY DEF normalizeCaps, CapList
        <5> QED
          BY <3>1, <4>2, <5>1, <5>2
      <4> QED
        BY <2>2, <3>2, <4>3
    <3> QED
      BY <2>2, <3>2
  <2>4. neverPrivileged(got)
    <3>1. /\ got.privileged = req.privileged /\ got.pidMode = req.pidMode
          /\ got.ipcMode = req.ipcMode /\ got.utsMode = req.utsMode
          /\ got.usernsMode = req.usernsMode /\ got.cgroupnsMode = req.cgroupnsMode
      BY <2>2 DEF Compared
    <3>2. got.network # "host"
      BY <2>1, <2>2 DEF CheckConfig, neverPrivileged
    <3> QED
      BY <2>1, <3>1, <3>2 DEF CheckConfig, neverPrivileged
  <2>5. got.labels = req.labels /\ got.capAdd = req.capAdd
    BY <2>2
  <2>6. /\ NilCaps # CapList({})
        /\ normalizeCaps(NilCaps) # normalizeCaps(CapList({}))
    <3>1. NilCaps.nil = TRUE /\ CapList({}).nil = FALSE
      BY DEF NilCaps, CapList
    <3>2. normalizeCaps(NilCaps).nil = TRUE /\ normalizeCaps(CapList({})).nil = FALSE
      BY DEF normalizeCaps, NilCaps, CapList
    <3> QED
      BY <3>1, <3>2
  <2>7. CASE got.capDrop = req.capDrop
    <3>1. CheckObserved(got, req)
      BY <2>2, <2>4, <2>5, <2>7 DEF CheckObserved
    <3> QED
      BY <2>6, <2>7, <3>1
  <2>8. CASE req.capDrop = CapList({}) /\ got.capDrop = NilCaps
    <3>1. ~CheckObserved(got, req)
      BY <2>6, <2>8 DEF CheckObserved
    <3> QED
      BY <2>8, <3>1
  <2> QED
    BY <2>3, <2>7, <2>8
<1> QED
  BY <1>1, Invariant, PTL

-----------------------------------------------------------------------------
(* The order of the paths *)

\* The naturals are well-ordered.
LEMMA LeastElement ==
    ASSUME NEW T, T \subseteq Nat, T # {}
    PROVE  \E n \in T : \A m \in T : n <= m
<1> DEFINE LT == {p \in Nat \X Nat : p[1] < p[2]}
<1>1. IsWellFoundedOn(LT, Nat)
  BY NatLessThanWellFounded DEF OpToRel
<1>2. \A m, n \in Nat : m < n => <<m, n>> \in LT
  OBVIOUS
<1> HIDE DEF LT
<1>3. PICK n \in T : \A m \in T : ~(<<m, n>> \in LT)
  BY <1>1, WFMin
<1>4. ASSUME NEW m \in T PROVE n <= m
  <2>1. m \in Nat /\ n \in Nat
    OBVIOUS
  <2>2. ~(m < n)
    BY <1>2, <1>3, <2>1
  <2> QED
    BY <2>1, <2>2
<1> QED
  BY <1>4

\* p and q agree on m bytes, and there p ends or has the smaller byte.
BelowAt(p, q, m) ==
    /\ m \in Nat /\ m <= Len(p) /\ m < Len(q)
    /\ \A j \in 1..m : p[j] = q[j]
    /\ m = Len(p) \/ p[m + 1] < q[m + 1]

\* The smaller of two lengths.
LEMMA MinOfTwo ==
    ASSUME NEW a \in Nat, NEW b \in Nat
    PROVE  Min({a, b}) \in Nat /\ Min({a, b}) <= a /\ Min({a, b}) <= b
           /\ Min({a, b}) \in {a, b}
<1>1. \E x \in {a, b} : \A y \in {a, b} : x <= y
  OBVIOUS
<1>2. Min({a, b}) \in {a, b} /\ \A y \in {a, b} : Min({a, b}) <= y
  BY <1>1 DEF Min
<1> QED
  BY <1>2

\* What IsPrefix says, byte by byte.
LEMMA PrefixByByte ==
    ASSUME NEW S, NEW p \in Seq(S), NEW q \in Seq(S)
    PROVE  IsPrefix(p, q) <=> Len(p) <= Len(q) /\ \A j \in 1..Len(p) : p[j] = q[j]
<1>1. SubSeq(p, 1, Len(p)) = p
  OBVIOUS
<1>2. ASSUME Len(p) <= Len(q)
      PROVE  /\ SubSeq(q, 1, Len(p)) \in Seq(S)
             /\ Len(SubSeq(q, 1, Len(p))) = Len(p)
             /\ \A j \in 1..Len(p) : SubSeq(q, 1, Len(p))[j] = q[j]
  BY <1>2
<1>3. ASSUME Len(p) <= Len(q), \A j \in 1..Len(p) : p[j] = q[j]
      PROVE  SubSeq(q, 1, Len(p)) = p
  <2>1. \A j \in 1..Len(p) : SubSeq(q, 1, Len(p))[j] = p[j]
    BY <1>2, <1>3
  <2> QED
    BY <1>2, <1>3, <2>1, SeqEqual
<1> QED
  BY <1>1, <1>2, <1>3 DEF IsPrefix

\* Below compares the first byte that differs.
LEMMA BelowMeans ==
    ASSUME NEW p \in Seq(Int), NEW q \in Seq(Int)
    PROVE  Below(p, q) <=> \E m \in Nat : BelowAt(p, q, m)
<1>1. Len(p) \in Nat /\ Len(q) \in Nat
  OBVIOUS
<1> DEFINE M == Min({Len(p), Len(q)})
<1>2. M \in Nat /\ M <= Len(p) /\ M <= Len(q) /\ M \in {Len(p), Len(q)}
  BY <1>1, MinOfTwo
<1> HIDE DEF M
<1>3. ASSUME IsStrictPrefix(p, q) PROVE BelowAt(p, q, Len(p))
  <2>1. Len(p) <= Len(q) /\ \A j \in 1..Len(p) : p[j] = q[j]
    BY <1>3, PrefixByByte DEF IsStrictPrefix
  <2>2. p # q
    BY <1>3 DEF IsStrictPrefix
  <2>3. Len(p) # Len(q)
    BY <2>1, <2>2, SeqEqual
  <2> QED
    BY <1>1, <2>1, <2>3 DEF BelowAt
<1>4. ASSUME NEW i \in 1..M, p[i] < q[i], \A j \in 1..(i - 1) : p[j] = q[j]
      PROVE  BelowAt(p, q, i - 1)
  BY <1>1, <1>2, <1>4 DEF BelowAt
<1>5. ASSUME NEW m \in Nat, BelowAt(p, q, m) PROVE Below(p, q)
  <2>1. CASE m = Len(p)
    <3>1. IsPrefix(p, q)
      BY <1>5, <2>1, PrefixByByte DEF BelowAt
    <3>2. p # q
      BY <1>1, <1>5, <2>1 DEF BelowAt
    <3> QED
      BY <3>1, <3>2 DEF Below, IsStrictPrefix
  <2>2. CASE m # Len(p)
    <3>1. m + 1 \in 1..M
      BY <1>1, <1>2, <1>5, <2>2 DEF BelowAt
    <3>2. p[m + 1] < q[m + 1] /\ \A j \in 1..((m + 1) - 1) : p[j] = q[j]
      BY <1>5, <2>2 DEF BelowAt
    <3> QED
      BY <3>1, <3>2 DEF Below, M
  <2> QED
    BY <2>1, <2>2
<1>6. Below(p, q) => \E m \in Nat : BelowAt(p, q, m)
  <2> SUFFICES ASSUME Below(p, q) PROVE \E m \in Nat : BelowAt(p, q, m)
    OBVIOUS
  <2>1. IsStrictPrefix(p, q) \/ \E i \in 1..M : p[i] < q[i] /\ \A j \in 1..(i - 1) : p[j] = q[j]
    BY DEF Below, M
  <2>2. \A i \in 1..M : i - 1 \in Nat
    BY <1>2
  <2> QED
    BY <1>1, <1>3, <1>4, <2>1, <2>2
<1> QED
  BY <1>5, <1>6

\* Two different paths are ordered.
LEMMA BelowIsTotal ==
    ASSUME NEW p \in Seq(Int), NEW q \in Seq(Int), p # q
    PROVE  Below(p, q) \/ Below(q, p)
<1>1. Len(p) \in Nat /\ Len(q) \in Nat
  OBVIOUS
<1> DEFINE T == {i \in Nat : i >= 1 /\ i <= Len(p) /\ i <= Len(q) /\ p[i] # q[i]}
<1>2. CASE T = {}
  <2>1. \A j \in Nat : j >= 1 /\ j <= Len(p) /\ j <= Len(q) => p[j] = q[j]
    BY <1>2
  <2>2. Len(p) # Len(q)
    <3> SUFFICES ASSUME Len(p) = Len(q) PROVE FALSE
      OBVIOUS
    <3>1. \A j \in 1..Len(p) : p[j] = q[j]
      BY <1>1, <2>1
    <3> QED
      BY <3>1, SeqEqual
  <2>3. BelowAt(p, q, Len(p)) \/ BelowAt(q, p, Len(q))
    <3>1. CASE Len(p) < Len(q)
      BY <1>1, <2>1, <3>1 DEF BelowAt
    <3>2. CASE Len(q) < Len(p)
      BY <1>1, <2>1, <3>2 DEF BelowAt
    <3> QED
      BY <1>1, <2>2, <3>1, <3>2
  <2> QED
    BY <1>1, <2>3, BelowMeans
<1>3. CASE T # {}
  <2>1. PICK n \in T : \A m \in T : n <= m
    BY <1>3, LeastElement
  <2>2. n \in Nat /\ n >= 1 /\ n <= Len(p) /\ n <= Len(q) /\ p[n] # q[n]
    OBVIOUS
  <2>3. ASSUME NEW j \in 1..(n - 1) PROVE p[j] = q[j]
    <3>1. j \in Nat /\ j >= 1 /\ j <= Len(p) /\ j <= Len(q) /\ ~(n <= j)
      BY <1>1, <2>2
    <3>2. j \notin T
      BY <2>1, <3>1
    <3> QED
      BY <3>1, <3>2
  <2>4. p[n] \in Int /\ q[n] \in Int
    BY <2>2
  <2>5. BelowAt(p, q, n - 1) \/ BelowAt(q, p, n - 1)
    BY <1>1, <2>2, <2>3, <2>4 DEF BelowAt
  <2> QED
    BY <2>2, <2>5, BelowMeans
<1> QED
  BY <1>2, <1>3

\* No path is below itself.
LEMMA BelowIsStrict ==
    ASSUME NEW p \in Seq(Int)
    PROVE  ~Below(p, p)
<1> SUFFICES ASSUME NEW m \in Nat, BelowAt(p, p, m) PROVE FALSE
  BY BelowMeans
<1>1. m < Len(p) /\ p[m + 1] < p[m + 1]
  BY DEF BelowAt
<1>2. p[m + 1] \in Int
  BY <1>1
<1> QED
  BY <1>1, <1>2

\* The order is transitive.
LEMMA BelowIsTransitive ==
    ASSUME NEW p \in Seq(Int), NEW q \in Seq(Int), NEW r \in Seq(Int),
           Below(p, q), Below(q, r)
    PROVE  Below(p, r)
<1>1. PICK m \in Nat : BelowAt(p, q, m)
  BY BelowMeans
<1>2. PICK n \in Nat : BelowAt(q, r, n)
  BY BelowMeans
<1>3. Len(p) \in Nat /\ Len(q) \in Nat /\ Len(r) \in Nat
  OBVIOUS
<1>4. \A i \in Nat : /\ i >= 1 /\ i <= Len(p) => p[i] \in Int
                     /\ i >= 1 /\ i <= Len(q) => q[i] \in Int
                     /\ i >= 1 /\ i <= Len(r) => r[i] \in Int
  OBVIOUS
<1>5. CASE m < n
  <2>1. /\ m <= Len(p) /\ m < Len(r) /\ \A j \in 1..m : p[j] = q[j] /\ q[j] = r[j]
    BY <1>1, <1>2, <1>3, <1>5, SMTT(30) DEF BelowAt
  <2>2. m = Len(p) \/ p[m + 1] < q[m + 1]
    BY <1>1 DEF BelowAt
  <2>3. q[m + 1] = r[m + 1]
    BY <1>2, <1>5 DEF BelowAt
  <2>4. BelowAt(p, r, m)
    BY <2>1, <2>2, <2>3 DEF BelowAt
  <2> QED
    BY <2>4, BelowMeans
<1>6. CASE m = n
  <2>1. /\ m <= Len(p) /\ m < Len(r) /\ \A j \in 1..m : p[j] = q[j] /\ q[j] = r[j]
    BY <1>1, <1>2, <1>3, <1>6 DEF BelowAt
  <2>2. m = Len(p) \/ (m < Len(p) /\ p[m + 1] < q[m + 1])
    BY <1>1, <1>3 DEF BelowAt
  <2>3. m < Len(q) /\ q[m + 1] < r[m + 1]
    BY <1>1, <1>2, <1>3, <1>6 DEF BelowAt
  <2>4. m = Len(p) \/ p[m + 1] < r[m + 1]
    <3>1. ASSUME m < Len(p), p[m + 1] < q[m + 1] PROVE p[m + 1] < r[m + 1]
      <4>1. p[m + 1] \in Int /\ q[m + 1] \in Int /\ r[m + 1] \in Int
        BY <1>3, <1>4, <2>1, <2>3, <3>1
      <4> QED
        BY <2>3, <3>1, <4>1
    <3> QED
      BY <2>2, <3>1
  <2>5. BelowAt(p, r, m)
    BY <2>1, <2>4 DEF BelowAt
  <2> QED
    BY <2>5, BelowMeans
<1>7. CASE n < m
  <2>1. /\ n < Len(p) /\ n < Len(r) /\ \A j \in 1..n : p[j] = q[j] /\ q[j] = r[j]
    <3>1. n < Len(p) /\ n < Len(r)
      BY <1>1, <1>2, <1>3, <1>7 DEF BelowAt
    <3>2. \A j \in 1..m : p[j] = q[j]
      BY <1>1 DEF BelowAt
    <3>3. \A j \in 1..n : q[j] = r[j]
      BY <1>2 DEF BelowAt
    <3>4. 1..n \subseteq 1..m
      BY <1>7
    <3> QED
      BY <3>1, <3>2, <3>3, <3>4
  <2>2. q[n + 1] < r[n + 1]
    BY <1>1, <1>2, <1>3, <1>7 DEF BelowAt
  <2>3. p[n + 1] = q[n + 1]
    BY <1>1, <1>7 DEF BelowAt
  <2>4. BelowAt(p, r, n)
    BY <2>1, <2>2, <2>3 DEF BelowAt
  <2> QED
    BY <2>4, BelowMeans
<1> QED
  BY <1>5, <1>6, <1>7

\* A path is never above a path it begins with: a parent sorts first.
LEMMA ParentSortsFirst ==
    ASSUME NEW q \in Seq(Int), NEW n \in Nat, n < Len(q)
    PROVE  ~Below(q, SubSeq(q, 1, n))
<1> DEFINE p == SubSeq(q, 1, n)
<1>1. p \in Seq(Int) /\ Len(p) = n /\ \A j \in 1..n : p[j] = q[j]
  OBVIOUS
<1> HIDE DEF p
<1>2. ASSUME NEW m \in Nat, BelowAt(q, p, m) PROVE FALSE
  <2>1. m < n /\ q[m + 1] < p[m + 1]
    BY <1>1, <1>2 DEF BelowAt
  <2>2. p[m + 1] = q[m + 1] /\ q[m + 1] \in Int
    BY <1>1, <2>1
  <2> QED
    BY <2>1, <2>2
<1>3. ~Below(q, p)
  BY <1>1, <1>2, BelowMeans
<1> QED
  BY <1>3 DEF p

-----------------------------------------------------------------------------
(* The sorted directories *)

Dirs == [path : Seq(Int), id : {OwnerId, -1}]

\* No path is listed twice, as validate asks for.
DistinctPaths(ds) == \A i, j \in 1..Len(ds) : i # j => ds[i].path # ds[j].path

\* Directories of distinct paths can be sorted: each goes behind those below it.
LEMMA SortExists ==
    ASSUME NEW ds \in Seq(Dirs), DistinctPaths(ds)
    PROVE  \E s \in [1..Len(ds) -> ToSet(ds)] :
               /\ ToSet(s) = ToSet(ds)
               /\ \A i, j \in 1..Len(ds) : i < j => Below(s[i].path, s[j].path)
<1>1. PICK n \in Nat : n = Len(ds)
  OBVIOUS
<1> DEFINE lower(i) == {j \in 1..n : Below(ds[j].path, ds[i].path)}
           r == [i \in 1..n |-> Cardinality(lower(i)) + 1]
<1>2. \A i \in 1..n : ds[i] \in Dirs /\ ds[i].path \in Seq(Int)
  <2>1. \A i \in 1..n : ds[i] \in Dirs
    BY <1>1
  <2> QED
    BY <2>1 DEF Dirs
<1>3. \A i, j \in 1..n : i # j => ds[i].path # ds[j].path
  BY <1>1 DEF DistinctPaths
<1>4. IsFiniteSet(1..n) /\ Cardinality(1..n) = n
  <2>1. /\ IsFiniteSet(1..n)
        /\ Cardinality(1..n) = IF 1 > n THEN 0 ELSE n - 1 + 1
    BY FS_Interval, 1 \in Int, n \in Int
  <2> QED
    BY <2>1
<1>5. ASSUME NEW i \in 1..n
      PROVE  /\ lower(i) \subseteq 1..n /\ i \notin lower(i)
             /\ IsFiniteSet(lower(i)) /\ Cardinality(lower(i)) \in Nat
             /\ Cardinality(lower(i)) < n
  <2>1. lower(i) \subseteq 1..n
    OBVIOUS
  <2>2. i \notin lower(i)
    BY <1>2, BelowIsStrict
  <2> HIDE DEF lower
  <2>3. IsFiniteSet(lower(i)) /\ Cardinality(lower(i)) <= n
        /\ (Cardinality(lower(i)) = n => lower(i) = 1..n)
    BY <1>4, <2>1, FS_Subset
  <2>4. Cardinality(lower(i)) \in Nat
    BY <2>3, FS_CardinalityType
  <2>5. Cardinality(lower(i)) # n
    BY <2>2, <2>3
  <2> QED
    BY <2>1, <2>2, <2>3, <2>4, <2>5
<1>6. ASSUME NEW i \in 1..n, NEW j \in 1..n, Below(ds[i].path, ds[j].path)
      PROVE  Cardinality(lower(i)) < Cardinality(lower(j))
  <2>1. lower(i) \subseteq lower(j)
    BY <1>2, <1>6, BelowIsTransitive
  <2>2. i \in lower(j)
    BY <1>6
  <2> HIDE DEF lower
  <2>3. /\ Cardinality(lower(i)) <= Cardinality(lower(j))
        /\ Cardinality(lower(i)) = Cardinality(lower(j)) => lower(i) = lower(j)
    BY <1>5, <2>1, FS_Subset
  <2>4. Cardinality(lower(i)) # Cardinality(lower(j))
    BY <1>5, <2>2, <2>3
  <2> QED
    BY <1>5, <2>3, <2>4
<1> HIDE DEF lower
<1>7. r \in [1..n -> 1..n]
  <2>1. \A i \in 1..n : Cardinality(lower(i)) + 1 \in 1..n
    BY <1>5
  <2> QED
    BY <2>1
<1>8. \A i, j \in 1..n : Below(ds[i].path, ds[j].path) => r[i] < r[j]
  <2> SUFFICES ASSUME NEW i \in 1..n, NEW j \in 1..n, Below(ds[i].path, ds[j].path)
               PROVE  r[i] < r[j]
    OBVIOUS
  <2>1. Cardinality(lower(i)) < Cardinality(lower(j))
    BY <1>6
  <2>2. Cardinality(lower(i)) \in Nat /\ Cardinality(lower(j)) \in Nat
    BY <1>5
  <2> QED
    BY <2>1, <2>2
<1> HIDE DEF r
<1>9. \A i, j \in 1..n : i # j => r[i] < r[j] \/ r[j] < r[i]
  BY <1>2, <1>3, <1>8, BelowIsTotal
<1>10. \A i, j \in 1..n : r[i] = r[j] => i = j
  <2> SUFFICES ASSUME NEW i \in 1..n, NEW j \in 1..n, r[i] = r[j], i # j PROVE FALSE
    OBVIOUS
  <2>1. r[i] \in Int /\ r[j] \in Int
    BY <1>7
  <2> QED
    BY <1>9, <2>1
<1>11. \A k \in 1..n : \E i \in 1..n : r[i] = k
  <2>1. r \in Injection(1..n, 1..n)
    BY <1>7, <1>10 DEF Injection, IsInjective
  <2>2. r \in Surjection(1..n, 1..n)
    BY <1>4, <2>1, FS_Injection
  <2> QED
    BY <2>2 DEF Surjection
<1> DEFINE q == [k \in 1..n |-> CHOOSE i \in 1..n : r[i] = k]
           s == [k \in 1..n |-> ds[q[k]]]
<1>12. \A k \in 1..n : q[k] \in 1..n /\ r[q[k]] = k
  BY <1>11
<1>13. \A i \in 1..n : r[i] \in 1..n /\ q[r[i]] = i
  BY <1>7, <1>10, <1>12
<1> HIDE DEF q
<1>14. DOMAIN ds = 1..n /\ DOMAIN s = 1..n
  BY <1>1
<1>15. ToSet(ds) = {ds[i] : i \in 1..n} /\ ToSet(s) = {s[i] : i \in 1..n}
  BY <1>14 DEF ToSet
<1>16. s \in [1..n -> ToSet(ds)]
  BY <1>12, <1>15
<1>17. ToSet(s) = ToSet(ds)
  <2>1. \A i \in 1..n : ds[i] = s[r[i]] /\ r[i] \in 1..n
    BY <1>13
  <2>2. \A k \in 1..n : s[k] = ds[q[k]] /\ q[k] \in 1..n
    BY <1>12
  <2> HIDE DEF s
  <2> QED
    BY <1>15, <2>1, <2>2, SMTT(30)
<1>18. ASSUME NEW i \in 1..n, NEW j \in 1..n, i < j PROVE Below(s[i].path, s[j].path)
  <2>1. q[i] \in 1..n /\ q[j] \in 1..n /\ r[q[i]] = i /\ r[q[j]] = j
    BY <1>12
  <2>2. q[i] # q[j]
    BY <1>18, <2>1
  <2>3. ~Below(ds[q[j]].path, ds[q[i]].path)
    BY <1>8, <1>18, <2>1
  <2>4. Below(ds[q[i]].path, ds[q[j]].path)
    BY <1>2, <1>3, <2>1, <2>2, <2>3, BelowIsTotal
  <2> QED
    BY <2>4
<1> HIDE DEF s
<1> QED
  BY <1>1, <1>16, <1>17, <1>18

\* What sortedDirs returns.
LEMMA SortedDirs ==
    ASSUME NEW ds \in Seq(Dirs), DistinctPaths(ds)
    PROVE  /\ sortedDirs(ds) \in [1..Len(ds) -> ToSet(ds)]
           /\ ToSet(sortedDirs(ds)) = ToSet(ds)
           /\ \A i, j \in 1..Len(ds) : i < j => Below(sortedDirs(ds)[i].path, sortedDirs(ds)[j].path)
  BY SortExists DEF sortedDirs

-----------------------------------------------------------------------------
(* The builder *)

Made(lines, i) == Parents(lines[i].dst) \cup {lines[i].dst}

\* Of the lines in T, line i is the one that creates its destination.
Creates(lines, T, p, i) ==
    /\ i \in T /\ p = lines[i].dst /\ p # fixtureBinary
    /\ \A j \in T : j < i => p \notin Made(lines, j)

\* The paths the lines in T leave.
PathsOf(lines, T) == {fixtureBinary} \cup UNION {Made(lines, j) : j \in T}

\* What the lines in T leave: a path has the owner of the line that creates it,
\* or else root.
FilesOf(lines, T) ==
    [p \in PathsOf(lines, T) |->
        IF \E i \in T : Creates(lines, T, p, i)
        THEN lines[CHOOSE i \in T : Creates(lines, T, p, i)].owner
        ELSE RootId]

\* Only one line can create a path.
LEMMA OneCreates ==
    ASSUME NEW lines, NEW T \in SUBSET Nat, NEW p, NEW i, NEW j,
           Creates(lines, T, p, i), Creates(lines, T, p, j)
    PROVE  i = j
<1>1. i \in Nat /\ j \in Nat
  BY DEF Creates
<1>2. p \in Made(lines, i) /\ p \in Made(lines, j)
  BY DEF Creates, Made
<1>3. ~(i < j) /\ ~(j < i)
  BY <1>2 DEF Creates
<1> QED
  BY <1>1, <1>3

\* The owner of a path that some line creates.
LEMMA CreatorOwns ==
    ASSUME NEW lines, NEW T \in SUBSET Nat, NEW p, NEW i, Creates(lines, T, p, i)
    PROVE  p \in DOMAIN FilesOf(lines, T) /\ FilesOf(lines, T)[p] = lines[i].owner
<1>1. i \in T /\ p \in PathsOf(lines, T)
  BY DEF Creates, PathsOf, Made
<1>2. (CHOOSE k \in T : Creates(lines, T, p, k)) = i
  BY <1>1, OneCreates
<1> QED
  BY <1>1, <1>2 DEF FilesOf

\* The path of no line belongs to root.
LEMMA OthersAreRoots ==
    ASSUME NEW lines, NEW T \in SUBSET Nat, NEW p \in PathsOf(lines, T),
           \A i \in T : ~Creates(lines, T, p, i)
    PROVE  FilesOf(lines, T)[p] = RootId
  BY DEF FilesOf

\* The last line of T on what the others leave gives what T leaves.
LEMMA CopyStep ==
    ASSUME NEW lines, NEW T \in SUBSET Nat, NEW x \in T, \A y \in T : y <= x
    PROVE  Copy(FilesOf(lines, T \ {x}), lines[x]) = FilesOf(lines, T)
<1> DEFINE U == T \ {x}
           old == FilesOf(lines, U)
<1>1. DOMAIN old = PathsOf(lines, U)
  BY DEF FilesOf
<1>2. PathsOf(lines, T) = PathsOf(lines, U) \cup Made(lines, x)
  BY DEF PathsOf
<1>3. \A y \in U : y < x
  OBVIOUS
<1>4. ASSUME NEW p, NEW i \in U
      PROVE  Creates(lines, T, p, i) <=> Creates(lines, U, p, i)
  <2>1. ~(x < i)
    BY <1>3
  <2> QED
    BY <2>1 DEF Creates
<1>5. ASSUME NEW p \in PathsOf(lines, U) PROVE old[p] = FilesOf(lines, T)[p]
  <2>1. ~Creates(lines, T, p, x)
    BY <1>3 DEF Creates, PathsOf
  <2>2. CASE \E i \in U : Creates(lines, U, p, i)
    <3>1. PICK i \in U : Creates(lines, U, p, i)
      BY <2>2
    <3>2. Creates(lines, T, p, i)
      BY <1>4, <3>1
    <3> QED
      BY <3>1, <3>2, CreatorOwns
  <2>3. CASE \A i \in U : ~Creates(lines, U, p, i)
    <3>1. \A i \in T : ~Creates(lines, T, p, i)
      BY <1>4, <2>1, <2>3
    <3>2. p \in PathsOf(lines, T)
      BY <1>2
    <3> QED
      BY <2>3, <3>1, <3>2, OthersAreRoots
  <2> QED
    BY <2>2, <2>3
<1>6. ASSUME NEW p \in Made(lines, x), p \notin PathsOf(lines, U)
      PROVE  FilesOf(lines, T)[p] = IF p = lines[x].dst THEN lines[x].owner ELSE RootId
  <2>1. p # fixtureBinary /\ \A j \in U : p \notin Made(lines, j)
    BY <1>6 DEF PathsOf
  <2>2. CASE p = lines[x].dst
    <3>1. Creates(lines, T, p, x)
      BY <2>1, <2>2 DEF Creates
    <3> QED
      BY <2>2, <3>1, CreatorOwns
  <2>3. CASE p # lines[x].dst
    <3>1. \A i \in T : ~Creates(lines, T, p, i)
      BY <2>1, <2>3 DEF Creates, Made
    <3>2. p \in PathsOf(lines, T)
      BY <1>2
    <3> QED
      BY <2>3, <3>1, <3>2, OthersAreRoots
  <2> QED
    BY <2>2, <2>3
<1> DEFINE missing == Made(lines, x) \ DOMAIN old
<1>7. Copy(old, lines[x]) =
        [p \in DOMAIN old \cup missing |->
            IF p \in DOMAIN old THEN old[p]
            ELSE IF p = lines[x].dst THEN lines[x].owner ELSE RootId]
  BY DEF Copy, Made
<1>8. DOMAIN old \cup missing = PathsOf(lines, T)
  BY <1>1, <1>2
<1>9. FilesOf(lines, T) = [p \in PathsOf(lines, T) |-> FilesOf(lines, T)[p]]
  BY DEF FilesOf
<1>10. \A p \in PathsOf(lines, T) :
         FilesOf(lines, T)[p] = IF p \in DOMAIN old THEN old[p]
                                ELSE IF p = lines[x].dst THEN lines[x].owner ELSE RootId
  BY <1>1, <1>2, <1>5, <1>6
<1> QED
  BY <1>7, <1>8, <1>9, <1>10

\* A bounded set of naturals has a greatest element, which Max returns.
LEMMA MaxOfSet ==
    ASSUME NEW n \in Nat, NEW T \in SUBSET (1..n), T # {}
    PROVE  Max(T) \in T /\ \A y \in T : y <= Max(T)
<1> DEFINE R == {n - i : i \in T}
<1>1. R \subseteq Nat /\ R # {}
  <2>1. \A i \in T : i \in 1..n
    OBVIOUS
  <2>2. \A i \in T : n - i \in Nat
    BY <2>1
  <2> QED
    BY <2>2
<1>2. PICK m \in R : \A k \in R : m <= k
  BY <1>1, LeastElement
<1>3. PICK x \in T : m = n - x
  OBVIOUS
<1>4. \A y \in T : n - y \in R
  OBVIOUS
<1> HIDE DEF R
<1>5. \A y \in T : x >= y
  <2> SUFFICES ASSUME NEW y \in T PROVE x >= y
    OBVIOUS
  <2>1. n - x <= n - y
    BY <1>2, <1>3, <1>4
  <2>2. x \in Int /\ y \in Int
    OBVIOUS
  <2> QED
    BY <2>1, <2>2
<1>6. Max(T) \in T /\ \A y \in T : Max(T) >= y
  BY <1>5 DEF Max
<1>7. Max(T) \in Int /\ \A y \in T : y \in Int
  <2>1. \A y \in T : y \in 1..n
    OBVIOUS
  <2>2. \A y \in T : y \in Int
    BY <2>1
  <2> QED
    BY <1>6, <2>2
<1> QED
  BY <1>6, <1>7

\* The function by which FoldLeft runs the lines.
RunFcn(lines, S) ==
    CHOOSE g : g = [s \in SUBSET S |->
                      IF s = {} THEN Scratch
                      ELSE LET x == Max(s) IN Copy(g[s \ {x}], lines[x])]

\* RunDockerfile is that function, at all lines.
LEMMA FoldIsRunFcn ==
    ASSUME NEW lines
    PROVE  FoldLeft(Copy, Scratch, lines) = RunFcn(lines, DOMAIN lines)[DOMAIN lines]
  BY DEF FoldLeft, MapThenFoldSet, RunFcn

\* What the lines leave satisfies the equation, so the function does.
LEMMA RunEquation ==
    ASSUME NEW lines, NEW n \in Nat
    PROVE  RunFcn(lines, 1..n) = [s \in SUBSET (1..n) |->
               IF s = {} THEN Scratch
               ELSE LET x == Max(s) IN Copy(RunFcn(lines, 1..n)[s \ {x}], lines[x])]
<1> DEFINE G == [s \in SUBSET (1..n) |-> FilesOf(lines, s)]
<1>1. FilesOf(lines, {}) = Scratch
  <2>1. PathsOf(lines, {}) = {fixtureBinary}
    BY DEF PathsOf
  <2> QED
    BY <2>1 DEF FilesOf, Scratch
<1>2. ASSUME NEW s \in SUBSET (1..n), s # {}
      PROVE  G[s] = Copy(G[s \ {Max(s)}], lines[Max(s)])
  <2>1. Max(s) \in s /\ \A y \in s : y <= Max(s)
    BY <1>2, MaxOfSet
  <2>2. s \in SUBSET Nat /\ s \ {Max(s)} \in SUBSET (1..n)
    <3>1. \A y \in s : y \in 1..n
      OBVIOUS
    <3>2. \A y \in s : y \in Nat
      BY <3>1
    <3> QED
      BY <3>1, <3>2
  <2>3. Copy(FilesOf(lines, s \ {Max(s)}), lines[Max(s)]) = FilesOf(lines, s)
    BY <2>1, <2>2, CopyStep
  <2> QED
    BY <2>2, <2>3
<1>3. G[{}] = Scratch
  BY <1>1
<1>4. G = [s \in SUBSET (1..n) |->
               IF s = {} THEN Scratch ELSE LET x == Max(s) IN Copy(G[s \ {x}], lines[x])]
  <2>1. \A s \in SUBSET (1..n) :
          G[s] = IF s = {} THEN Scratch ELSE LET x == Max(s) IN Copy(G[s \ {x}], lines[x])
    BY <1>2, <1>3
  <2>2. G = [s \in SUBSET (1..n) |-> G[s]]
    OBVIOUS
  <2> HIDE DEF G
  <2> QED
    BY <2>1, <2>2
<1> HIDE DEF G
<1> QED
  BY <1>4 DEF RunFcn

\* Running n lines leaves what FilesOf says.
LEMMA RunLeavesFiles ==
    ASSUME NEW lines, NEW n \in Nat, DOMAIN lines = 1..n
    PROVE  FoldLeft(Copy, Scratch, lines) = FilesOf(lines, 1..n)
<1> DEFINE F == RunFcn(lines, 1..n)
           T == {k \in Nat : k <= n /\ F[1..k] # FilesOf(lines, 1..k)}
<1>1. F = [s \in SUBSET (1..n) |->
             IF s = {} THEN Scratch ELSE LET x == Max(s) IN Copy(F[s \ {x}], lines[x])]
  BY RunEquation
<1>2. FilesOf(lines, {}) = Scratch
  <2>1. PathsOf(lines, {}) = {fixtureBinary}
    BY DEF PathsOf
  <2> QED
    BY <2>1 DEF FilesOf, Scratch
<1> HIDE DEF F
<1>3. F[1..0] = FilesOf(lines, 1..0)
  <2>1. 1..0 = {} /\ {} \in SUBSET (1..n)
    OBVIOUS
  <2>2. F[{}] = Scratch
    BY <1>1, <2>1
  <2> QED
    BY <1>2, <2>1, <2>2
<1>4. ASSUME NEW k \in Nat, k < n, F[1..k] = FilesOf(lines, 1..k)
      PROVE  F[1..(k + 1)] = FilesOf(lines, 1..(k + 1))
  <2> DEFINE s == 1..(k + 1)
  <2>1. s \in SUBSET (1..n) /\ s # {} /\ k + 1 \in s /\ s \ {k + 1} = 1..k /\ s \in SUBSET Nat
    BY <1>4
  <2>2. \A y \in s : y <= k + 1
    OBVIOUS
  <2> HIDE DEF s
  <2>3. Max(s) \in s /\ \A y \in s : y <= Max(s)
    BY <2>1, MaxOfSet
  <2>4. Max(s) = k + 1
    BY <2>1, <2>2, <2>3
  <2>5. F[s] = Copy(F[s \ {k + 1}], lines[k + 1])
    BY <1>1, <2>1, <2>4
  <2>6. Copy(FilesOf(lines, s \ {k + 1}), lines[k + 1]) = FilesOf(lines, s)
    BY <2>1, <2>2, CopyStep
  <2>7. F[s] = FilesOf(lines, s)
    BY <1>4, <2>1, <2>5, <2>6
  <2> QED
    BY <2>7 DEF s
<1>5. T = {}
  <2> SUFFICES ASSUME T # {} PROVE FALSE
    OBVIOUS
  <2>1. T \subseteq Nat
    OBVIOUS
  <2>2. PICK k \in T : \A m \in T : k <= m
    BY <2>1, LeastElement
  <2>3. k \in Nat /\ k <= n /\ F[1..k] # FilesOf(lines, 1..k)
    OBVIOUS
  <2>4. k # 0
    BY <1>3, <2>3
  <2>5. k - 1 \in Nat /\ k - 1 < n /\ k - 1 <= n /\ ~(k <= k - 1) /\ (k - 1) + 1 = k
    BY <2>3, <2>4
  <2>6. k - 1 \notin T
    BY <2>2, <2>5
  <2>7. F[1..(k - 1)] = FilesOf(lines, 1..(k - 1))
    BY <2>5, <2>6
  <2>8. F[1..((k - 1) + 1)] = FilesOf(lines, 1..((k - 1) + 1))
    BY <1>4, <2>5, <2>7
  <2> QED
    BY <2>3, <2>5, <2>8
<1>6. F[1..n] = FilesOf(lines, 1..n)
  <2>1. n \notin T
    BY <1>5
  <2> QED
    BY <2>1
<1> QED
  BY <1>6, FoldIsRunFcn DEF F

-----------------------------------------------------------------------------
(* The image has the owners the lesson listed *)

\* A path's parents are shorter paths it begins with.
LEMMA ParentsArePrefixes ==
    ASSUME NEW q \in Seq(Int), NEW p \in Parents(q)
    PROVE  \E n \in Nat : n < Len(q) /\ p = SubSeq(q, 1, n)
<1>1. PICK i \in Slashes(q) \ {1} : p = SubSeq(q, 1, i - 1)
  BY DEF Parents
<1>2. i \in 1..Len(q)
  BY DEF Slashes
<1>3. i - 1 \in Nat /\ i - 1 < Len(q)
  BY <1>2
<1> QED
  BY <1>1, <1>3

\* The Dockerfile of directories that validate accepts gives every one of them
\* its owner and all else to root, whatever order they are listed in.
LEMMA DockerfileGivesOwners ==
    ASSUME NEW ds \in Seq(Dirs), DistinctPaths(ds),
           \A i \in 1..Len(ds) : ds[i].path # fixtureBinary
    PROVE  LET listed == {ds[i].path : i \in 1..Len(ds)}
               files == RunDockerfile(ds)
           IN  /\ \A i \in 1..Len(ds) : files[ds[i].path] = ds[i].id
               /\ \A p \in DOMAIN files \ listed : files[p] = RootId
               /\ fixtureBinary \in DOMAIN files \ listed
<1>1. PICK n \in Nat : n = Len(ds)
  OBVIOUS
<1> DEFINE s == sortedDirs(ds)
           lines == fixtureDockerfile(ds)
           files == RunDockerfile(ds)
<1>2. /\ s \in [1..n -> ToSet(ds)] /\ ToSet(s) = ToSet(ds)
      /\ \A i, j \in 1..n : i < j => Below(s[i].path, s[j].path)
  BY <1>1, SortedDirs
<1>3. ToSet(ds) = {ds[i] : i \in 1..n} /\ ToSet(s) = {s[i] : i \in 1..n}
  <2>1. DOMAIN ds = 1..n
    BY <1>1
  <2>2. DOMAIN s = 1..n
    BY <1>2
  <2> HIDE DEF s
  <2> QED
    BY <2>1, <2>2 DEF ToSet
<1>4. \A i \in 1..n : ds[i] \in Dirs /\ ds[i].path \in Seq(Int)
  <2>1. \A i \in 1..n : ds[i] \in Dirs
    BY <1>1
  <2> QED
    BY <2>1 DEF Dirs
<1>5. \A i \in 1..n : \E k \in 1..n : s[i] = ds[k]
  BY <1>2, <1>3
<1>6. \A k \in 1..n : \E i \in 1..n : s[i] = ds[k]
  BY <1>2, <1>3
<1>7. Len(s) = n
  BY <1>2
<1> HIDE DEF s
<1>8. lines = [i \in 1..n |-> [src |-> ownedSrc(i), dst |-> s[i].path, owner |-> s[i].id]]
  BY <1>7 DEF fixtureDockerfile, s
<1>9. DOMAIN lines = 1..n /\ \A i \in 1..n : lines[i].dst = s[i].path /\ lines[i].owner = s[i].id
  BY <1>8
<1> HIDE DEF lines
<1>10. files = FilesOf(lines, 1..n)
  <2>1. files = FoldLeft(Copy, Scratch, lines)
    BY DEF RunDockerfile, lines
  <2> HIDE DEF files
  <2> QED
    BY <1>9, <2>1, RunLeavesFiles
<1> HIDE DEF files
<1>11. 1..n \in SUBSET Nat
  OBVIOUS
<1>12. ASSUME NEW i \in 1..n PROVE Creates(lines, 1..n, s[i].path, i)
  <2>1. PICK k \in 1..n : s[i] = ds[k]
    BY <1>5
  <2>2. s[i].path # fixtureBinary /\ s[i].path \in Seq(Int)
    BY <1>1, <1>4, <2>1
  <2>3. ASSUME NEW j \in 1..n, j < i PROVE s[i].path \notin Made(lines, j)
    <3>1. Below(s[j].path, s[i].path)
      BY <1>2, <2>3
    <3>2. PICK l \in 1..n : s[j] = ds[l]
      BY <1>5
    <3>3. s[j].path \in Seq(Int)
      BY <1>4, <3>2
    <3>4. s[i].path # s[j].path
      BY <3>1, <3>3, BelowIsStrict
    <3>5. s[i].path \notin Parents(s[j].path)
      <4> SUFFICES ASSUME s[i].path \in Parents(s[j].path) PROVE FALSE
        OBVIOUS
      <4>1. PICK m \in Nat : m < Len(s[j].path) /\ s[i].path = SubSeq(s[j].path, 1, m)
        BY <3>3, ParentsArePrefixes
      <4>2. ~Below(s[j].path, SubSeq(s[j].path, 1, m))
        BY <3>3, <4>1, ParentSortsFirst
      <4> QED
        BY <3>1, <4>1, <4>2
    <3> QED
      BY <1>9, <3>4, <3>5 DEF Made
  <2> QED
    BY <1>9, <2>2, <2>3 DEF Creates
<1>13. ASSUME NEW k \in 1..n PROVE files[ds[k].path] = ds[k].id
  <2>1. PICK i \in 1..n : s[i] = ds[k]
    BY <1>6
  <2>2. files[s[i].path] = lines[i].owner
    BY <1>10, <1>11, <1>12, CreatorOwns
  <2> QED
    BY <1>9, <2>1, <2>2
<1>14. DOMAIN files = PathsOf(lines, 1..n)
  BY <1>10 DEF FilesOf
<1> DEFINE listed == {ds[i].path : i \in 1..n}
<1>15. ASSUME NEW p \in DOMAIN files, p \notin listed PROVE files[p] = RootId
  <2>1. ASSUME NEW i \in 1..n, Creates(lines, 1..n, p, i) PROVE FALSE
    <3>1. p = s[i].path
      BY <1>9, <2>1 DEF Creates
    <3>2. PICK k \in 1..n : s[i] = ds[k]
      BY <1>5
    <3> QED
      BY <1>15, <3>1, <3>2
  <2> QED
    BY <1>10, <1>11, <1>14, <2>1, OthersAreRoots
<1>16. fixtureBinary \in DOMAIN files /\ fixtureBinary \notin listed
  BY <1>1, <1>14 DEF PathsOf
<1> QED
  BY <1>1, <1>13, <1>15, <1>16 DEF files

\* The lesson lists directories, and the image that was built has their owners.
ImageInv ==
    /\ dirs \in Seq(Dirs)
    /\ OwnersAreAsListed

\* What ListDir may add.
LEMMA ListedPaths ==
    ASSUME NEW p \in SeqOf(Bytes, MaxPath)
    PROVE  p \in Seq(Int)
<1>1. PICK m \in 0..MaxPath : p \in [1..m -> Bytes]
  BY DEF SeqOf
<1>2. m \in Nat
  OBVIOUS
<1>3. p \in [1..m -> Int]
  BY <1>1 DEF Bytes, Letters, Dollar, Dot, Slash
<1> QED
  BY <1>2, <1>3

\* What the lesson's code and the builder do to an image keeps the invariant.
LEMMA ImageStep ==
    ASSUME ImageInv, [ImageNext]_imageVars
    PROVE  ImageInv'
<1>1. CASE UNCHANGED imageVars
  BY <1>1 DEF ImageInv, OwnersAreAsListed, imageVars
<1>2. CASE ListDir
  <2>1. PICK p \in SeqOf(Bytes, MaxPath), id \in {OwnerId, -1} :
          dirs' = Append(dirs, OwnedDir(p, id))
    BY <1>2 DEF ListDir
  <2>2. OwnedDir(p, id) \in Dirs
    BY ListedPaths DEF OwnedDir, Dirs
  <2>3. dirs' \in Seq(Dirs)
    BY <2>1, <2>2 DEF ImageInv
  <2>4. build' # "built" /\ build' # "failed"
    BY <1>2 DEF ListDir
  <2> QED
    BY <2>3, <2>4 DEF ImageInv, OwnersAreAsListed
<1>3. CASE RefuseImage
  <2>1. dirs' = dirs /\ build' # "built" /\ build' # "failed"
    BY <1>3 DEF RefuseImage
  <2> QED
    BY <2>1 DEF ImageInv, OwnersAreAsListed
<1>4. CASE BuildImage
  <2>1. dirs' = dirs /\ validate
    BY <1>4 DEF BuildImage
  <2>2. /\ DistinctPaths(dirs)
        /\ \A i \in 1..Len(dirs) : dirs[i].path # fixtureBinary
    BY <2>1 DEF validate, validDir, validateOwnedPath, DistinctPaths
  <2>3. dirs \in Seq(Dirs)
    BY DEF ImageInv
  <2>4. \A i \in 1..Len(fixtureDockerfile(dirs)) :
          fixtureDockerfile(dirs)[i].src \in fixtureContext(dirs)
    <3>1. sortedDirs(dirs) \in [1..Len(dirs) -> ToSet(dirs)]
      BY <2>2, <2>3, SortedDirs
    <3>2. PICK n \in Nat : n = Len(dirs)
      BY <2>3
    <3>3. Len(sortedDirs(dirs)) = n
      BY <3>1, <3>2
    <3>4. DOMAIN fixtureDockerfile(dirs) = 1..n
          /\ \A i \in 1..n : fixtureDockerfile(dirs)[i].src = ownedSrc(i)
      BY <3>3 DEF fixtureDockerfile
    <3>5. Len(fixtureDockerfile(dirs)) = n
      BY <3>4
    <3> QED
      BY <3>2, <3>4, <3>5 DEF fixtureContext
  <2>5. build' = "built" /\ fs' = RunDockerfile(dirs)
    BY <1>4, <2>4 DEF BuildImage
  <2> QED
    BY <2>1, <2>2, <2>3, <2>5, DockerfileGivesOwners DEF ImageInv, OwnersAreAsListed
<1> QED
  BY <1>1, <1>2, <1>3, <1>4 DEF ImageNext

\* "The order of Dirs does not matter" (image.go): the Dockerfile that
\* sortedDirs orders gives every listed directory its owner and root the rest,
\* for any number of directories and paths of any length.
THEOREM DirsOrderDoesNotMatter == HarnessSpec => []OwnersAreAsListed
<1>1. HarnessInit => ImageInv
  <2> SUFFICES ASSUME HarnessInit PROVE ImageInv
    OBVIOUS
  <2>1. dirs = <<>> /\ build = "describing"
    BY DEF HarnessInit, ImageInit
  <2> QED
    BY <2>1 DEF ImageInv, OwnersAreAsListed
<1>2. ImageInv /\ [HarnessNext]_allVars => ImageInv'
  <2> SUFFICES ASSUME ImageInv, [HarnessNext]_allVars PROVE ImageInv'
    OBVIOUS
  <2>1. [ImageNext]_imageVars
    BY DEF HarnessNext, allVars
  <2> QED
    BY <2>1, ImageStep
<1>3. ImageInv => OwnersAreAsListed
  BY DEF ImageInv
<1> QED
  BY <1>1, <1>2, <1>3, PTL DEF HarnessSpec

\* A behaviour of the harness, as the run checks it, is one of ContainerCreate
\* and its checks: what is proved of Spec holds of it.
THEOREM HarnessIsSpec == HarnessSpec => Spec
<1>1. HarnessInit => Init
  BY DEF HarnessInit
<1>2. [HarnessNext]_allVars => [Next]_vars
  BY DEF HarnessNext, allVars
<1> QED
  BY <1>1, <1>2, PTL DEF HarnessSpec, Spec

-----------------------------------------------------------------------------
(* Induction over texts, with sets for predicates *)

\* Induction over the naturals.
LEMMA NatSetInduction ==
    ASSUME NEW T, 0 \in T, \A n \in Nat : n \in T => n + 1 \in T
    PROVE  Nat \subseteq T
<1> SUFFICES ASSUME Nat \ T # {} PROVE FALSE
  OBVIOUS
<1>1. PICK n \in Nat \ T : \A m \in Nat \ T : n <= m
  BY LeastElement
<1>2. n # 0 /\ n - 1 \in Nat
  OBVIOUS
<1>3. n - 1 \in T
  BY <1>1, <1>2
<1> QED
  BY <1>2, <1>3

\* Induction over sequences, by Append.
LEMMA SeqSetInduction ==
    ASSUME NEW S, NEW T, <<>> \in T,
           \A s \in Seq(S), x \in S : s \in T => Append(s, x) \in T
    PROVE  Seq(S) \subseteq T
<1> DEFINE K == {n \in Nat : \A s \in Seq(S) : Len(s) = n => s \in T}
<1>1. 0 \in K
  <2>1. \A s \in Seq(S) : Len(s) = 0 => s = <<>>
    BY EmptySeq
  <2> QED
    BY <2>1
<1>2. ASSUME NEW n \in Nat, n \in K PROVE n + 1 \in K
  <2> SUFFICES ASSUME NEW s \in Seq(S), Len(s) = n + 1 PROVE s \in T
    OBVIOUS
  <2>1. s # <<>>
    BY EmptySeq
  <2>2. PICK r \in Seq(S), x \in S : s = Append(r, x)
    BY <2>1, SequenceEmptyOrAppend
  <2>3. Len(s) = Len(r) + 1 /\ Len(r) \in Nat
    BY <2>2, AppendProperties, LenProperties
  <2>4. Len(r) = n
    BY <2>3
  <2> QED
    BY <1>2, <2>2, <2>4
<1> HIDE DEF K
<1>3. Nat \subseteq K
  BY <1>1, <1>2, NatSetInduction
<1>4. \A s \in Seq(S) : Len(s) \in Nat
  BY LenProperties
<1> QED
  BY <1>3, <1>4 DEF K

-----------------------------------------------------------------------------
(* Split *)

\* The function by which FoldLeft adds the pieces.
SplitFcn(t, S) ==
    CHOOSE g : g = [s \in SUBSET S |->
                      IF s = {} THEN << <<>> >>
                      ELSE LET x == Max(s) IN AddPiece(g[s \ {x}], t[x])]

\* Split is that function, at the whole text.
LEMMA SplitIsFcn ==
    ASSUME NEW t
    PROVE  Split(t) = SplitFcn(t, DOMAIN t)[DOMAIN t]
  BY DEF Split, FoldLeft, MapThenFoldSet, SplitFcn

\* The equation has a solution, one index after the other.
LEMMA SplitEquation ==
    ASSUME NEW t, NEW n \in Nat
    PROVE  SplitFcn(t, 1..n) = [s \in SUBSET (1..n) |->
               IF s = {} THEN << <<>> >>
               ELSE LET x == Max(s) IN AddPiece(SplitFcn(t, 1..n)[s \ {x}], t[x])]
<1> DEFINE Solves(g, k) ==
             g = [s \in SUBSET (1..k) |->
                    IF s = {} THEN << <<>> >> ELSE AddPiece(g[s \ {Max(s)}], t[Max(s)])]
           K == {k \in Nat : \E g : Solves(g, k)}
<1>1. 0 \in K
  <2> DEFINE g == [s \in SUBSET (1..0) |-> << <<>> >>]
  <2>1. \A s \in SUBSET (1..0) : s = {}
    OBVIOUS
  <2>2. Solves(g, 0)
    BY <2>1
  <2> QED
    BY <2>2
<1>2. ASSUME NEW k \in Nat, k \in K PROVE k + 1 \in K
  <2>1. PICK g : Solves(g, k)
    BY <1>2
  <2> DEFINE h == [s \in SUBSET (1..(k + 1)) |->
                     IF k + 1 \in s THEN AddPiece(g[s \ {k + 1}], t[k + 1]) ELSE g[s]]
  <2>2. ASSUME NEW s \in SUBSET (1..(k + 1)), k + 1 \notin s PROVE s \in SUBSET (1..k)
    <3>1. \A y \in s : y \in 1..(k + 1) /\ y # k + 1
      BY <2>2
    <3>2. \A y \in s : y \in 1..k
      BY <3>1
    <3> QED
      BY <3>2
  <2>3. ASSUME NEW s \in SUBSET (1..(k + 1)), s # {}
        PROVE  h[s] = AddPiece(h[s \ {Max(s)}], t[Max(s)])
    <3>1. Max(s) \in s /\ \A y \in s : y <= Max(s)
      BY <2>3, MaxOfSet, k + 1 \in Nat
    <3>2. Max(s) \in 1..(k + 1)
      BY <3>1
    <3>3. s \ {Max(s)} \in SUBSET (1..(k + 1))
      OBVIOUS
    <3>4. CASE k + 1 \in s
      <4>1. Max(s) = k + 1
        BY <3>1, <3>2, <3>4
      <4>2. h[s \ {k + 1}] = g[s \ {k + 1}]
        BY <3>3, <4>1
      <4> QED
        BY <3>4, <4>1, <4>2
    <3>5. CASE k + 1 \notin s
      <4>1. s \in SUBSET (1..k)
        BY <2>2, <3>5
      <4>2. g[s] = AddPiece(g[s \ {Max(s)}], t[Max(s)])
        BY <2>1, <2>3, <4>1
      <4>3. h[s] = g[s] /\ h[s \ {Max(s)}] = g[s \ {Max(s)}]
        BY <3>3, <3>5
      <4> QED
        BY <4>2, <4>3
    <3> QED
      BY <3>4, <3>5
  <2>4. h[{}] = << <<>> >>
    <3>1. {} \in SUBSET (1..k) /\ {} \in SUBSET (1..(k + 1))
      OBVIOUS
    <3>2. g[{}] = << <<>> >>
      BY <2>1, <3>1
    <3> QED
      BY <3>1, <3>2
  <2>5. h = [s \in SUBSET (1..(k + 1)) |-> h[s]]
    OBVIOUS
  <2> HIDE DEF h
  <2>6. \A s \in SUBSET (1..(k + 1)) :
          h[s] = IF s = {} THEN << <<>> >> ELSE AddPiece(h[s \ {Max(s)}], t[Max(s)])
    BY <2>3, <2>4
  <2>7. Solves(h, k + 1)
    BY <2>5, <2>6
  <2> HIDE DEF Solves
  <2> QED
    BY <2>7
<1> HIDE DEF K
<1>3. n \in K
  BY <1>1, <1>2, NatSetInduction
<1>4. PICK g : Solves(g, n)
  BY <1>3 DEF K
<1> QED
  BY <1>4 DEF SplitFcn

\* Splitting goes piece by piece.
LEMMA SplitSteps ==
    ASSUME NEW n \in Nat, NEW t, DOMAIN t = 1..n
    PROVE  \E h : /\ h[0] = << <<>> >> /\ h[n] = Split(t)
                  /\ \A k \in 0..(n - 1) : h[k + 1] = AddPiece(h[k], t[k + 1])
<1> DEFINE F == SplitFcn(t, 1..n)
           h == [k \in 0..n |-> F[1..k]]
<1>1. F = [s \in SUBSET (1..n) |->
             IF s = {} THEN << <<>> >> ELSE LET x == Max(s) IN AddPiece(F[s \ {x}], t[x])]
  BY SplitEquation
<1>2. F[1..n] = Split(t)
  BY SplitIsFcn
<1> HIDE DEF F
<1>3. F[1..0] = << <<>> >>
  <2>1. 1..0 = {} /\ {} \in SUBSET (1..n)
    OBVIOUS
  <2> QED
    BY <1>1, <2>1
<1>4. ASSUME NEW k \in 0..(n - 1) PROVE F[1..(k + 1)] = AddPiece(F[1..k], t[k + 1])
  <2> DEFINE s == 1..(k + 1)
  <2>1. s \in SUBSET (1..n) /\ s # {} /\ k + 1 \in s /\ s \ {k + 1} = 1..k
    OBVIOUS
  <2>2. \A y \in s : y \in Int /\ y <= k + 1
    OBVIOUS
  <2> HIDE DEF s
  <2>3. Max(s) \in s /\ \A y \in s : y <= Max(s)
    BY <2>1, MaxOfSet
  <2>4. Max(s) = k + 1
    BY <2>1, <2>2, <2>3
  <2>5. F[s] = AddPiece(F[s \ {k + 1}], t[k + 1])
    BY <1>1, <2>1, <2>4
  <2> QED
    BY <2>1, <2>5 DEF s
<1>5. h[0] = << <<>> >> /\ h[n] = Split(t)
  BY <1>2, <1>3
<1>6. \A k \in 0..(n - 1) : h[k + 1] = AddPiece(h[k], t[k + 1])
  <2> SUFFICES ASSUME NEW k \in 0..(n - 1) PROVE h[k + 1] = AddPiece(h[k], t[k + 1])
    OBVIOUS
  <2>1. k \in 0..n /\ k + 1 \in 0..n
    OBVIOUS
  <2> QED
    BY <1>4, <2>1
<1> HIDE DEF h
<1> QED
  BY <1>5, <1>6

\* An empty text is one empty line.
LEMMA SplitEmpty == Split(<<>>) = << <<>> >>
<1>1. DOMAIN <<>> = 1..0
  OBVIOUS
<1> QED
  BY <1>1, SplitSteps

\* One more piece.
LEMMA SplitAppend ==
    ASSUME NEW t \in Seq(Pieces), NEW x \in Pieces
    PROVE  Split(Append(t, x)) = AddPiece(Split(t), x)
<1>1. PICK n \in Nat : n = Len(t)
  BY LenProperties
<1> DEFINE u == Append(t, x)
<1>2. /\ DOMAIN t = 1..n /\ DOMAIN u = 1..(n + 1)
      /\ u[n + 1] = x /\ \A i \in 1..n : u[i] = t[i]
  BY <1>1
<1> HIDE DEF u
<1>3. PICK h : /\ h[0] = << <<>> >> /\ h[n] = Split(t)
               /\ \A k \in 0..(n - 1) : h[k + 1] = AddPiece(h[k], t[k + 1])
  BY <1>2, SplitSteps
<1>4. PICK g : /\ g[0] = << <<>> >> /\ g[n + 1] = Split(u)
               /\ \A k \in 0..((n + 1) - 1) : g[k + 1] = AddPiece(g[k], u[k + 1])
  <2>1. n + 1 \in Nat
    OBVIOUS
  <2> QED
    BY <1>2, <2>1, SplitSteps
<1> DEFINE K == {k \in Nat : k <= n => g[k] = h[k]}
<1>5. 0 \in K
  BY <1>3, <1>4
<1>6. ASSUME NEW k \in Nat, k \in K PROVE k + 1 \in K
  <2> SUFFICES ASSUME k + 1 <= n PROVE g[k + 1] = h[k + 1]
    OBVIOUS
  <2>1. k \in 0..(n - 1) /\ k \in 0..((n + 1) - 1) /\ k + 1 \in 1..n /\ g[k] = h[k]
    BY <1>6
  <2>2. h[k + 1] = AddPiece(h[k], t[k + 1])
    BY <1>3, <2>1
  <2>3. g[k + 1] = AddPiece(g[k], u[k + 1])
    BY <1>4, <2>1
  <2>4. u[k + 1] = t[k + 1]
    BY <1>2, <2>1
  <2> QED
    BY <2>1, <2>2, <2>3, <2>4
<1> HIDE DEF K
<1>7. n \in K
  BY <1>5, <1>6, NatSetInduction
<1>8. g[n] = h[n]
  BY <1>7 DEF K
<1>9. g[n + 1] = AddPiece(g[n], u[n + 1])
  <2>1. n \in 0..((n + 1) - 1)
    OBVIOUS
  <2> QED
    BY <1>4, <2>1
<1>10. Split(u) = AddPiece(Split(t), x)
  BY <1>2, <1>3, <1>4, <1>8, <1>9
<1> QED
  BY <1>10 DEF u

-----------------------------------------------------------------------------
(* FlattenSeq *)

FlattenFcn(ss) ==
    CHOOSE g : g = [i \in 1..Len(ss) |-> IF i = 1 THEN ss[i] ELSE g[i - 1] \o ss[i]]

\* FlattenSeq is that function, at the last index.
LEMMA FlattenIsFcn ==
    ASSUME NEW ss
    PROVE  FlattenSeq(ss) = IF Len(ss) = 0 THEN ss ELSE FlattenFcn(ss)[Len(ss)]
  BY DEF FlattenSeq, FlattenFcn

\* The equation has a solution, one index after the other.
LEMMA FlattenEquation ==
    ASSUME NEW ss, Len(ss) \in Nat
    PROVE  FlattenFcn(ss) =
             [i \in 1..Len(ss) |-> IF i = 1 THEN ss[i] ELSE FlattenFcn(ss)[i - 1] \o ss[i]]
<1> DEFINE Solves(g, k) == g = [i \in 1..k |-> IF i = 1 THEN ss[i] ELSE g[i - 1] \o ss[i]]
           K == {k \in Nat : \E g : Solves(g, k)}
<1>1. 0 \in K
  <2> DEFINE g == [i \in 1..0 |-> <<>>]
  <2>1. Solves(g, 0)
    OBVIOUS
  <2> HIDE DEF Solves
  <2> QED
    BY <2>1
<1>2. ASSUME NEW k \in Nat, k \in K PROVE k + 1 \in K
  <2>1. PICK g : Solves(g, k)
    BY <1>2
  <2> DEFINE h == [i \in 1..(k + 1) |->
                     IF i = 1 THEN ss[i] ELSE IF i <= k THEN g[i] ELSE g[i - 1] \o ss[i]]
  <2>2. \A i \in 1..k : g[i] = IF i = 1 THEN ss[i] ELSE g[i - 1] \o ss[i]
    BY <2>1
  <2>3. ASSUME NEW i \in 1..(k + 1)
        PROVE  h[i] = IF i = 1 THEN ss[i] ELSE h[i - 1] \o ss[i]
    <3>1. CASE i = 1
      BY <3>1
    <3>2. CASE i # 1
      <4>1. i - 1 \in 1..k /\ i - 1 \in 1..(k + 1) /\ i - 1 <= k
        BY <3>2
      <4>2. h[i - 1] = g[i - 1]
        BY <2>2, <4>1
      <4>3. h[i] = g[i - 1] \o ss[i]
        <5>1. CASE i <= k
          <6>1. i \in 1..k /\ h[i] = g[i]
            BY <3>2, <5>1
          <6>2. g[i] = g[i - 1] \o ss[i]
            BY <2>2, <3>2, <6>1
          <6> QED
            BY <6>1, <6>2
        <5>2. CASE ~(i <= k)
          BY <3>2, <5>2
        <5> QED
          BY <5>1, <5>2
      <4> QED
        BY <3>2, <4>2, <4>3
    <3> QED
      BY <3>1, <3>2
  <2>4. h = [i \in 1..(k + 1) |-> h[i]]
    OBVIOUS
  <2> HIDE DEF h
  <2>5. Solves(h, k + 1)
    BY <2>3, <2>4
  <2> HIDE DEF Solves
  <2> QED
    BY <2>5
<1> HIDE DEF K
<1>3. Len(ss) \in K
  BY <1>1, <1>2, NatSetInduction
<1>4. PICK g : Solves(g, Len(ss))
  BY <1>3 DEF K
<1> QED
  BY <1>4 DEF FlattenFcn

\* Flattening one more sequence appends it.
LEMMA FlattenAppend ==
    ASSUME NEW ss \in Seq(Seq(Pieces)), NEW z \in Seq(Pieces)
    PROVE  FlattenSeq(Append(ss, z)) = FlattenSeq(ss) \o z
<1>1. PICK n \in Nat : n = Len(ss)
  BY LenProperties
<1> DEFINE u == Append(ss, z)
<1>2. u \in Seq(Seq(Pieces)) /\ Len(u) = n + 1 /\ u[n + 1] = z /\ \A i \in 1..n : u[i] = ss[i]
  BY <1>1, AppendProperties
<1> HIDE DEF u
<1> DEFINE F == FlattenFcn(ss)
           G == FlattenFcn(u)
<1>3. F = [i \in 1..n |-> IF i = 1 THEN ss[i] ELSE F[i - 1] \o ss[i]]
  BY <1>1, FlattenEquation
<1>4. G = [i \in 1..(n + 1) |-> IF i = 1 THEN u[i] ELSE G[i - 1] \o u[i]]
  BY <1>2, FlattenEquation, n + 1 \in Nat
<1>5. FlattenSeq(u) = G[n + 1]
  BY <1>2, FlattenIsFcn
<1>6. FlattenSeq(ss) = IF n = 0 THEN ss ELSE F[n]
  BY <1>1, FlattenIsFcn
<1> HIDE DEF F, G
<1> DEFINE K == {k \in Nat : k >= 1 /\ k <= n => G[k] = F[k]}
<1>7. 0 \in K
  OBVIOUS
<1>8. ASSUME NEW k \in Nat, k \in K PROVE k + 1 \in K
  <2> SUFFICES ASSUME k + 1 <= n PROVE G[k + 1] = F[k + 1]
    OBVIOUS
  <2>1. k + 1 \in 1..n /\ k + 1 \in 1..(n + 1) /\ (k + 1) - 1 = k
    OBVIOUS
  <2>2. F[k + 1] = IF k + 1 = 1 THEN ss[k + 1] ELSE F[k] \o ss[k + 1]
    BY <1>3, <2>1
  <2>3. G[k + 1] = IF k + 1 = 1 THEN u[k + 1] ELSE G[k] \o u[k + 1]
    BY <1>4, <2>1
  <2>4. u[k + 1] = ss[k + 1]
    BY <1>2, <2>1
  <2>5. k + 1 # 1 => G[k] = F[k]
    BY <1>8
  <2> QED
    BY <2>2, <2>3, <2>4, <2>5
<1> HIDE DEF K
<1>9. n \in K
  BY <1>7, <1>8, NatSetInduction
<1>10. n # 0 => G[n] = F[n]
  BY <1>9 DEF K
<1>11. G[n + 1] = IF n + 1 = 1 THEN z ELSE G[n] \o z
  <2>1. n + 1 \in 1..(n + 1) /\ (n + 1) - 1 = n
    OBVIOUS
  <2> QED
    BY <1>2, <1>4, <2>1
<1>12. CASE n = 0
  <2>1. ss = <<>>
    BY <1>1, <1>12, EmptySeq
  <2>2. <<>> \o z = z
    BY ConcatEmptySeq
  <2> QED
    BY <1>5, <1>6, <1>11, <1>12, <2>1, <2>2 DEF u
<1>13. CASE n # 0
  <2>1. n + 1 # 1
    BY <1>13
  <2> QED
    BY <1>5, <1>6, <1>10, <1>11, <1>13, <2>1 DEF u
<1> QED
  BY <1>12, <1>13

\* No sequences make an empty one.
LEMMA FlattenEmpty == FlattenSeq(<<>>) = <<>>
  BY EmptySeq DEF FlattenSeq

\* Lines as Format writes them.
Joined(ls) == FlattenSeq([k \in 1..Len(ls) |-> ls[k] \o <<"nl">>])

\* No lines make an empty text.
LEMMA JoinedEmpty == Joined(<<>>) = <<>>
<1>1. [k \in 1..Len(<<>>) |-> <<>>[k] \o <<"nl">>] = <<>>
  OBVIOUS
<1> QED
  BY <1>1, FlattenEmpty DEF Joined

\* The newline is a piece.
LEMMA NewlineIsText == "nl" \in Pieces /\ <<"nl">> \in Seq(Pieces) /\ <<>> \in Seq(Pieces)
  BY DEF Pieces

\* One more line and its newline go at the end.
LEMMA JoinedAppend ==
    ASSUME NEW ls \in Seq(Seq(Pieces)), NEW z \in Seq(Pieces)
    PROVE  Joined(Append(ls, z)) = Joined(ls) \o (z \o <<"nl">>)
<1>1. PICK n \in Nat : n = Len(ls)
  BY LenProperties
<1> DEFINE u == Append(ls, z)
           mls == [k \in 1..n |-> ls[k] \o <<"nl">>]
           mu == [k \in 1..(n + 1) |-> u[k] \o <<"nl">>]
           y == z \o <<"nl">>
<1>2. Len(u) = n + 1 /\ u[n + 1] = z /\ \A i \in 1..n : u[i] = ls[i]
  BY <1>1, AppendProperties
<1>3. y \in Seq(Pieces)
  BY NewlineIsText, ConcatProperties
<1>4. \A i \in 1..n : ls[i] \o <<"nl">> \in Seq(Pieces)
  <2> SUFFICES ASSUME NEW i \in 1..n PROVE ls[i] \o <<"nl">> \in Seq(Pieces)
    OBVIOUS
  <2>1. ls[i] \in Seq(Pieces)
    BY <1>1, ElementOfSeq
  <2> QED
    BY <2>1, NewlineIsText, ConcatProperties
<1>5. mls \in Seq(Seq(Pieces)) /\ Len(mls) = n
  BY <1>4
<1>6. mu = Append(mls, y)
  <2>1. /\ \A i \in 1..(n + 1) : mu[i] = u[i] \o <<"nl">>
        /\ \A i \in 1..n : mls[i] = ls[i] \o <<"nl">>
        /\ \A i \in 1..(n + 1) : i = n + 1 \/ i \in 1..n
        /\ \A i \in 1..n : i \in 1..(n + 1)
        /\ n + 1 \in 1..(n + 1)
    <3> HIDE DEF u
    <3>1. \A i \in 1..(n + 1) : mu[i] = u[i] \o <<"nl">>
      OBVIOUS
    <3>2. \A i \in 1..n : mls[i] = ls[i] \o <<"nl">>
      OBVIOUS
    <3> HIDE DEF mu, mls
    <3> QED
      BY <3>1, <3>2
  <2>2. \A i \in 1..(n + 1) : mu[i] \in Seq(Pieces)
    <3> HIDE DEF mu, mls, u
    <3> SUFFICES ASSUME NEW i \in 1..(n + 1) PROVE mu[i] \in Seq(Pieces)
      OBVIOUS
    <3>1. CASE i \in 1..n
      BY <1>2, <1>4, <2>1, <3>1
    <3>2. CASE i = n + 1
      BY <1>2, <1>3, <2>1, <3>2
    <3> QED
      BY <2>1, <3>1, <3>2
  <2>3. mu \in Seq(Seq(Pieces)) /\ Len(mu) = n + 1
    <3>1. mu = [k \in 1..(n + 1) |-> mu[k]]
      OBVIOUS
    <3> HIDE DEF mu
    <3>2. n + 1 \in Nat
      OBVIOUS
    <3>3. mu \in [1..(n + 1) -> Seq(Pieces)]
      BY <2>2, <3>1
    <3> QED
      BY <3>2, <3>3
  <2> HIDE DEF mu, mls, u
  <2>4. \A i \in 1..n : mu[i] = mls[i]
    BY <1>2, <2>1
  <2>5. mu[n + 1] = y
    BY <1>2, <2>1
  <2> HIDE DEF y
  <2>6. /\ Append(mls, y) \in Seq(Seq(Pieces)) /\ Len(Append(mls, y)) = n + 1
        /\ Append(mls, y)[n + 1] = y /\ \A i \in 1..n : Append(mls, y)[i] = mls[i]
    BY <1>3, <1>5, AppendProperties
  <2>7. \A i \in 1..(n + 1) : mu[i] = Append(mls, y)[i]
    BY <2>1, <2>4, <2>5, <2>6
  <2> QED
    BY <2>3, <2>6, <2>7, SeqEqual
<1>7. Joined(u) = FlattenSeq(mu) /\ Joined(ls) = FlattenSeq(mls)
  BY <1>1, <1>2 DEF Joined
<1> HIDE DEF u, mls, mu, y
<1>8. FlattenSeq(Append(mls, y)) = FlattenSeq(mls) \o y
  BY <1>3, <1>5, FlattenAppend
<1>9. Joined(u) = Joined(ls) \o y
  BY <1>6, <1>7, <1>8
<1> QED
  BY <1>9 DEF u, y

\* Joined lines are a text.
LEMMA JoinedIsText ==
    ASSUME NEW lines0 \in Seq(Seq(Pieces))
    PROVE  Joined(lines0) \in Seq(Pieces)
<1> DEFINE T == {ls \in Seq(Seq(Pieces)) : Joined(ls) \in Seq(Pieces)}
<1>1. <<>> \in T
  <2>1. <<>> \in Seq(Seq(Pieces))
    BY EmptySeq
  <2>2. Joined(<<>>) \in Seq(Pieces)
    BY JoinedEmpty, NewlineIsText
  <2> QED
    BY <2>1, <2>2
<1>2. ASSUME NEW ls \in Seq(Seq(Pieces)), NEW z \in Seq(Pieces), ls \in T
      PROVE  Append(ls, z) \in T
  <2>1. Append(ls, z) \in Seq(Seq(Pieces))
    BY AppendProperties
  <2>2. z \o <<"nl">> \in Seq(Pieces) /\ Joined(ls) \in Seq(Pieces)
    BY <1>2, NewlineIsText, ConcatProperties
  <2>3. Joined(Append(ls, z)) \in Seq(Pieces)
    BY <2>2, JoinedAppend, ConcatProperties
  <2> QED
    BY <2>1, <2>3
<1> HIDE DEF T
<1>3. Seq(Seq(Pieces)) \subseteq T
  BY <1>1, <1>2, SeqSetInduction
<1> QED
  BY <1>3 DEF T

-----------------------------------------------------------------------------
(* Splitting and joining *)

\* The lines that Split returns, and what they give when they are joined.
SplitIsRight(t) ==
    /\ Split(t) \in Seq(Seq(Pieces)) /\ Split(t) # <<>>
    /\ Joined(Split(t)) = t \o <<"nl">>

\* A sequence that is not empty, as what Append made it from.
LEMMA FrontAndLast ==
    ASSUME NEW S, NEW s \in Seq(S), NEW x \in S
    PROVE  /\ Append(s, x) # <<>> /\ Front(Append(s, x)) = s /\ Last(Append(s, x)) = x
<1> DEFINE u == Append(s, x)
<1>1. /\ u \in Seq(S) /\ u # <<>> /\ Len(u) = Len(s) + 1 /\ Len(s) \in Nat
      /\ u[Len(s) + 1] = x /\ \A i \in 1..Len(s) : u[i] = s[i]
  BY AppendProperties, LenProperties
<1> HIDE DEF u
<1>2. Last(u) = x
  BY <1>1 DEF Last
<1>3. Front(u) = SubSeq(u, 1, Len(s))
  BY <1>1 DEF Front
<1>4. /\ SubSeq(u, 1, Len(s)) \in Seq(S) /\ Len(SubSeq(u, 1, Len(s))) = Len(s)
      /\ \A i \in 1..Len(s) : SubSeq(u, 1, Len(s))[i] = s[i]
  BY <1>1
<1>5. SubSeq(u, 1, Len(s)) = s
  BY <1>4, SeqEqual
<1> QED
  BY <1>1, <1>2, <1>3, <1>5 DEF u

\* Joining the lines that Split makes gives the text back.
LEMMA SplitThenJoin ==
    ASSUME NEW text0 \in Seq(Pieces)
    PROVE  SplitIsRight(text0)
<1> DEFINE T == {t \in Seq(Pieces) : SplitIsRight(t)}
           nl == <<"nl">>
<1>1. <<>> \in T
  <2>1. <<>> \in Seq(Seq(Pieces)) /\ Append(<<>>, <<>>) = << <<>> >>
    OBVIOUS
  <2>2. Joined(<< <<>> >>) = Joined(<<>>) \o (<<>> \o nl)
    BY <2>1, NewlineIsText, JoinedAppend
  <2>3. <<>> \o nl = nl
    BY NewlineIsText, ConcatEmptySeq
  <2>4. << <<>> >> \in Seq(Seq(Pieces)) /\ << <<>> >> # <<>>
    BY NewlineIsText
  <2>5. Joined(<< <<>> >>) = <<>> \o nl
    BY <2>2, <2>3, JoinedEmpty
  <2> QED
    BY <2>4, <2>5, NewlineIsText, SplitEmpty DEF SplitIsRight
<1>2. ASSUME NEW t \in Seq(Pieces), NEW x \in Pieces, t \in T PROVE Append(t, x) \in T
  <2> DEFINE u == Append(t, x)
             S == Split(t)
  <2>1. /\ S \in Seq(Seq(Pieces)) /\ S # <<>> /\ Joined(S) = t \o nl
    BY <1>2 DEF SplitIsRight
  <2>2. Split(u) = AddPiece(S, x)
    BY SplitAppend
  <2>3. u \in Seq(Pieces) /\ u = t \o <<x>> /\ <<x>> \in Seq(Pieces)
    BY AppendProperties, AppendIsConcat
  <2> HIDE DEF u, S
  <2>4. ASSUME x = "nl" PROVE SplitIsRight(u)
    <3>1. Split(u) = Append(S, <<>>)
      BY <2>2, <2>4 DEF AddPiece
    <3>2. Append(S, <<>>) \in Seq(Seq(Pieces)) /\ Append(S, <<>>) # <<>>
      BY <2>1, NewlineIsText, AppendProperties
    <3>3. Joined(Append(S, <<>>)) = (t \o nl) \o (<<>> \o nl)
      BY <2>1, NewlineIsText, JoinedAppend
    <3>4. <<>> \o nl = nl
      BY NewlineIsText, ConcatEmptySeq
    <3>5. u = t \o nl
      BY <2>3, <2>4
    <3> QED
      BY <2>3, <3>1, <3>2, <3>3, <3>4, <3>5 DEF SplitIsRight
  <2>5. ASSUME x # "nl" PROVE SplitIsRight(u)
    <3>1. PICK r \in Seq(Seq(Pieces)), l \in Seq(Pieces) : S = Append(r, l)
      BY <2>1, SequenceEmptyOrAppend
    <3>2. Front(S) = r /\ Last(S) = l
      BY <3>1, FrontAndLast
    <3> DEFINE m == Append(l, x)
    <3>3. Split(u) = Append(r, m)
      BY <2>2, <2>5, <3>2 DEF AddPiece
    <3>4. m \in Seq(Pieces)
      BY AppendProperties
    <3>5. m \in Seq(Pieces) /\ m = l \o <<x>>
      BY AppendProperties, AppendIsConcat
    <3> HIDE DEF m
    <3>6. Append(r, m) \in Seq(Seq(Pieces)) /\ Append(r, m) # <<>>
      BY <3>4, AppendProperties
    <3>7. Joined(S) = Joined(r) \o (l \o nl)
      BY <3>1, JoinedAppend
    <3>8. Joined(Append(r, m)) = Joined(r) \o (m \o nl)
      BY <3>5, JoinedAppend
    <3>9. Joined(r) \in Seq(Pieces)
      BY JoinedIsText
    <3>10. Joined(r) \o (l \o nl) = (Joined(r) \o l) \o nl
      BY <3>9, NewlineIsText, ConcatAssociative, SMTT(30)
    <3>11. Joined(r) \o l \in Seq(Pieces)
      BY <3>9, ConcatProperties
    <3>12. (Joined(r) \o l) \o nl = t \o nl
      BY <2>1, <3>7, <3>10
    <3>13. Joined(r) \o l = t
      BY <3>11, <3>12, NewlineIsText, ConcatSimplifications
    <3>14. Joined(r) \o (m \o nl) = (Joined(r) \o m) \o nl
      BY <3>5, <3>9, NewlineIsText, ConcatAssociative, SMTT(30)
    <3>15. <<x>> \in Seq(Pieces)
      BY <2>3
    <3>16. Joined(r) \o (l \o <<x>>) = (Joined(r) \o l) \o <<x>>
      BY <3>9, <3>15, ConcatAssociative
    <3>17. Joined(r) \o m = (Joined(r) \o l) \o <<x>>
      BY <3>5, <3>16
    <3>18. Joined(Append(r, m)) = u \o nl
      BY <2>3, <3>8, <3>13, <3>14, <3>17
    <3> QED
      BY <2>3, <3>3, <3>6, <3>18 DEF SplitIsRight
  <2>6. u \in T
    BY <2>3, <2>4, <2>5
  <2> QED
    BY <2>6 DEF u
<1> HIDE DEF T
<1>3. Seq(Pieces) \subseteq T
  BY <1>1, <1>2, SeqSetInduction
<1> QED
  BY <1>3 DEF T

\* A text without a newline is one line.
LEMMA SplitOneLine ==
    ASSUME NEW text0 \in Seq(Pieces), \A i \in 1..Len(text0) : text0[i] # "nl"
    PROVE  Split(text0) = <<text0>>
<1> DEFINE T == {t \in Seq(Pieces) : (\A i \in 1..Len(t) : t[i] # "nl") => Split(t) = <<t>>}
<1>1. <<>> \in T
  BY SplitEmpty, NewlineIsText
<1>2. ASSUME NEW t \in Seq(Pieces), NEW x \in Pieces, t \in T PROVE Append(t, x) \in T
  <2> DEFINE u == Append(t, x)
  <2>1. u \in Seq(Pieces) /\ Len(u) = Len(t) + 1 /\ Len(t) \in Nat
        /\ u[Len(t) + 1] = x /\ \A i \in 1..Len(t) : u[i] = t[i]
    BY AppendProperties, LenProperties
  <2>2. Split(u) = AddPiece(Split(t), x)
    BY SplitAppend
  <2>3. ASSUME \A i \in 1..Len(u) : u[i] # "nl" PROVE Split(u) = <<u>>
    <3> HIDE DEF u
    <3>1. x # "nl" /\ \A i \in 1..Len(t) : t[i] # "nl"
      BY <2>1, <2>3
    <3>2. Split(t) = <<t>>
      BY <1>2, <3>1
    <3>3. <<>> \in Seq(Seq(Pieces)) /\ <<t>> = Append(<<>>, t) /\ <<u>> = Append(<<>>, u)
      OBVIOUS
    <3>4. Front(Append(<<>>, t)) = <<>> /\ Last(Append(<<>>, t)) = t
      BY <3>3, FrontAndLast
    <3>5. Front(<<t>>) = <<>> /\ Last(<<t>>) = t
      BY <3>3, <3>4
    <3>6. AddPiece(<<t>>, x) = Append(<<>>, Append(t, x))
      BY <3>1, <3>5 DEF AddPiece
    <3> QED
      BY <2>2, <3>2, <3>3, <3>6 DEF u
  <2> HIDE DEF u
  <2>4. u \in T
    BY <2>1, <2>3
  <2> QED
    BY <2>4 DEF u
<1> HIDE DEF T
<1>3. Seq(Pieces) \subseteq T
  BY <1>1, <1>2, SeqSetInduction
<1> QED
  BY <1>3 DEF T

-----------------------------------------------------------------------------
(* One line *)

\* The first separator, or 0.
LEMMA IndexMeans ==
    ASSUME NEW raw \in Seq(Pieces)
    PROVE  \/ Index(raw) = 0 /\ \A j \in 1..Len(raw) : raw[j] # "sep"
           \/ /\ Index(raw) \in 1..Len(raw) /\ raw[Index(raw)] = "sep"
              /\ \A j \in 1..(Index(raw) - 1) : raw[j] # "sep"
<1> DEFINE I == {i \in 1..Len(raw) : raw[i] = "sep"}
<1>1. Index(raw) = IF I # {} THEN Min(I) ELSE 0
  BY DEF Index, SelectInSeq
<1>2. CASE I = {}
  BY <1>1, <1>2
<1>3. CASE I # {}
  <2>1. I \subseteq Nat
    OBVIOUS
  <2>2. PICK n \in I : \A m \in I : n <= m
    BY <1>3, <2>1, LeastElement
  <2>3. Min(I) \in I /\ \A m \in I : Min(I) <= m
    <3> HIDE DEF I
    <3> QED
      BY <2>2 DEF Min
  <2> DEFINE m == Min(I)
  <2>4. m \in 1..Len(raw) /\ raw[m] = "sep" /\ Index(raw) = m
    BY <1>1, <1>3, <2>3
  <2> HIDE DEF m
  <2>5. ASSUME NEW j \in 1..(m - 1), raw[j] = "sep" PROVE FALSE
    <3>1. j \in 1..Len(raw) /\ ~(m <= j)
      BY <2>4, LenProperties
    <3>2. j \in I
      BY <2>5, <3>1
    <3> QED
      BY <2>3, <3>1, <3>2 DEF m
  <2> QED
    BY <2>4, <2>5
<1> QED
  BY <1>2, <1>3

\* The words of the format are texts.
LEMMA WordsAreText ==
    /\ <<"sep">> \in Seq(Pieces) /\ <<"OK">> \in Seq(Pieces) /\ <<"OK", "sp">> \in Seq(Pieces)
    /\ <<"DENIED">> \in Seq(Pieces) /\ <<"close">> \in Seq(Pieces) /\ <<"a">> \in Seq(Pieces)
    /\ <<"sep", "OK">> \in Seq(Pieces) /\ <<"sep", "OK", "sp">> \in Seq(Pieces)
    /\ <<"sep", "DENIED">> \in Seq(Pieces)
<1>1. /\ "sep" \in Pieces /\ "OK" \in Pieces /\ "sp" \in Pieces /\ "DENIED" \in Pieces
      /\ "close" \in Pieces /\ "a" \in Pieces
  BY DEF Pieces
<1> HIDE DEF Pieces
<1> QED
  BY <1>1

\* Short texts put together.
LEMMA ShortConcat ==
    ASSUME NEW x \in Pieces, NEW y \in Pieces, NEW z \in Pieces
    PROVE  <<x>> \o <<y>> = <<x, y>> /\ <<x>> \o <<y, z>> = <<x, y, z>>
<1>1. <<x>> \in Seq(Pieces) /\ <<y>> \in Seq(Pieces) /\ <<z>> \in Seq(Pieces) /\ <<x, y>> \in Seq(Pieces)
  OBVIOUS
<1>2. Append(<<x>>, y) = <<x, y>> /\ Append(<<y>>, z) = <<y, z>> /\ Append(<<x, y>>, z) = <<x, y, z>>
  <2>1. ASSUME NEW a \in Pieces, NEW b \in Pieces PROVE Append(<<a>>, b) = <<a, b>>
    <3> DEFINE s == Append(<<a>>, b)
               t == <<a, b>>
    <3>1. s \in Seq(Pieces) /\ Len(s) = 2 /\ s[1] = a /\ s[2] = b
      OBVIOUS
    <3>2. t \in Seq(Pieces) /\ Len(t) = 2 /\ t[1] = a /\ t[2] = b
      OBVIOUS
    <3> HIDE DEF s, t
    <3>3. \A i \in 1..2 : s[i] = t[i]
      BY <3>1, <3>2
    <3>4. s = t
      BY <3>1, <3>2, <3>3, SeqEqual
    <3> QED
      BY <3>4 DEF s, t
  <2>2. Append(<<x, y>>, z) = <<x, y, z>>
    <3> DEFINE s == Append(<<x, y>>, z)
               t == <<x, y, z>>
    <3>1. s \in Seq(Pieces) /\ Len(s) = 3 /\ s[1] = x /\ s[2] = y /\ s[3] = z
      OBVIOUS
    <3>2. t \in Seq(Pieces) /\ Len(t) = 3 /\ t[1] = x /\ t[2] = y /\ t[3] = z
      OBVIOUS
    <3> HIDE DEF s, t
    <3>3. \A i \in 1..3 : s[i] = t[i]
      BY <3>1, <3>2
    <3>4. s = t
      BY <3>1, <3>2, <3>3, SeqEqual
    <3> QED
      BY <3>4 DEF s, t
  <2> QED
    BY <2>1, <2>2
<1>3. <<x>> \o <<y>> = <<x, y>> /\ <<y>> \o <<z>> = <<y, z>> /\ <<x, y>> \o <<z>> = <<x, y, z>>
  BY <1>1, <1>2, AppendIsConcat
<1>4. <<x>> \o (<<y>> \o <<z>>) = (<<x>> \o <<y>>) \o <<z>>
  BY <1>1, ConcatAssociative
<1> QED
  BY <1>3, <1>4

\* A malformed line is written as it was read.
LEMMA BadIsKept ==
    ASSUME NEW raw
    PROVE  String(Bad(raw)) = raw
  BY DEF String, Bad

\* The separator goes in front of the status.
LEMMA StatusWords ==
    ASSUME NEW d \in Seq(Pieces)
    PROVE  /\ <<"sep">> \o <<"OK">> = <<"sep", "OK">>
           /\ <<"sep">> \o (<<"OK", "sp">> \o d) = <<"sep", "OK", "sp">> \o d
           /\ <<"sep">> \o ((<<"DENIED">> \o d) \o <<"close">>)
                = (<<"sep", "DENIED">> \o d) \o <<"close">>
<1>1. "sep" \in Pieces /\ "OK" \in Pieces /\ "sp" \in Pieces /\ "DENIED" \in Pieces
  BY DEF Pieces
<1>2. <<"sep">> \o <<"OK">> = <<"sep", "OK">>
  BY <1>1, ShortConcat
<1>3. <<"sep">> \o <<"OK", "sp">> = <<"sep", "OK", "sp">>
  BY <1>1, ShortConcat
<1>4. <<"sep">> \o <<"DENIED">> = <<"sep", "DENIED">>
  BY <1>1, ShortConcat
<1>5. <<"sep">> \o (<<"OK", "sp">> \o d) = (<<"sep">> \o <<"OK", "sp">>) \o d
  BY WordsAreText, ConcatAssociative
<1>6. <<"sep">> \o (<<"DENIED">> \o d) = (<<"sep">> \o <<"DENIED">>) \o d
  BY WordsAreText, ConcatAssociative
<1>7. <<"DENIED">> \o d \in Seq(Pieces)
  BY WordsAreText, ConcatProperties
<1>8. <<"sep">> \o ((<<"DENIED">> \o d) \o <<"close">>) = (<<"sep">> \o (<<"DENIED">> \o d)) \o <<"close">>
  BY <1>7, WordsAreText, ConcatAssociative
<1> QED
  BY <1>2, <1>3, <1>4, <1>5, <1>6, <1>8

\* A status with a detail, taken apart.
LEMMA OkDetail ==
    ASSUME NEW rest \in Seq(Pieces), IsPrefix(<<"OK", "sp">>, rest)
    PROVE  /\ From(rest, 3) \in Seq(Pieces) /\ Len(From(rest, 3)) = Len(rest) - 2
           /\ rest = <<"OK", "sp">> \o From(rest, 3)
<1> DEFINE w == <<"OK", "sp">>
<1>1. w \in Seq(Pieces) /\ Len(w) = 2 /\ w[1] = "OK" /\ w[2] = "sp"
  BY WordsAreText
<1> HIDE DEF w
<1>2. Len(w) <= Len(rest) /\ \A j \in 1..Len(w) : w[j] = rest[j]
  <2>1. IsPrefix(w, rest)
    BY DEF w
  <2> QED
    BY <1>1, <2>1, PrefixByByte
<1>3. Len(rest) \in Nat /\ Len(rest) >= 2 /\ w[1] = rest[1] /\ w[2] = rest[2]
  BY <1>1, <1>2, LenProperties
<1> DEFINE d == From(rest, 3)
<1>4. /\ d \in Seq(Pieces) /\ Len(d) = Len(rest) - 2
      /\ \A i \in 1..(Len(rest) - 2) : d[i] = rest[i + 2]
  BY <1>3 DEF From
<1> HIDE DEF d
<1>5. /\ w \o d \in Seq(Pieces) /\ Len(w \o d) = 2 + Len(d)
      /\ \A i \in 1..(2 + Len(d)) : (w \o d)[i] = IF i <= 2 THEN w[i] ELSE d[i - 2]
  <2>1. /\ w \o d \in Seq(Pieces) /\ Len(w \o d) = Len(w) + Len(d)
        /\ \A i \in 1..(Len(w) + Len(d)) :
             (w \o d)[i] = IF i <= Len(w) THEN w[i] ELSE d[i - Len(w)]
    <3>1. w \in Seq(Pieces) /\ d \in Seq(Pieces)
      BY <1>1, <1>4
    <3> QED
      BY <3>1, ConcatProperties
  <2> QED
    BY <1>1, <2>1
<1>6. Len(w \o d) = Len(rest)
  BY <1>3, <1>4, <1>5
<1>7. ASSUME NEW i \in 1..Len(rest) PROVE (w \o d)[i] = rest[i]
  <2>1. (w \o d)[i] = IF i <= 2 THEN w[i] ELSE d[i - 2]
    BY <1>3, <1>4, <1>5
  <2>2. CASE i <= 2
    <3>1. i = 1 \/ i = 2
      BY <1>3, <2>2
    <3> QED
      BY <1>3, <2>1, <3>1
  <2>3. CASE ~(i <= 2)
    <3>1. i - 2 \in 1..(Len(rest) - 2) /\ (i - 2) + 2 = i
      BY <1>3, <2>3
    <3> QED
      BY <1>4, <2>1, <2>3, <3>1
  <2> QED
    BY <2>2, <2>3
<1>8. w \o d = rest
  BY <1>5, <1>6, <1>7, SeqEqual
<1> QED
  BY <1>4, <1>8 DEF w, d

\* A refusal, taken apart.
LEMMA DeniedDetail ==
    ASSUME NEW rest \in Seq(Pieces), IsPrefix(<<"DENIED">>, rest), Last(rest) = "close"
    PROVE  /\ SubSeq(rest, 2, Len(rest) - 1) \in Seq(Pieces)
           /\ rest = (<<"DENIED">> \o SubSeq(rest, 2, Len(rest) - 1)) \o <<"close">>
<1> DEFINE w == <<"DENIED">>
           e == <<"close">>
<1>1. /\ w \in Seq(Pieces) /\ Len(w) = 1 /\ w[1] = "DENIED"
      /\ e \in Seq(Pieces) /\ Len(e) = 1 /\ e[1] = "close"
  BY WordsAreText
<1> HIDE DEF w, e
<1>2. Len(w) <= Len(rest) /\ \A j \in 1..Len(w) : w[j] = rest[j]
  <2>1. IsPrefix(w, rest)
    BY DEF w
  <2> QED
    BY <1>1, <2>1, PrefixByByte
<1>3. PICK n \in Nat : n = Len(rest)
  BY LenProperties
<1>4. n >= 1 /\ rest[1] = w[1] /\ rest[n] = e[1]
  BY <1>1, <1>2, <1>3 DEF Last
<1>5. n # 1
  BY <1>1, <1>4
<1> DEFINE d == SubSeq(rest, 2, n - 1)
<1>6. \A i \in 2..(n - 1) : rest[i] \in Pieces
  BY <1>3, ElementOfSeq
<1>7. d \in Seq(Pieces) /\ Len(d) = n - 2 /\ \A i \in 1..(n - 2) : d[i] = rest[i + 1]
  BY <1>3, <1>4, <1>5
<1> HIDE DEF d
<1> DEFINE wd == w \o d
<1>8. /\ wd \in Seq(Pieces) /\ Len(wd) = n - 1
      /\ \A i \in 1..(n - 1) : wd[i] = IF i <= 1 THEN w[i] ELSE d[i - 1]
  <2>1. /\ wd \in Seq(Pieces) /\ Len(wd) = Len(w) + Len(d)
        /\ \A i \in 1..(Len(w) + Len(d)) :
             wd[i] = IF i <= Len(w) THEN w[i] ELSE d[i - Len(w)]
    BY <1>1, <1>7, ConcatProperties
  <2>2. Len(w) + Len(d) = n - 1 /\ Len(w) = 1
    BY <1>1, <1>7
  <2> QED
    BY <2>1, <2>2
<1> HIDE DEF wd
<1>9. /\ wd \o e \in Seq(Pieces) /\ Len(wd \o e) = n
      /\ \A i \in 1..n : (wd \o e)[i] = IF i <= n - 1 THEN wd[i] ELSE e[i - (n - 1)]
  <2>1. /\ wd \o e \in Seq(Pieces) /\ Len(wd \o e) = Len(wd) + Len(e)
        /\ \A i \in 1..(Len(wd) + Len(e)) :
             (wd \o e)[i] = IF i <= Len(wd) THEN wd[i] ELSE e[i - Len(wd)]
    BY <1>1, <1>8, ConcatProperties
  <2>2. Len(wd) + Len(e) = n /\ Len(wd) = n - 1
    BY <1>1, <1>8
  <2> QED
    BY <2>1, <2>2
<1>10. ASSUME NEW i \in 1..n PROVE (wd \o e)[i] = rest[i]
  <2>1. CASE i = 1
    BY <1>4, <1>5, <1>8, <1>9, <2>1
  <2>2. CASE i = n
    <3>1. i - (n - 1) = 1 /\ ~(i <= n - 1)
      BY <2>2
    <3> QED
      BY <1>4, <1>9, <2>2, <3>1
  <2>3. CASE i # 1 /\ i # n
    <3>1. i <= n - 1 /\ ~(i <= 1) /\ i \in 1..(n - 1) /\ i - 1 \in 1..(n - 2) /\ (i - 1) + 1 = i
      BY <2>3
    <3> QED
      BY <1>7, <1>8, <1>9, <3>1
  <2> QED
    BY <2>1, <2>2, <2>3
<1>11. wd \o e = rest
  BY <1>3, <1>9, <1>10, SeqEqual
<1> QED
  BY <1>3, <1>7, <1>11 DEF w, e, d, wd

\* Writing the line that parseStatus read gives its text.
LEMMA StatusIsKept ==
    ASSUME NEW name \in Seq(Pieces), NEW rest \in Seq(Pieces), NEW raw \in Seq(Pieces),
           raw = name \o (<<"sep">> \o rest)
    PROVE  String(parseStatus(raw, name, rest)) = raw
<1>1. CASE rest = <<"OK">>
  <2>1. parseStatus(raw, name, rest) = Line(name, TRUE, <<>>)
    BY <1>1 DEF parseStatus
  <2>2. String(Line(name, TRUE, <<>>)) = name \o <<"sep", "OK">>
    BY DEF String, Line
  <2>3. <<"sep">> \o <<"OK">> = <<"sep", "OK">>
    BY StatusWords
  <2> QED
    BY <1>1, <2>1, <2>2, <2>3
<1> DEFINE d == From(rest, 3)
           Detailed == IsPrefix(<<"OK", "sp">>, rest) /\ Len(rest) > 2 /\ ValidDetail(d)
<1>2. CASE rest # <<"OK">> /\ Detailed
  <2>1. parseStatus(raw, name, rest) = Line(name, TRUE, d)
    BY <1>2 DEF parseStatus
  <2>2. d \in Seq(Pieces) /\ Len(d) = Len(rest) - 2 /\ rest = <<"OK", "sp">> \o d
    BY <1>2, OkDetail
  <2>3. d # <<>>
    <3>1. Len(rest) \in Nat /\ Len(rest) > 2
      BY <1>2, LenProperties
    <3> QED
      BY <2>2, <3>1, EmptySeq
  <2> HIDE DEF d
  <2>4. String(Line(name, TRUE, d)) = name \o (<<"sep", "OK", "sp">> \o d)
    BY <2>3 DEF String, Line
  <2>5. <<"sep">> \o rest = <<"sep", "OK", "sp">> \o d
    BY <2>2, StatusWords
  <2> QED
    BY <2>1, <2>4, <2>5
<1> DEFINE e == SubSeq(rest, 2, Len(rest) - 1)
           Refused == IsPrefix(<<"DENIED">>, rest) /\ Last(rest) = "close" /\ ValidDetail(rest)
<1>3. CASE rest # <<"OK">> /\ ~Detailed /\ Refused
  <2>1. parseStatus(raw, name, rest) = Line(name, FALSE, e)
    BY <1>3 DEF parseStatus
  <2>2. e \in Seq(Pieces) /\ rest = (<<"DENIED">> \o e) \o <<"close">>
    BY <1>3, DeniedDetail
  <2> HIDE DEF e
  <2>3. String(Line(name, FALSE, e)) = name \o ((<<"sep", "DENIED">> \o e) \o <<"close">>)
    BY DEF String, Line
  <2>4. <<"sep">> \o rest = (<<"sep", "DENIED">> \o e) \o <<"close">>
    BY <2>2, StatusWords
  <2> QED
    BY <2>1, <2>3, <2>4
<1>4. CASE rest # <<"OK">> /\ ~Detailed /\ ~Refused
  <2>1. parseStatus(raw, name, rest) = Bad(raw)
    BY <1>4 DEF parseStatus
  <2> QED
    BY <2>1, BadIsKept
<1> QED
  BY <1>1, <1>2, <1>3, <1>4

\* Writing a line that parseLine read gives its text.
LEMMA LineIsKept ==
    ASSUME NEW raw \in Seq(Pieces)
    PROVE  String(parseLine(raw)) = raw
<1> DEFINE i == Index(raw)
           name == SubSeq(raw, 1, i - 1)
           rest == From(raw, i + 1)
<1>1. CASE i = 0 \/ ~ValidName(name)
  <2>1. parseLine(raw) = Bad(raw)
    BY <1>1 DEF parseLine
  <2> QED
    BY <2>1, BadIsKept
<1>2. CASE ~(i = 0 \/ ~ValidName(name))
  <2>1. parseLine(raw) = parseStatus(raw, name, rest)
    BY <1>2 DEF parseLine
  <2>2. PICK n \in Nat : n = Len(raw)
    BY LenProperties
  <2>3. i \in 1..n /\ raw[i] = "sep"
    BY <1>2, <2>2, IndexMeans
  <2> HIDE DEF i
  <2>4. SubSeq(raw, i, n) = <<raw[i]>> \o SubSeq(raw, i + 1, n)
    BY <2>2, <2>3, SubSeqRecursiveFirst, n \in i..n
  <2>5. SubSeq(raw, 1, i - 1) \o SubSeq(raw, (i - 1) + 1, n) = SubSeq(raw, 1, n)
    <3>1. 1 \in 1..(n + 1) /\ i - 1 \in (1 - 1)..n /\ n \in (i - 1)..n
      BY <2>3
    <3> QED
      BY <2>2, <3>1, ConcatAdjacentSubSeq
  <2>6. SubSeq(raw, 1, n) = raw /\ (i - 1) + 1 = i
    BY <2>2, <2>3, SubSeqFull
  <2>7. rest = SubSeq(raw, i + 1, n)
    BY <2>2 DEF From
  <2>8. raw = name \o (<<"sep">> \o rest)
    BY <2>3, <2>4, <2>5, <2>6, <2>7
  <2>9. name \in Seq(Pieces) /\ rest \in Seq(Pieces)
    <3>1. \A j \in 1..(i - 1) : raw[j] \in Pieces
      BY <2>2, <2>3, ElementOfSeq
    <3>2. \A j \in (i + 1)..n : raw[j] \in Pieces
      BY <2>2, <2>3, ElementOfSeq
    <3>3. i - 1 \in Int /\ i + 1 \in Int /\ n \in Int /\ 1 \in Int
      BY <2>3
    <3> QED
      BY <2>7, <3>1, <3>2, <3>3, SubSeqProperties
  <2> HIDE DEF name, rest
  <2> QED
    <3>1. String(parseStatus(raw, name, rest)) = raw
      BY <2>8, <2>9, StatusIsKept
    <3> QED
      BY <2>1, <3>1
<1> QED
  BY <1>1, <1>2

-----------------------------------------------------------------------------
(* A whole text *)

\* The lines parsed one by one.
ParsedLines(ls) == [k \in 1..Len(ls) |-> parseLine(ls[k])]

\* Parse splits the text without its last newline.
LEMMA ParseMeans ==
    ASSUME NEW t \in Seq(Pieces), NEW x \in Pieces
    PROVE  Parse(Append(t, x)) = ParsedLines(Split(IF x = "nl" THEN t ELSE Append(t, x)))
<1>1. Append(t, x) # <<>> /\ Front(Append(t, x)) = t /\ Last(Append(t, x)) = x
  BY FrontAndLast
<1> QED
  BY <1>1 DEF Parse, Lines, ParsedLines

\* Writing the lines that were parsed gives their text.
LEMMA FormatParsed ==
    ASSUME NEW t \in Seq(Pieces)
    PROVE  Format(ParsedLines(Split(t))) = Append(t, "nl")
<1> DEFINE ls == Split(t)
           P == ParsedLines(ls)
<1>1. ls \in Seq(Seq(Pieces)) /\ Joined(ls) = t \o <<"nl">>
  BY SplitThenJoin DEF SplitIsRight
<1> HIDE DEF ls
<1>2. PICK n \in Nat : n = Len(ls)
  BY <1>1, LenProperties
<1>3. DOMAIN P = 1..n /\ \A k \in 1..n : P[k] = parseLine(ls[k])
  BY <1>2 DEF ParsedLines
<1>4. Len(P) = n
  BY <1>3
<1>5. \A k \in 1..n : String(P[k]) = ls[k]
  <2> SUFFICES ASSUME NEW k \in 1..n PROVE String(P[k]) = ls[k]
    OBVIOUS
  <2>1. ls[k] \in Seq(Pieces)
    BY <1>1, <1>2, ElementOfSeq
  <2> QED
    BY <1>3, <2>1, LineIsKept
<1> HIDE DEF P
<1>6. Format(P) = Joined(ls)
  BY <1>2, <1>4, <1>5 DEF Format, Joined
<1>7. Append(t, "nl") = t \o <<"nl">>
  BY NewlineIsText, AppendIsConcat
<1> QED
  BY <1>1, <1>6, <1>7 DEF P, ls

\* Parsing and formatting a text gives it back, its last newline added.
LEMMA RoundTrip ==
    ASSUME NEW t \in Seq(Pieces), t # <<>>
    PROVE  Format(Parse(t)) = IF Last(t) = "nl" THEN t ELSE Append(t, "nl")
<1>1. PICK r \in Seq(Pieces), x \in Pieces : t = Append(r, x)
  BY SequenceEmptyOrAppend
<1>2. Last(t) = x
  BY <1>1, FrontAndLast
<1>3. Parse(t) = ParsedLines(Split(IF x = "nl" THEN r ELSE t))
  BY <1>1, ParseMeans
<1>4. CASE x = "nl"
  <2>1. Format(ParsedLines(Split(r))) = Append(r, "nl")
    BY FormatParsed
  <2> QED
    BY <1>1, <1>2, <1>3, <1>4, <2>1
<1>5. CASE x # "nl"
  <2>1. Format(ParsedLines(Split(t))) = Append(t, "nl")
    BY FormatParsed
  <2> QED
    BY <1>2, <1>3, <1>5, <2>1
<1> QED
  BY <1>4, <1>5

-----------------------------------------------------------------------------
(* A line that the probe reports *)

StatusOf(isOk, d) ==
    IF ~isOk THEN (<<"DENIED">> \o d) \o <<"close">>
    ELSE IF d = <<>> THEN <<"OK">> ELSE <<"OK", "sp">> \o d

\* What StatusOf is made of.
LEMMA StatusIsText ==
    ASSUME NEW d \in Seq(Pieces), NEW isOk \in BOOLEAN
    PROVE  StatusOf(isOk, d) \in Seq(Pieces)
<1>1. /\ <<"DENIED">> \o d \in Seq(Pieces)
      /\ <<"OK", "sp">> \o d \in Seq(Pieces)
  BY WordsAreText, ConcatProperties
<1>2. (<<"DENIED">> \o d) \o <<"close">> \in Seq(Pieces)
  BY <1>1, WordsAreText, ConcatProperties
<1> QED
  BY <1>1, <1>2, WordsAreText DEF StatusOf

\* String writes the name, the separator and the status.
LEMMA LineAsStatus ==
    ASSUME NEW d \in Seq(Pieces), NEW isOk \in BOOLEAN
    PROVE  String(Line(<<"a">>, isOk, d)) = <<"a">> \o (<<"sep">> \o StatusOf(isOk, d))
<1> DEFINE name == <<"a">>
<1> HIDE DEF name
<1>1. CASE ~isOk
  <2>1. String(Line(name, isOk, d)) = name \o ((<<"sep", "DENIED">> \o d) \o <<"close">>)
    BY <1>1 DEF String, Line
  <2> QED
    BY <1>1, <2>1, StatusWords DEF StatusOf, name
<1>2. CASE isOk /\ d = <<>>
  <2>1. String(Line(name, isOk, d)) = name \o <<"sep", "OK">>
    BY <1>2 DEF String, Line
  <2>2. <<"sep">> \o <<"OK">> = <<"sep", "OK">>
    BY StatusWords
  <2>3. StatusOf(isOk, d) = <<"OK">>
    BY <1>2 DEF StatusOf
  <2> QED
    BY <2>1, <2>2, <2>3 DEF name
<1>3. CASE isOk /\ d # <<>>
  <2>1. String(Line(name, isOk, d)) = name \o (<<"sep", "OK", "sp">> \o d)
    BY <1>3 DEF String, Line
  <2> QED
    BY <1>3, <2>1, StatusWords DEF StatusOf, name
<1> QED
  BY <1>1, <1>2, <1>3

\* A line with the name a, taken apart at its first separator.
LEMMA NameThenStatus ==
    ASSUME NEW rest \in Seq(Pieces), NEW raw, raw = <<"a">> \o (<<"sep">> \o rest)
    PROVE  /\ raw \in Seq(Pieces) /\ Len(raw) = Len(rest) + 2
           /\ raw[1] = "a" /\ raw[2] = "sep" /\ \A i \in 3..Len(raw) : raw[i] = rest[i - 2]
           /\ parseLine(raw) = parseStatus(raw, <<"a">>, rest)
<1>1. PICK n \in Nat : n = Len(rest)
  BY LenProperties
<1> DEFINE a == <<"a">>
           p == <<"sep">>
           q == p \o rest
<1>2. /\ a \in Seq(Pieces) /\ Len(a) = 1 /\ a[1] = "a"
      /\ p \in Seq(Pieces) /\ Len(p) = 1 /\ p[1] = "sep"
  BY WordsAreText
<1>3. raw = a \o q
  OBVIOUS
<1> HIDE DEF a, p
<1>4. /\ q \in Seq(Pieces) /\ Len(q) = 1 + n
      /\ \A i \in 1..(1 + n) : q[i] = IF i <= 1 THEN p[i] ELSE rest[i - 1]
  <2>1. /\ q \in Seq(Pieces) /\ Len(q) = Len(p) + Len(rest)
        /\ \A i \in 1..(Len(p) + Len(rest)) :
             q[i] = IF i <= Len(p) THEN p[i] ELSE rest[i - Len(p)]
    BY <1>2, ConcatProperties
  <2> QED
    BY <1>1, <1>2, <2>1
<1> HIDE DEF q
<1>5. /\ raw \in Seq(Pieces) /\ Len(raw) = 2 + n
      /\ \A i \in 1..(2 + n) : raw[i] = IF i <= 1 THEN a[i] ELSE q[i - 1]
  <2>1. /\ a \o q \in Seq(Pieces) /\ Len(a \o q) = Len(a) + Len(q)
        /\ \A i \in 1..(Len(a) + Len(q)) :
             (a \o q)[i] = IF i <= Len(a) THEN a[i] ELSE q[i - Len(a)]
    BY <1>2, <1>4, ConcatProperties
  <2>2. Len(a) = 1 /\ Len(a) + Len(q) = 2 + n
    BY <1>2, <1>4
  <2> QED
    BY <1>3, <2>1, <2>2
<1>6. raw[1] = "a" /\ raw[2] = "sep"
  <2>1. 1 \in 1..(2 + n) /\ 2 \in 1..(2 + n) /\ 1 \in 1..(1 + n)
    OBVIOUS
  <2>2. raw[1] = a[1] /\ raw[2] = q[1] /\ q[1] = p[1]
    BY <1>4, <1>5, <2>1
  <2> QED
    BY <1>2, <2>2
<1>7. ASSUME NEW i \in 3..(2 + n) PROVE raw[i] = rest[i - 2]
  <2>1. i \in 1..(2 + n) /\ ~(i <= 1) /\ i - 1 \in 1..(1 + n) /\ ~(i - 1 <= 1) /\ (i - 1) - 1 = i - 2
    OBVIOUS
  <2> QED
    BY <1>4, <1>5, <2>1
<1>8. Index(raw) = 2
  <2>1. raw \in Seq(Pieces) /\ Len(raw) = 2 + n
    BY <1>5
  <2>2. \/ Index(raw) = 0 /\ \A j \in 1..Len(raw) : raw[j] # "sep"
        \/ /\ Index(raw) \in 1..Len(raw) /\ raw[Index(raw)] = "sep"
           /\ \A j \in 1..(Index(raw) - 1) : raw[j] # "sep"
    BY ONLY <2>1, IndexMeans
  <2> DEFINE k == Index(raw)
  <2> HIDE DEF k
  <2>3. k \in 1..(2 + n) /\ raw[k] = "sep" /\ \A j \in 1..(k - 1) : raw[j] # "sep"
    BY ONLY n \in Nat, <1>6, <2>1, <2>2, 2 \in 1..(2 + n) DEF k
  <2>4. k # 1
    BY <1>6, <2>3
  <2>5. ~(k > 2)
    <3> SUFFICES ASSUME k > 2 PROVE FALSE
      OBVIOUS
    <3>1. 2 \in 1..(k - 1)
      BY <2>3
    <3> QED
      BY <1>6, <2>3, <3>1
  <2>6. k = 2
    BY <2>3, <2>4, <2>5
  <2> QED
    BY <2>6 DEF k
<1>9. SubSeq(raw, 1, 2 - 1) = a
  <2> DEFINE s == SubSeq(raw, 1, 1)
  <2>1. s \in Seq(Pieces) /\ Len(s) = 1 /\ s[1] = raw[1]
    BY <1>5
  <2> HIDE DEF s
  <2>2. \A i \in 1..1 : s[i] = a[i]
    BY <1>2, <1>6, <2>1
  <2>3. s = a
    BY <1>2, <2>1, <2>2, SeqEqual
  <2> QED
    BY <2>3 DEF s
<1>10. From(raw, 2 + 1) = rest
  <2> DEFINE s == From(raw, 3)
  <2>1. s \in Seq(Pieces) /\ Len(s) = n /\ \A i \in 1..n : s[i] = raw[i + 2]
    BY <1>5 DEF From
  <2> HIDE DEF s
  <2>2. \A i \in 1..n : s[i] = rest[i]
    <3>1. \A i \in 1..n : i + 2 \in 3..(2 + n) /\ (i + 2) - 2 = i
      OBVIOUS
    <3> QED
      BY <1>7, <2>1, <3>1
  <2>3. s = rest
    BY <1>1, <2>1, <2>2, SeqEqual
  <2> QED
    BY <2>3 DEF s
<1>11. ValidName(a)
  <2>1. a # <<>>
    BY <1>2
  <2> QED
    BY <1>2, <2>1 DEF ValidName
<1>12. parseLine(raw) = parseStatus(raw, a, rest)
  <2>1. /\ Index(raw) # 0
        /\ SubSeq(raw, 1, Index(raw) - 1) = a /\ From(raw, Index(raw) + 1) = rest
    <3>1. Index(raw) # 0 /\ Index(raw) - 1 = 2 - 1 /\ Index(raw) + 1 = 2 + 1
      BY ONLY <1>8
    <3> QED
      BY ONLY <1>9, <1>10, <3>1
  <2>2. parseLine(raw) =
          IF Index(raw) = 0 \/ ~ValidName(SubSeq(raw, 1, Index(raw) - 1)) THEN Bad(raw)
          ELSE parseStatus(raw, SubSeq(raw, 1, Index(raw) - 1), From(raw, Index(raw) + 1))
    BY ONLY TRUE DEF parseLine
  <2> QED
    BY ONLY <1>11, <2>1, <2>2
<1> QED
  BY <1>1, <1>5, <1>6, <1>7, <1>12 DEF a

\* No control piece in a line means none in its status.
LEMMA StatusIsClean ==
    ASSUME NEW d \in Seq(Pieces), NEW isOk \in BOOLEAN, ValidDetail(d)
    PROVE  ValidDetail(StatusOf(isOk, d)) /\ StatusOf(isOk, d) # <<>>
<1>1. PICK n \in Nat : n = Len(d)
  BY LenProperties
<1>2. \A i \in 1..n : d[i] \notin Control
  BY <1>1 DEF ValidDetail
<1>3. CASE ~isOk
  <2> DEFINE w == <<"DENIED">>
             e == <<"close">>
             wd == w \o d
             s == wd \o e
  <2>1. /\ w \in Seq(Pieces) /\ Len(w) = 1 /\ w[1] = "DENIED"
        /\ e \in Seq(Pieces) /\ Len(e) = 1 /\ e[1] = "close"
    BY WordsAreText
  <2>2. w[1] \notin Control /\ e[1] \notin Control
    BY <2>1 DEF Control
  <2>3. StatusOf(isOk, d) = s
    BY <1>3 DEF StatusOf
  <2> HIDE DEF w, e
  <2>4. /\ wd \in Seq(Pieces) /\ Len(wd) = Len(w) + Len(d)
        /\ \A i \in 1..(Len(w) + Len(d)) : wd[i] = IF i <= Len(w) THEN w[i] ELSE d[i - Len(w)]
    BY <2>1, ConcatProperties
  <2> HIDE DEF wd
  <2>5. /\ s \in Seq(Pieces) /\ Len(s) = Len(wd) + Len(e)
        /\ \A i \in 1..(Len(wd) + Len(e)) : s[i] = IF i <= Len(wd) THEN wd[i] ELSE e[i - Len(wd)]
    <3>1. wd \in Seq(Pieces) /\ e \in Seq(Pieces)
      BY <2>1, <2>4
    <3> QED
      BY <3>1, ConcatProperties
  <2> HIDE DEF s
  <2>6. Len(w) = 1 /\ Len(wd) = n + 1 /\ Len(s) = n + 2
    BY <1>1, <2>1, <2>4, <2>5
  <2>7. ASSUME NEW i \in 1..(n + 2) PROVE s[i] \notin Control
    <3>1. CASE i = n + 2
      <4>1. ~(i <= n + 1) /\ i - (n + 1) = 1
        BY <3>1
      <4>2. s[i] = e[1]
        BY <2>1, <2>5, <2>6, <4>1
      <4> QED
        BY <2>2, <4>2
    <3>2. CASE i = 1
      <4>1. i <= n + 1 /\ i \in 1..(n + 1)
        BY <3>2
      <4>2. s[i] = wd[i] /\ wd[i] = w[i]
        BY <1>1, <2>1, <2>4, <2>5, <2>6, <3>2, <4>1
      <4> QED
        BY <2>2, <3>2, <4>2
    <3>3. CASE i # 1 /\ i # n + 2
      <4>1. i <= n + 1 /\ ~(i <= 1) /\ i \in 1..(n + 1) /\ i - 1 \in 1..n
        BY <3>3
      <4>2. s[i] = wd[i]
        BY <2>1, <2>5, <2>6, <4>1
      <4>3. wd[i] = d[i - 1]
        BY <1>1, <2>4, <2>6, <4>1
      <4> QED
        BY <1>2, <4>1, <4>2, <4>3
    <3> QED
      BY <3>1, <3>2, <3>3
  <2>8. ValidDetail(s) /\ s # <<>>
    BY <2>6, <2>7 DEF ValidDetail
  <2> QED
    BY <2>3, <2>8
<1>4. CASE isOk /\ d = <<>>
  <2> DEFINE s == <<"OK">>
  <2>1. StatusOf(isOk, d) = s
    BY <1>4 DEF StatusOf
  <2>2. Len(s) = 1 /\ s[1] = "OK" /\ "OK" \notin Control
    BY DEF Control
  <2> HIDE DEF s
  <2>3. ValidDetail(s) /\ s # <<>>
    BY <2>2 DEF ValidDetail
  <2> QED
    BY <2>1, <2>3
<1>5. CASE isOk /\ d # <<>>
  <2> DEFINE w == <<"OK", "sp">>
             s == w \o d
  <2>1. w \in Seq(Pieces) /\ Len(w) = 2 /\ w[1] = "OK" /\ w[2] = "sp"
    BY WordsAreText
  <2>2. w[1] \notin Control /\ w[2] \notin Control
    BY <2>1 DEF Control
  <2>3. StatusOf(isOk, d) = s
    BY <1>5 DEF StatusOf
  <2> HIDE DEF w
  <2>4. /\ s \in Seq(Pieces) /\ Len(s) = Len(w) + Len(d)
        /\ \A i \in 1..(Len(w) + Len(d)) : s[i] = IF i <= Len(w) THEN w[i] ELSE d[i - Len(w)]
    BY <2>1, ConcatProperties
  <2> HIDE DEF s
  <2>5. Len(w) = 2 /\ Len(s) = n + 2 /\ Len(w) + Len(d) = n + 2
    BY <1>1, <2>1, <2>4
  <2>6. ASSUME NEW i \in 1..(n + 2) PROVE s[i] \notin Control
    <3>1. CASE i <= 2
      <4>1. s[i] = w[i] /\ (i = 1 \/ i = 2)
        BY <2>4, <2>5, <3>1
      <4> QED
        BY <2>2, <4>1
    <3>2. CASE ~(i <= 2)
      <4>1. i - 2 \in 1..n
        BY <3>2
      <4>2. s[i] = d[i - 2]
        BY <2>4, <2>5, <3>2
      <4> QED
        BY <1>2, <4>1, <4>2
    <3> QED
      BY <3>1, <3>2
  <2>7. ValidDetail(s) /\ s # <<>>
    BY <2>5, <2>6 DEF ValidDetail
  <2> QED
    BY <2>3, <2>7
<1> QED
  BY <1>3, <1>4, <1>5

\* What parseStatus makes of such a status.
LEMMA StatusComesBack ==
    ASSUME NEW d \in Seq(Pieces), NEW isOk \in BOOLEAN, ValidDetail(d), NEW raw, NEW name
    PROVE  parseStatus(raw, name, StatusOf(isOk, d)) = Line(name, isOk, d)
<1>1. PICK n \in Nat : n = Len(d)
  BY LenProperties
<1> DEFINE rest == StatusOf(isOk, d)
<1>2. rest \in Seq(Pieces) /\ ValidDetail(rest)
  BY StatusIsText, StatusIsClean
<1>3. CASE isOk /\ d = <<>>
  <2>1. rest = <<"OK">>
    BY <1>3 DEF StatusOf
  <2> HIDE DEF rest
  <2>2. parseStatus(raw, name, rest) = Line(name, TRUE, <<>>)
    BY <2>1 DEF parseStatus
  <2>3. isOk = TRUE
    BY <1>3
  <2> QED
    BY <1>3, <2>2, <2>3 DEF rest
<1>4. CASE isOk /\ d # <<>>
  <2> DEFINE w == <<"OK", "sp">>
  <2>1. rest = w \o d
    BY <1>4 DEF StatusOf
  <2> HIDE DEF rest
  <2>2. w \in Seq(Pieces) /\ Len(w) = 2
    BY WordsAreText
  <2>3. n # 0
    BY <1>1, <1>4, EmptySeq
  <2> HIDE DEF w
  <2>4. /\ Len(w \o d) = Len(w) + Len(d) /\ w \o d \in Seq(Pieces)
        /\ \A i \in 1..(Len(w) + Len(d)) : (w \o d)[i] = IF i <= Len(w) THEN w[i] ELSE d[i - Len(w)]
    BY <2>2, ConcatProperties
  <2>5. /\ Len(rest) = n + 2 /\ \A i \in 1..2 : rest[i] = w[i]
        /\ \A i \in 3..(n + 2) : rest[i] = d[i - 2]
    BY <1>1, <2>1, <2>2, <2>4
  <2>6. IsPrefix(w, rest) /\ Len(rest) > 2
    BY <1>2, <2>2, <2>3, <2>5, PrefixByByte
  <2>7. From(rest, 3) = d
    <3> DEFINE s == From(rest, 3)
    <3>1. s \in Seq(Pieces) /\ Len(s) = n /\ \A i \in 1..n : s[i] = rest[i + 2]
      BY <1>2, <2>5 DEF From
    <3> HIDE DEF s
    <3>2. \A i \in 1..n : s[i] = d[i]
      <4>1. \A i \in 1..n : i + 2 \in 3..(n + 2) /\ (i + 2) - 2 = i
        OBVIOUS
      <4> QED
        BY <2>5, <3>1, <4>1
    <3>3. s = d
      BY <1>1, <3>1, <3>2, SeqEqual
    <3> QED
      BY <3>3 DEF s
  <2>8. rest # <<"OK">>
    <3> DEFINE u == <<"OK">>
    <3>1. Len(u) = 1
      OBVIOUS
    <3> HIDE DEF u
    <3>2. Len(rest) # Len(u)
      <4>1. Len(rest) = n + 2 /\ n + 2 # 1
        BY <2>5
      <4> QED
        BY ONLY <3>1, <4>1
    <3>3. rest # u
      BY ONLY <3>2
    <3> QED
      BY <3>3 DEF u
  <2>9. parseStatus(raw, name, rest) = Line(name, TRUE, From(rest, 3))
    BY <2>6, <2>7, <2>8 DEF parseStatus, w
  <2>10. isOk = TRUE
    BY <1>4
  <2> QED
    BY <2>7, <2>9, <2>10 DEF rest
<1>5. CASE ~isOk
  <2> DEFINE w == <<"DENIED">>
             e == <<"close">>
             wd == w \o d
  <2>1. rest = wd \o e
    BY <1>5 DEF StatusOf
  <2> HIDE DEF rest
  <2>2. /\ w \in Seq(Pieces) /\ Len(w) = 1 /\ w[1] = "DENIED"
        /\ e \in Seq(Pieces) /\ Len(e) = 1 /\ e[1] = "close"
    BY WordsAreText
  <2> HIDE DEF w, e
  <2>3. /\ wd \in Seq(Pieces) /\ Len(wd) = Len(w) + Len(d)
        /\ \A i \in 1..(Len(w) + Len(d)) : wd[i] = IF i <= Len(w) THEN w[i] ELSE d[i - Len(w)]
    BY <2>2, ConcatProperties
  <2> HIDE DEF wd
  <2>4. /\ Len(wd \o e) = Len(wd) + Len(e)
        /\ \A i \in 1..(Len(wd) + Len(e)) : (wd \o e)[i] = IF i <= Len(wd) THEN wd[i] ELSE e[i - Len(wd)]
    <3>1. wd \in Seq(Pieces) /\ e \in Seq(Pieces)
      BY <2>2, <2>3
    <3> QED
      BY <3>1, ConcatProperties
  <2>5. Len(wd) = n + 1 /\ Len(rest) = n + 2 /\ Len(wd) + Len(e) = n + 2
    BY <1>1, <2>1, <2>2, <2>3, <2>4
  <2>6. rest[1] = "DENIED" /\ rest[n + 2] = "close"
    <3>1. 1 \in 1..(n + 2) /\ n + 2 \in 1..(n + 2) /\ ~(n + 2 <= n + 1) /\ (n + 2) - (n + 1) = 1
          /\ 1 <= n + 1 /\ 1 \in 1..(1 + n)
      OBVIOUS
    <3>2. rest[1] = wd[1] /\ rest[n + 2] = e[1]
      BY <2>1, <2>4, <2>5, <3>1
    <3>3. wd[1] = w[1]
      BY <1>1, <2>2, <2>3, <3>1
    <3> QED
      BY <2>2, <3>2, <3>3
  <2>7. \A i \in 2..(n + 1) : rest[i] = d[i - 1]
    <3> SUFFICES ASSUME NEW i \in 2..(n + 1) PROVE rest[i] = d[i - 1]
      OBVIOUS
    <3>1. i \in 1..(n + 2) /\ i <= n + 1 /\ i \in 1..(1 + n) /\ ~(i <= 1)
      OBVIOUS
    <3>2. rest[i] = wd[i]
      BY <2>1, <2>4, <2>5, <3>1
    <3>3. wd[i] = d[i - 1]
      BY <1>1, <2>2, <2>3, <3>1
    <3> QED
      BY <3>2, <3>3
  <2>8. IsPrefix(w, rest)
    BY <1>2, <2>2, <2>5, <2>6, PrefixByByte, SMTT(30)
  <2>9. ~IsPrefix(<<"OK", "sp">>, rest) /\ rest # <<"OK">>
    <3> DEFINE v == <<"OK", "sp">>
               u == <<"OK">>
    <3>1. v \in Seq(Pieces) /\ Len(v) = 2 /\ v[1] = "OK" /\ u[1] = "OK"
      BY WordsAreText
    <3> HIDE DEF v, u
    <3>2. rest # u
      BY <2>6, <3>1
    <3>3. ~IsPrefix(v, rest)
      <4> SUFFICES ASSUME IsPrefix(v, rest) PROVE FALSE
        OBVIOUS
      <4>1. \A j \in 1..Len(v) : v[j] = rest[j]
        BY <1>2, <3>1, PrefixByByte
      <4>2. v[1] = rest[1]
        BY <3>1, <4>1
      <4> QED
        BY <2>6, <3>1, <4>2
    <3> QED
      BY <3>2, <3>3 DEF v, u
  <2>10. Last(rest) = "close"
    BY <2>5, <2>6 DEF Last
  <2>11. SubSeq(rest, 2, Len(rest) - 1) = d
    <3> DEFINE s == SubSeq(rest, 2, n + 1)
    <3>1. s \in Seq(Pieces) /\ Len(s) = n /\ \A i \in 1..n : s[i] = rest[i + 1]
      BY <1>2, <2>5
    <3> HIDE DEF s
    <3>2. \A i \in 1..n : s[i] = d[i]
      <4>1. \A i \in 1..n : i + 1 \in 2..(n + 1) /\ (i + 1) - 1 = i
        OBVIOUS
      <4> QED
        BY <2>7, <3>1, <4>1
    <3>3. s = d
      BY <1>1, <3>1, <3>2, SeqEqual
    <3>4. Len(rest) - 1 = n + 1
      BY <2>5
    <3> QED
      BY <3>3, <3>4 DEF s
  <2>12. parseStatus(raw, name, rest) = Line(name, FALSE, SubSeq(rest, 2, Len(rest) - 1))
    BY <1>2, <2>8, <2>9, <2>10 DEF parseStatus, w
  <2>13. isOk = FALSE
    BY <1>5
  <2> QED
    BY <2>11, <2>12, <2>13 DEF rest
<1> QED
  BY <1>3, <1>4, <1>5

\* A line without control pieces comes back alone.
LEMMA LineComesBack ==
    ASSUME NEW d \in Seq(Pieces), NEW isOk \in BOOLEAN, ValidDetail(d)
    PROVE  Parse(String(Line(<<"a">>, isOk, d))) = <<Line(<<"a">>, isOk, d)>>
<1> DEFINE l == Line(<<"a">>, isOk, d)
           raw == String(l)
           rest == StatusOf(isOk, d)
<1>1. rest \in Seq(Pieces) /\ ValidDetail(rest) /\ rest # <<>>
  BY StatusIsText, StatusIsClean
<1>2. raw = <<"a">> \o (<<"sep">> \o rest)
  BY LineAsStatus
<1>3. parseStatus(raw, <<"a">>, rest) = l
  BY StatusComesBack
<1> HIDE DEF l, raw, rest
<1>4. PICK n \in Nat : n = Len(rest) /\ n # 0
  BY <1>1, EmptySeq, LenProperties
<1>5. /\ raw \in Seq(Pieces) /\ Len(raw) = Len(rest) + 2
      /\ raw[1] = "a" /\ raw[2] = "sep" /\ \A i \in 3..Len(raw) : raw[i] = rest[i - 2]
      /\ parseLine(raw) = parseStatus(raw, <<"a">>, rest)
  BY <1>1, <1>2, NameThenStatus
<1>6. /\ raw \in Seq(Pieces) /\ Len(raw) = n + 2 /\ raw[1] = "a" /\ raw[2] = "sep"
      /\ \A i \in 3..(n + 2) : raw[i] = rest[i - 2]
  BY ONLY <1>4, <1>5
<1>7. parseLine(raw) = l
  BY ONLY <1>3, <1>5
<1>8. ASSUME NEW i \in 1..(n + 2) PROVE raw[i] # "nl"
  <2>1. CASE i = 1 \/ i = 2
    BY ONLY <1>6, <2>1
  <2>2. CASE ~(i = 1 \/ i = 2)
    <3>1. i \in 3..(n + 2) /\ i - 2 \in 1..n
      BY ONLY <2>2, n \in Nat, i \in 1..(n + 2)
    <3>2. rest[i - 2] \notin Control
      BY ONLY <1>1, <1>4, <3>1 DEF ValidDetail
    <3>3. rest[i - 2] # "nl"
      BY ONLY <3>2 DEF Control
    <3> QED
      BY ONLY <1>6, <3>1, <3>3
  <2> QED
    BY ONLY <2>1, <2>2
<1>9. Split(raw) = <<raw>>
  BY ONLY <1>6, <1>8, SplitOneLine
<1>10. Last(raw) # "nl" /\ raw # <<>>
  <2>1. n + 2 \in 1..(n + 2)
    BY ONLY n \in Nat
  <2>2. Last(raw) = raw[n + 2]
    BY ONLY <1>6 DEF Last
  <2>3. raw # <<>>
    BY ONLY <1>6, n \in Nat, EmptySeq
  <2> QED
    BY ONLY <1>8, <2>1, <2>2, <2>3
<1>11. Parse(raw) = [k \in 1..Len(<<raw>>) |-> parseLine(<<raw>>[k])]
  BY ONLY <1>9, <1>10 DEF Parse, Lines
<1>12. [k \in 1..Len(<<raw>>) |-> parseLine(<<raw>>[k])] = <<parseLine(raw)>>
  BY ONLY TRUE
<1>13. Parse(raw) = <<l>>
  BY ONLY <1>7, <1>11, <1>12
<1> QED
  BY ONLY <1>13 DEF raw, l

-----------------------------------------------------------------------------
(* Find *)

Named(l) == ~l.bad /\ l.name = <<"a">>

\* Find returns the first line of that name, or a malformed one.
LEMMA FindMeans ==
    ASSUME NEW n \in Nat, NEW ls, Len(ls) = n
    PROVE  /\ (\A k \in 1..n : ~Named(ls[k])) => Find(ls, <<"a">>) = Bad(<<>>)
           /\ \A k \in 1..n : Named(ls[k]) /\ (\A j \in 1..(k - 1) : ~Named(ls[j]))
                                => Find(ls, <<"a">>) = ls[k]
<1> DEFINE I == {i \in 1..n : Named(ls[i])}
           i0 == IF I # {} THEN Min(I) ELSE 0
<1>1. Find(ls, <<"a">>) = IF i0 = 0 THEN Bad(<<>>) ELSE ls[i0]
  BY DEF Find, SelectInSeq, Named
<1>2. ASSUME \A k \in 1..n : ~Named(ls[k]) PROVE Find(ls, <<"a">>) = Bad(<<>>)
  <2>1. I = {}
    BY <1>2
  <2> HIDE DEF I
  <2> QED
    BY <1>1, <2>1
<1>3. ASSUME NEW k \in 1..n, Named(ls[k]), \A j \in 1..(k - 1) : ~Named(ls[j])
      PROVE  Find(ls, <<"a">>) = ls[k]
  <2>1. k \in I
    BY <1>3
  <2>2. \A j \in I : j \in Int /\ k <= j
    <3> SUFFICES ASSUME NEW j \in I PROVE j \in Int /\ k <= j
      OBVIOUS
    <3>1. j \in 1..n /\ Named(ls[j])
      OBVIOUS
    <3>2. j \notin 1..(k - 1)
      BY <1>3, <3>1
    <3> QED
      BY <3>1, <3>2
  <2> HIDE DEF I
  <2>3. Min(I) \in I /\ \A j \in I : Min(I) <= j
    BY <2>1, <2>2 DEF Min
  <2>4. Min(I) = k
    <3>1. Min(I) \in Int /\ k \in Int /\ k <= Min(I) /\ Min(I) <= k
      BY ONLY <2>1, <2>2, <2>3
    <3> QED
      BY ONLY <3>1
  <2>5. i0 = k /\ k # 0
    BY <2>1, <2>4
  <2> HIDE DEF i0
  <2> QED
    BY <1>1, <2>5
<1> QED
  BY <1>2, <1>3

\* A newline at the end adds no line, or an empty one.
LEMMA ParsePrefix ==
    ASSUME NEW t \in Seq(Pieces)
    PROVE  \E m, n \in Nat :
             LET P == Parse(t \o <<"nl">>)
                 Q == Parse(t)
             IN  /\ DOMAIN P = 1..n /\ DOMAIN Q = 1..m /\ m <= n
                 /\ \A k \in 1..m : Q[k] = P[k]
                 /\ \A k \in (m + 1)..n : ~Named(P[k])
<1> DEFINE P == Parse(t \o <<"nl">>)
           Q == Parse(t)
           S == Split(t)
<1>1. P = ParsedLines(S)
  <2>1. t \o <<"nl">> = Append(t, "nl")
    BY NewlineIsText, AppendIsConcat
  <2> QED
    BY <2>1, NewlineIsText, ParseMeans
<1>2. S \in Seq(Seq(Pieces)) /\ S # <<>>
  BY SplitThenJoin DEF SplitIsRight
<1>3. PICK n \in Nat : n = Len(S)
  BY <1>2, LenProperties
<1>4. DOMAIN P = 1..n /\ \A k \in 1..n : P[k] = parseLine(S[k])
  BY <1>1, <1>3 DEF ParsedLines
<1>5. ~Named(parseLine(<<>>))
  <2>1. Index(<<>>) = 0
    BY DEF Index, SelectInSeq
  <2>2. parseLine(<<>>) = Bad(<<>>)
    BY <2>1 DEF parseLine
  <2>3. Bad(<<>>).bad
    BY DEF Bad
  <2> QED
    BY <2>2, <2>3 DEF Named
<1>6. CASE t = <<>>
  <2>1. S = << <<>> >>
    BY <1>6, SplitEmpty
  <2>2. n = 1 /\ S[1] = <<>>
    BY <1>3, <2>1
  <2>3. Q = <<>> /\ DOMAIN Q = 1..0
    BY <1>6 DEF Parse
  <2> HIDE DEF P, Q, S
  <2>4. P[1] = parseLine(<<>>)
    BY <1>4, <2>2
  <2>5. \A k \in (0 + 1)..n : ~Named(P[k])
    BY <1>5, <2>2, <2>4
  <2>6. \A k \in 1..0 : Q[k] = P[k]
    OBVIOUS
  <2>7. /\ 0 \in Nat /\ DOMAIN P = 1..n /\ DOMAIN Q = 1..0 /\ 0 <= n
    BY <1>4, <2>3
  <2> QED
    BY <2>5, <2>6, <2>7 DEF P, Q
<1>7. ASSUME t # <<>> PROVE \E r \in Seq(Pieces), x \in Pieces : t = Append(r, x)
  BY <1>7, SequenceEmptyOrAppend
<1>8. ASSUME NEW r \in Seq(Pieces), NEW x \in Pieces, t = Append(r, x), x # "nl"
      PROVE  Q = P
  BY <1>1, <1>8, ParseMeans
<1>9. ASSUME NEW r \in Seq(Pieces), t = Append(r, "nl")
      PROVE  /\ n - 1 \in Nat /\ DOMAIN Q = 1..(n - 1)
             /\ \A k \in 1..(n - 1) : Q[k] = P[k]
             /\ ~Named(P[n])
  <2> DEFINE R == Split(r)
  <2>1. S = Append(R, <<>>)
    <3>1. S = AddPiece(R, "nl")
      BY <1>9, NewlineIsText, SplitAppend
    <3> QED
      BY <3>1 DEF AddPiece
  <2>2. R \in Seq(Seq(Pieces))
    BY SplitThenJoin DEF SplitIsRight
  <2>3. Q = ParsedLines(R)
    BY <1>9, NewlineIsText, ParseMeans
  <2> HIDE DEF P, Q, R, S
  <2>4. PICK m \in Nat : m = Len(R)
    BY <2>2, LenProperties
  <2>5. Len(S) = m + 1 /\ S[m + 1] = <<>> /\ \A k \in 1..m : S[k] = R[k]
    BY <2>1, <2>2, <2>4, NewlineIsText, AppendProperties
  <2>6. n = m + 1
    BY <1>3, <2>5
  <2>7. DOMAIN Q = 1..m /\ \A k \in 1..m : Q[k] = parseLine(R[k])
    BY <2>3, <2>4 DEF ParsedLines
  <2>8. \A k \in 1..m : P[k] = parseLine(R[k])
    BY <1>4, <2>5, <2>6
  <2>9. P[n] = parseLine(<<>>)
    BY <1>4, <2>5, <2>6
  <2>10. n - 1 = m
    BY <2>6
  <2> QED
    BY <1>5, <2>7, <2>8, <2>9, <2>10
<1> HIDE DEF P, Q, S
<1>10. CASE Q = P
  <2>1. \A k \in (n + 1)..n : FALSE
    OBVIOUS
  <2>2. DOMAIN P = 1..n /\ DOMAIN Q = 1..n /\ n <= n
    BY <1>4, <1>10
  <2>3. \A k \in 1..n : Q[k] = P[k]
    BY <1>10
  <2> QED
    BY <2>1, <2>2, <2>3 DEF P, Q
<1>11. ASSUME n - 1 \in Nat, DOMAIN Q = 1..(n - 1), ~Named(P[n]),
              \A k \in 1..(n - 1) : Q[k] = P[k]
       PROVE  \E m \in Nat : /\ DOMAIN P = 1..n /\ DOMAIN Q = 1..m /\ m <= n
                             /\ \A k \in 1..m : Q[k] = P[k]
                             /\ \A k \in (m + 1)..n : ~Named(P[k])
  <2>1. \A k \in ((n - 1) + 1)..n : k = n
    OBVIOUS
  <2>2. \A k \in ((n - 1) + 1)..n : ~Named(P[k])
    BY <1>11, <2>1
  <2>3. n - 1 <= n
    OBVIOUS
  <2> QED
    BY <1>4, <1>11, <2>2, <2>3
<1> QED
  BY <1>6, <1>7, <1>8, <1>9, <1>10, <1>11 DEF P, Q

\* Parse returns a function on its indices.
LEMMA ParseIsFcn ==
    ASSUME NEW t
    PROVE  Parse(t) = [k \in DOMAIN Parse(t) |-> Parse(t)[k]]
<1>1. CASE t = <<>>
  <2>1. Parse(t) = <<>>
    BY <1>1 DEF Parse
  <2> QED
    BY <2>1
<1>2. CASE t # <<>>
  <2>1. Parse(t) = [k \in 1..Len(Lines(t)) |-> parseLine(Lines(t)[k])]
    BY <1>2 DEF Parse
  <2> QED
    BY <2>1
<1> QED
  BY <1>1, <1>2

\* A named line at the end is found, or one of its name before it.
LEMMA FoundBehindText ==
    ASSUME NEW t \in Seq(Pieces), NEW l, Named(l)
    PROVE  Find(Parse(t \o <<"nl">>) \o <<l>>, <<"a">>)
             \in {l, Find(Parse(t), <<"a">>)} \ {Bad(<<>>)}
<1> DEFINE P == Parse(t \o <<"nl">>)
           Q == Parse(t)
           all == P \o <<l>>
           name == <<"a">>
<1>1. PICK m, n \in Nat :
        /\ DOMAIN P = 1..n /\ DOMAIN Q = 1..m /\ m <= n
        /\ \A k \in 1..m : Q[k] = P[k]
        /\ \A k \in (m + 1)..n : ~Named(P[k])
  BY ParsePrefix
<1>2. P = [k \in 1..n |-> P[k]] /\ Q = [k \in 1..m |-> Q[k]]
  BY <1>1, ParseIsFcn
<1> HIDE DEF P, Q
<1>3. Len(P) = n /\ Len(Q) = m
  BY <1>1
<1> DEFINE E == {P[k] : k \in 1..n} \cup {l}
<1>4. P \in Seq(E) /\ <<l>> \in Seq(E)
  <2>1. \A k \in 1..n : P[k] \in E
    OBVIOUS
  <2>2. l \in E
    OBVIOUS
  <2> HIDE DEF E
  <2>3. P \in [1..n -> E]
    BY <1>2, <2>1
  <2> QED
    BY <2>2, <2>3
<1> HIDE DEF E
<1>5. /\ Len(all) = n + 1 /\ all[n + 1] = l
      /\ \A k \in 1..n : all[k] = P[k]
  <2> DEFINE u == <<l>>
  <2>1. Len(u) = 1 /\ u[1] = l /\ u \in Seq(E)
    BY <1>4
  <2> HIDE DEF u
  <2>2. /\ Len(P \o u) = Len(P) + Len(u)
        /\ \A i \in 1..(Len(P) + Len(u)) : (P \o u)[i] = IF i <= Len(P) THEN P[i] ELSE u[i - Len(P)]
    BY <1>4, <2>1, ConcatProperties
  <2>3. n + 1 \in 1..(n + 1) /\ ~(n + 1 <= n) /\ (n + 1) - n = 1
        /\ \A k \in 1..n : k \in 1..(n + 1) /\ k <= n
    OBVIOUS
  <2>4. Len(P \o u) = n + 1 /\ (P \o u)[n + 1] = l /\ \A k \in 1..n : (P \o u)[k] = P[k]
    BY <1>3, <2>1, <2>2, <2>3
  <2> QED
    BY <2>4 DEF u
<1> HIDE DEF all
<1>6. ASSUME NEW x, Named(x) PROVE x # Bad(<<>>)
  <2>1. Bad(<<>>).bad
    BY DEF Bad
  <2> QED
    BY <1>6, <2>1 DEF Named
<1> DEFINE T == {k \in 1..(n + 1) : Named(all[k])}
<1>7. n + 1 \in T
  BY <1>5
<1>8. PICK k \in T : \A j \in T : k <= j
  <2>1. T \subseteq Nat
    OBVIOUS
  <2> HIDE DEF T
  <2> QED
    BY <1>7, <2>1, LeastElement
<1>9. k \in 1..(n + 1) /\ Named(all[k])
  OBVIOUS
<1>10. \A j \in 1..(k - 1) : ~Named(all[j])
  <2> SUFFICES ASSUME NEW j \in 1..(k - 1), Named(all[j]) PROVE FALSE
    OBVIOUS
  <2>1. j \in 1..(n + 1) /\ ~(k <= j)
    BY <1>9
  <2>2. j \in T
    BY <2>1
  <2> QED
    BY <1>8, <2>1, <2>2
<1> HIDE DEF T
<1>11. Find(all, name) = all[k]
  <2>1. n + 1 \in Nat
    OBVIOUS
  <2> QED
    BY <1>5, <1>9, <1>10, <2>1, FindMeans
<1>12. CASE k = n + 1
  BY <1>5, <1>6, <1>11, <1>12 DEF all, P, Q
<1>13. CASE k # n + 1
  <2>1. k \in 1..n /\ all[k] = P[k]
    BY <1>5, <1>9, <1>13
  <2>2. k \in 1..m
    <3> SUFFICES ASSUME k \notin 1..m PROVE FALSE
      OBVIOUS
    <3>1. k \in (m + 1)..n
      BY <2>1
    <3> QED
      BY <1>1, <1>9, <2>1, <3>1
  <2>3. Q[k] = P[k]
    BY <1>1, <2>2
  <2>4. \A j \in 1..(k - 1) : ~Named(Q[j])
    <3> SUFFICES ASSUME NEW j \in 1..(k - 1) PROVE ~Named(Q[j])
      OBVIOUS
    <3>1. j \in 1..m /\ j \in 1..n
      BY <1>1, <2>2
    <3> QED
      BY <1>1, <1>5, <1>10, <3>1
  <2>5. Find(Q, name) = Q[k]
    BY <1>3, <1>9, <2>1, <2>2, <2>3, <2>4, FindMeans
  <2> QED
    BY <1>6, <1>9, <1>11, <2>1, <2>3, <2>5 DEF all, P, Q
<1> QED
  BY <1>12, <1>13

\* What Sanitize leaves is a text without control pieces.
LEMMA SanitizeIsClean ==
    ASSUME NEW t \in Seq(Pieces)
    PROVE  Sanitize(t) \in Seq(Pieces) /\ ValidDetail(Sanitize(t))
<1>1. PICK n \in Nat : n = Len(t)
  BY LenProperties
<1> DEFINE s == Sanitize(t)
<1>2. s = [i \in 1..n |-> IF t[i] \in Control THEN "sp" ELSE t[i]]
  BY <1>1 DEF Sanitize
<1>3. \A i \in 1..n : t[i] \in Pieces
  BY <1>1, ElementOfSeq
<1>4. "sp" \in Pieces /\ "sp" \notin Control
  BY DEF Pieces, Control
<1> HIDE DEF s
<1>5. \A i \in 1..n : s[i] \in Pieces /\ s[i] \notin Control
  BY <1>2, <1>3, <1>4
<1>6. s \in [1..n -> Pieces]
  BY <1>2, <1>5
<1>7. s \in Seq(Pieces) /\ Len(s) = n
  BY <1>6
<1> QED
  BY <1>5, <1>7 DEF ValidDetail, s

\* The property, of every text.
LEMMA TextsAreKept ==
    ASSUME text \in Seq(Pieces)
    PROVE  FormatInvertsParse
<1> DEFINE d == Sanitize(text)
<1>1. d \in Seq(Pieces) /\ ValidDetail(d)
  BY SanitizeIsClean
<1>2. /\ LineOK(<<"a">>, text) = Line(<<"a">>, TRUE, d)
      /\ LineDenied(<<"a">>, text) = Line(<<"a">>, FALSE, d)
  BY DEF LineOK, LineDenied
<1> HIDE DEF d
<1>3. ASSUME NEW isOk \in BOOLEAN, NEW l, l = Line(<<"a">>, isOk, d)
      PROVE  /\ Parse(String(l)) = <<l>>
             /\ LET all == Parse(text \o <<"nl">>) \o Parse(String(l))
                IN  Find(all, <<"a">>) \in {l, Find(Parse(text), <<"a">>)} \ {Bad(<<>>)}
  <2>1. Parse(String(l)) = <<l>>
    BY <1>1, <1>3, LineComesBack
  <2>2. Named(l)
    BY <1>3 DEF Named, Line
  <2>3. Find(Parse(text \o <<"nl">>) \o <<l>>, <<"a">>)
          \in {l, Find(Parse(text), <<"a">>)} \ {Bad(<<>>)}
    BY <2>2, FoundBehindText
  <2> QED
    BY ONLY <2>1, <2>3
<1>4. text # <<>> =>
        Format(Parse(text)) = IF Last(text) = "nl" THEN text ELSE Append(text, "nl")
  BY RoundTrip
<1>5. ASSUME NEW l \in {LineOK(<<"a">>, text), LineDenied(<<"a">>, text)}
      PROVE  /\ Parse(String(l)) = <<l>>
             /\ LET all == Parse(text \o <<"nl">>) \o Parse(String(l))
                IN  Find(all, <<"a">>) \in {l, Find(Parse(text), <<"a">>)} \ {Bad(<<>>)}
  <2>1. l = Line(<<"a">>, TRUE, d) \/ l = Line(<<"a">>, FALSE, d)
    BY <1>2
  <2>2. TRUE \in BOOLEAN /\ FALSE \in BOOLEAN
    OBVIOUS
  <2> QED
    BY <1>3, <2>1, <2>2
<1> QED
  BY <1>4, <1>5 DEF FormatInvertsParse

\* "Parsing and formatting any text gives the text back" and a reported line
\* comes back as it was, for texts of any length.
THEOREM OutputComesBack == HarnessSpec => []FormatInvertsParse
<1>1. HarnessInit => text \in Seq(Pieces)
  BY DEF HarnessInit, TextInit
<1>2. text \in Seq(Pieces) /\ [HarnessNext]_allVars => (text \in Seq(Pieces))'
  <2> SUFFICES ASSUME text \in Seq(Pieces), [HarnessNext]_allVars PROVE text' \in Seq(Pieces)
    OBVIOUS
  <2>1. CASE ContainerPrints
    BY <2>1 DEF ContainerPrints
  <2>2. CASE text' = text
    BY <2>2
  <2> QED
    BY <2>1, <2>2 DEF HarnessNext, allVars
<1>3. text \in Seq(Pieces) => FormatInvertsParse
  BY TextsAreKept
<1> QED
  BY <1>1, <1>2, <1>3, PTL DEF HarnessSpec
=============================================================================
