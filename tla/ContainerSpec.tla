--------------------------- MODULE ContainerSpec ---------------------------
(***************************************************************************)
(* The checks around one ContainerCreate in internal/lab/docker: Translate *)
(* turns a Spec into engine config, CheckConfig looks at the request       *)
(* before it is sent, and CheckObserved compares what the engine recorded. *)
(*                                                                         *)
(* A lesson starts from Docker's defaults or from the Restricted preset    *)
(* and flips knobs one by one.  The engine either records the request, its *)
(* documented fill-ins included, or gets one field of it wrong.  Names,    *)
(* paths and profiles are classes: the outcomes of the regexps and of      *)
(* path.Clean, not the strings.                                            *)
(***************************************************************************)
EXTENDS Integers, Sequences, FiniteSets

CONSTANT MaxFlips    \* bound: knobs flipped away from the preset

ASSUME SpecAssumption == MaxFlips \in Nat

VARIABLES
    spec,     \* the lesson's Spec
    flips,    \* knobs flipped so far
    stage,    \* "spec", "refused", "sent", "recorded", "kept" or "removed"
    req,      \* the Request Translate returned
    got       \* what inspect reports

vars == <<spec, flips, stage, req, got>>

-----------------------------------------------------------------------------
(* Capability lists *)

\* A spelled capability: ALL or another word, with or without CAP_, upper or
\* lower case.
Cap(word, prefixed, upper) == [word |-> word, prefixed |-> prefixed, upper |-> upper]

\* A []string of them: order and repetition do not survive normalizeCaps, but
\* nil and the empty list stay apart.
NilCaps == [nil |-> TRUE, caps |-> {}]
CapList(s) == [nil |-> FALSE, caps |-> s]

normalizeCaps(l) ==
    [l EXCEPT !.caps = {Cap(c.word, c.word # "ALL" \/ c.prefixed, TRUE) : c \in @}]

ALL == Cap("ALL", FALSE, TRUE)

-----------------------------------------------------------------------------
(* Spec and its presets *)

Mount(type, source, target, size) ==
    [type |-> type, source |-> source, target |-> target, size |-> size]

Tmp == Mount("tmpfs", "", "/tmp", 1)
Work == Mount("volume", "volume", "/work", 0)

DefaultSpec ==
    [names |-> "valid", user |-> "", groups |-> <<>>, mounts |-> <<>>,
     network |-> "", readOnlyRoot |-> FALSE, capDrop |-> NilCaps,
     capAdd |-> NilCaps, noNewPrivileges |-> FALSE, seccomp |-> "",
     pidMode |-> "", memory |-> 0, nanoCPUs |-> 0, pidsLimit |-> 0,
     runtime |-> ""]

Restricted ==
    [DefaultSpec EXCEPT
        !.user = "worker", !.mounts = <<Tmp>>, !.network = "none",
        !.readOnlyRoot = TRUE, !.capDrop = CapList({ALL}),
        !.noNewPrivileges = TRUE, !.memory = 1, !.nanoCPUs = 1,
        !.pidsLimit = 1, !.runtime = "runc"]

\* The values a lesson may give each knob, valid and invalid ones.
Knobs ==
    [names |-> {"valid", "invalid"},
     user |-> {"", "worker", "root", "invalid"},
     groups |-> {<<>>, <<"gid">>, <<"invalid">>},
     mounts |-> {<<>>, <<Tmp>>, <<Work>>, <<Tmp, Work>>, <<Tmp, Tmp>>,
                 <<Mount("volume", "socket", "/work", 0)>>,
                 <<Mount("volume", "", "/work", 0)>>,
                 <<Mount("volume", "volume", "/work", 1)>>,
                 <<Mount("bind", "path", "/work", 0)>>,
                 <<Mount("tmpfs", "volume", "/tmp", 1)>>,
                 <<Mount("tmpfs", "", "/tmp", -1)>>,
                 <<Mount("tmpfs", "", "invalid", 0)>>},
     network |-> {"", "none", "bridge", "own", "host", "invalid"},
     readOnlyRoot |-> BOOLEAN,
     capDrop |-> {NilCaps, CapList({}), CapList({ALL}),
                  CapList({Cap("ALL", FALSE, FALSE), Cap("CHOWN", FALSE, TRUE)}),
                  CapList({Cap("ALL", TRUE, TRUE)})},
     capAdd |-> {NilCaps, CapList({Cap("CHOWN", TRUE, FALSE)}),
                 CapList({Cap("bad-cap", FALSE, FALSE)})},
     noNewPrivileges |-> BOOLEAN,
     seccomp |-> {"", "unconfined", "json", "path"},
     pidMode |-> {"", "container", "host", "invalid"},
     memory |-> {0, 1, -1}, nanoCPUs |-> {0, 1, -1}, pidsLimit |-> {0, 1, -1},
     runtime |-> {"", "runc", "runsc"}]

-----------------------------------------------------------------------------
(* Translate *)

GoodMount(m) ==
    /\ m.source # "socket"
    /\ \/ m.type = "volume" /\ m.source = "volume" /\ m.size = 0
       \/ m.type = "tmpfs" /\ m.source = "" /\ m.size >= 0
    /\ m.target # "invalid"

\* Mutant of Translates: "host" passes for a network name.
TranslatesHost(s) ==
    /\ s.names = "valid" /\ s.user # "invalid"
    /\ \A i \in DOMAIN s.groups : s.groups[i] # "invalid"
    /\ \A i \in DOMAIN s.mounts : GoodMount(s.mounts[i])
    /\ \A i, j \in DOMAIN s.mounts :
            i # j => s.mounts[i].target # s.mounts[j].target
    /\ s.network # "invalid"
    /\ s.pidMode \in {"", "container"}
    /\ \A c \in s.capDrop.caps \cup s.capAdd.caps : c.word # "bad-cap"
    /\ s.seccomp # "path"
    /\ s.memory >= 0 /\ s.nanoCPUs >= 0 /\ s.pidsLimit >= 0

\* No field is rejected.
Translates(s) ==
    /\ s.names = "valid" /\ s.user # "invalid"
    /\ \A i \in DOMAIN s.groups : s.groups[i] # "invalid"
    /\ \A i \in DOMAIN s.mounts : GoodMount(s.mounts[i])
    /\ \A i, j \in DOMAIN s.mounts :
            i # j => s.mounts[i].target # s.mounts[j].target
    /\ s.network \notin {"host", "invalid"}
    /\ s.pidMode \in {"", "container"}
    /\ \A c \in s.capDrop.caps \cup s.capAdd.caps : c.word # "bad-cap"
    /\ s.seccomp # "path"
    /\ s.memory >= 0 /\ s.nanoCPUs >= 0 /\ s.pidsLimit >= 0

SecurityOpt(s) ==
    (IF s.noNewPrivileges THEN {"no-new-privileges"} ELSE {})
        \cup (IF s.seccomp = "" THEN {} ELSE {s.seccomp})

Request(s) ==
    [name |-> "trinkets", labels |-> {"harness", "lesson"}, user |-> s.user,
     network |-> s.network, readonlyRootfs |-> s.readOnlyRoot,
     capDrop |-> normalizeCaps(s.capDrop), capAdd |-> normalizeCaps(s.capAdd),
     securityOpt |-> SecurityOpt(s), pidMode |-> s.pidMode,
     ipcMode |-> "private", cgroupnsMode |-> "private", utsMode |-> "",
     usernsMode |-> "", groupAdd |-> s.groups, mounts |-> s.mounts,
     binds |-> {}, privileged |-> FALSE, memory |-> s.memory,
     memorySwap |-> s.memory, nanoCPUs |-> s.nanoCPUs,
     pidsLimit |-> s.pidsLimit, runtime |-> s.runtime]

-----------------------------------------------------------------------------
(* The invariants of invariants.go *)

neverPrivileged(r) ==
    /\ ~r.privileged
    /\ "host" \notin {r.pidMode, r.network, r.ipcMode, r.utsMode, r.usernsMode,
                      r.cgroupnsMode}

noDockerSocket(r) ==
    /\ r.binds = {}
    /\ \A i \in DOMAIN r.mounts :
            r.mounts[i].type # "bind" /\ r.mounts[i].source # "socket"

swapPinned(r) == r.memory > 0 => r.memorySwap = r.memory

CheckConfig(r) ==
    /\ noDockerSocket(r)
    /\ neverPrivileged(r)
    /\ r.name = "trinkets" /\ {"harness", "lesson"} \subseteq r.labels
    /\ swapPinned(r)
    /\ "path" \notin r.securityOpt

IsRestricted(r) ==
    /\ r.user = "worker"
    /\ ALL \in r.capDrop.caps /\ r.capAdd.caps = {}
    /\ "no-new-privileges" \in r.securityOpt
    /\ r.readonlyRootfs /\ r.network = "none"
    /\ r.pidMode = "" /\ r.ipcMode = "private" /\ r.cgroupnsMode = "private"
    /\ r.memory > 0 /\ r.nanoCPUs > 0 /\ r.pidsLimit > 0

\* The fields compared as they are.
Compared == {"name", "readonlyRootfs", "securityOpt", "groupAdd", "pidMode",
             "ipcMode", "cgroupnsMode", "utsMode", "usernsMode", "memory",
             "memorySwap", "nanoCPUs", "pidsLimit", "binds", "mounts"}

\* Mutant of CheckObserved: capability lists are not compared.
CheckObservedNoCaps(g, want) ==
    /\ want.user # "" => g.user = want.user
    /\ want.labels \subseteq g.labels
    /\ neverPrivileged(g)
    /\ \A f \in Compared : g[f] = want[f]
    /\ want.network # "" \/ g.network \notin {"bridge", "default"}
            => g.network = want.network
    /\ want.runtime # "" \/ g.runtime = "" => g.runtime = want.runtime

\* Mutant of CheckObserved: no exception for the network the engine fills in.
CheckObservedStrict(g, want) ==
    /\ want.user # "" => g.user = want.user
    /\ want.labels \subseteq g.labels
    /\ neverPrivileged(g)
    /\ \A f \in Compared \cup {"network"} : g[f] = want[f]
    /\ normalizeCaps(g.capDrop) = normalizeCaps(want.capDrop)
    /\ normalizeCaps(g.capAdd) = normalizeCaps(want.capAdd)
    /\ want.runtime # "" \/ g.runtime = "" => g.runtime = want.runtime

CheckObserved(g, want) ==
    /\ want.user # "" => g.user = want.user
    /\ want.labels \subseteq g.labels
    /\ neverPrivileged(g)
    /\ \A f \in Compared : g[f] = want[f]
    /\ normalizeCaps(g.capDrop) = normalizeCaps(want.capDrop)
    /\ normalizeCaps(g.capAdd) = normalizeCaps(want.capAdd)
    /\ want.network # "" \/ g.network \notin {"bridge", "default"}
            => g.network = want.network
    /\ want.runtime # "" \/ g.runtime = "" => g.runtime = want.runtime

-----------------------------------------------------------------------------
(* The engine *)

\* A faithful engine records the request, fills in the image's user, its
\* default network and runtime, and may return an empty list as nil.
Faithful(r) ==
    {[r EXCEPT !.user = u, !.network = n, !.runtime = t, !.capDrop = d] :
        u \in IF r.user = "" THEN {"", "worker", "root"} ELSE {r.user},
        n \in IF r.network = "" THEN {"", "bridge", "default"} ELSE {r.network},
        t \in IF r.runtime = "" THEN {"runc"} ELSE {r.runtime},
        d \in IF r.capDrop.caps = {} THEN {r.capDrop, NilCaps} ELSE {r.capDrop}}

\* What a wrong field may hold.
Wrong ==
    [name |-> {"other"}, labels |-> {{}}, user |-> {"root", ""},
     network |-> {"bridge", "host"}, readonlyRootfs |-> BOOLEAN,
     capDrop |-> {NilCaps}, capAdd |-> {CapList({Cap("CHOWN", TRUE, TRUE)})},
     securityOpt |-> {{}, {"no-new-privileges", "unconfined"}},
     pidMode |-> {"host", "container"}, ipcMode |-> {"host", "shareable"},
     cgroupnsMode |-> {"host"}, utsMode |-> {"host"}, usernsMode |-> {"host"},
     groupAdd |-> {<<"gid">>}, mounts |-> {<<>>, <<Mount("bind", "socket", "/s", 0)>>},
     binds |-> {{"socket"}}, privileged |-> {TRUE}, memory |-> {0},
     memorySwap |-> {-1}, nanoCPUs |-> {0}, pidsLimit |-> {0}, runtime |-> {"other"}]

Unfaithful(r) == UNION {{[r EXCEPT ![f] = v] : v \in Wrong[f]} : f \in DOMAIN Wrong}

-----------------------------------------------------------------------------
None == [none |-> TRUE]

Init ==
    /\ spec \in {DefaultSpec, Restricted}
    /\ flips = 0 /\ stage = "spec" /\ req = None /\ got = None

\* The lesson sets one knob of its Spec.
Flip ==
    /\ stage = "spec" /\ flips < MaxFlips
    /\ \E k \in DOMAIN Knobs : \E v \in Knobs[k] : spec' = [spec EXCEPT ![k] = v]
    /\ flips' = flips + 1
    /\ UNCHANGED <<stage, req, got>>

\* Create: Translate, then CheckConfig, then ContainerCreate.
Send ==
    /\ stage = "spec" /\ Translates(spec) /\ CheckConfig(Request(spec))
    /\ stage' = "sent"
    /\ req' = Request(spec)
    /\ UNCHANGED <<spec, flips, got>>

Refuse ==
    /\ stage = "spec" /\ ~(Translates(spec) /\ CheckConfig(Request(spec)))
    /\ stage' = "refused"
    /\ UNCHANGED <<spec, flips, req, got>>

EngineRecords ==
    /\ stage = "sent"
    /\ stage' = "recorded"
    /\ got' \in Faithful(req) \cup Unfaithful(req)
    /\ UNCHANGED <<spec, flips, req>>

\* Inspect and CheckObserved: the container is handed out or removed again.
Decide ==
    /\ stage = "recorded"
    /\ stage' = IF CheckObserved(got, req) THEN "kept" ELSE "removed"
    /\ UNCHANGED <<spec, flips, req, got>>

Next ==
    \/ Flip \/ Send \/ Refuse \/ EngineRecords \/ Decide
    \/ stage \in {"refused", "kept", "removed"} /\ UNCHANGED vars

Spec == Init /\ [][Next]_vars

-----------------------------------------------------------------------------
(* Properties *)

\* Translate is stricter than the invariants it is guarded by: CheckConfig has
\* nothing to refuse in any request Translate makes.
TranslatedIsAdmissible == Translates(spec) => CheckConfig(Request(spec))

\* Whatever the engine did with the request, a container that is handed out
\* keeps the config invariants, and if the request was restricted so is the
\* container: CheckObserved compares every field they depend on.
KeptIsAsIntended ==
    stage = "kept" =>
        /\ CheckConfig(got)
        /\ IsRestricted(req) => IsRestricted(got)

\* A container recorded by a faithful engine is removed again in one case only,
\* and then always: the Spec's list of dropped capabilities was empty but not
\* nil, and the engine returned nil for it.
FaithfulIsKept ==
    stage \in {"kept", "removed"} /\ got \in Faithful(req) =>
        (stage = "removed" <=> req.capDrop = CapList({}) /\ got.capDrop = NilCaps)
=============================================================================
