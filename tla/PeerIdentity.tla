---------------------------- MODULE PeerIdentity ----------------------------
(***************************************************************************)
(* VerifyPeerIdentity of internal/lab/docker/topology.go with what it      *)
(* builds on: buildProbe and buildContext with the build stream's parser,  *)
(* socketVolume, the broker, the three dials, checkPeerIdentity, and the   *)
(* deferred removals that unwind whatever was made.                        *)
(*                                                                         *)
(* Run and Start of the launcher appear by their outcomes (see Launcher):  *)
(* success, an error with the container gone, or an error with it left     *)
(* behind.  What the verification is about, the engine's treatment of user *)
(* ids and groups, is a pair of variables the code cannot see.             *)
(***************************************************************************)
EXTENDS Naturals, Sequences, FiniteSets

CONSTANTS MaxID,        \* maxID of image.go: 1<<31 - 1
          Identities    \* the PeerIdentities a lesson may ask for

VARIABLES
    remapped,  \* workers whose uid this engine presents as another one
    gate,      \* this engine refuses a connect without the socket's group
    ids,       \* the PeerIdentities asked for
    pc,        \* the call in progress
    ctxDone,   \* the caller's context has ended
    image,     \* "none", "building", "failed" or "present"
    stream,    \* what parseBuildStream has met: "failure", "malformed"
    volume,    \* "none", "present", or "unknown": made, its name not returned
    broker,    \* "none", "up" or "dead"
    stray,     \* a launcher call left a container behind; it holds the volume
    dials,     \* the PeerDials so far
    defers,    \* removals deferred, the last one runs first
    errs,      \* the joined errors
    fault      \* something failed that the engine's identities do not explain

world == <<remapped, gate, ids>>
build == <<image, stream>>
vars == <<world, pc, ctxDone, build, volume, broker, stray, dials, defers,
          errs, fault>>

-----------------------------------------------------------------------------
(* Identities *)

Fields == {"BrokerUID", "SocketGID", "Worker1", "Worker2", "Outsider"}

DefaultPeerIdentities ==
    [BrokerUID |-> 1, SocketGID |-> 2, Worker1 |-> 3, Worker2 |-> 4, Outsider |-> 5]

\* PeerIdentities.validate: distinct, not zero and in range.
validate(p) ==
    \A f \in Fields :
        p[f] \in 1..MaxID /\ \A g \in Fields \ {f} : p[f] # p[g]

Roles == <<"Worker1", "Worker2", "Outsider">>

Init ==
    /\ remapped \in SUBSET {"Worker1", "Worker2"} /\ gate \in BOOLEAN
    /\ ids \in Identities
    /\ pc = "start" /\ ctxDone = FALSE
    /\ image = "none" /\ stream = {} /\ volume = "none" /\ broker = "none"
    /\ stray = FALSE /\ dials = <<>> /\ defers = <<>> /\ errs = {} /\ fault = FALSE

-----------------------------------------------------------------------------
Goto(from, to) == pc = from /\ pc' = to

\* An error: it joins the others and the deferred removals run.
Unwind(from, e) ==
    /\ Goto(from, "unwind")
    /\ errs' = errs \cup {e}

\* Every call made with the caller's context fails once it has ended.
ContextEnds ==
    /\ pc \notin {"start", "unwind", "returned"} /\ ~ctxDone
    /\ ctxDone' = TRUE /\ fault' = TRUE
    /\ UNCHANGED <<world, pc, build, volume, broker, stray, dials, defers, errs>>

Validate ==
    /\ \/ validate(ids) /\ Goto("start", "build") /\ UNCHANGED errs
       \/ ~validate(ids) /\ Goto("start", "returned") /\ errs' = {"identities"}
    /\ UNCHANGED <<world, ctxDone, build, volume, broker, stray, dials, defers, fault>>

-----------------------------------------------------------------------------
(* buildProbe *)

\* The binary is compiled and ImageBuild accepted; from here on the image has
\* to be removed, and remove runs after a failed build too.
BuildStarts ==
    /\ ~ctxDone /\ Goto("build", "stream")
    /\ image' = "building" /\ defers' = <<"image">>
    /\ UNCHANGED <<world, ctxDone, stream, volume, broker, stray, dials, errs, fault>>

\* go build or ImageBuild fails; the engine may have the request all the same.
BuildFails ==
    /\ Unwind("build", "build")
    /\ image' \in {"none", "building"} /\ defers' = <<"image">> /\ fault' = TRUE
    /\ UNCHANGED <<world, ctxDone, stream, volume, broker, stray, dials>>

\* The engine ends its build, whether or not the client still reads.
EngineBuilds ==
    /\ image = "building"
    /\ \/ image' = "present" /\ UNCHANGED fault
       \/ image' = "failed" /\ fault' = TRUE
    /\ UNCHANGED <<world, pc, ctxDone, stream, volume, broker, stray, dials, defers, errs>>

\* One line of parseBuildStream that is not progress: a failure the engine
\* reports, or something that is no JSON object.
ReadLine ==
    /\ pc = "stream"
    /\ \/ image = "failed" /\ stream' = stream \cup {"failure"}
       \/ stream' = stream \cup {"malformed"}
    /\ fault' = TRUE
    /\ UNCHANGED <<world, pc, ctxDone, image, volume, broker, stray, dials, defers, errs>>

\* The stream ends: after the build with all it had to say, or cut short, as
\* it is when the context ends, which may look like a clean end or a broken one.
StreamEnds ==
    \E s \in {stream, stream \cup {"malformed"}}, cut \in BOOLEAN :
        /\ ~cut => /\ s = stream /\ ~ctxDone
                   /\ image = "present" \/ "failure" \in stream
        /\ fault' = (fault \/ cut)
        /\ stream' = s
        /\ IF s = {} THEN Goto("stream", "inspect") /\ UNCHANGED errs
                     ELSE Unwind("stream", "build")
        /\ UNCHANGED <<world, ctxDone, image, volume, broker, stray, dials, defers>>

\* buildContext asks for the tag, because a cut stream can look clean.
InspectImage ==
    /\ \/ image = "present" /\ ~ctxDone /\ Goto("inspect", "volume") /\ UNCHANGED <<errs, fault>>
       \/ Unwind("inspect", "build") /\ fault' = TRUE
    /\ UNCHANGED <<world, ctxDone, build, volume, broker, stray, dials, defers>>

-----------------------------------------------------------------------------
(* socketVolume and the broker *)

CreateVolume ==
    /\ ~ctxDone /\ Goto("volume", "init")
    /\ volume' = "present" /\ defers' = Append(defers, "volume")
    /\ UNCHANGED <<world, ctxDone, build, broker, stray, dials, errs, fault>>

CreateVolumeFails ==
    /\ Unwind("volume", "volume")
    /\ volume' \in {"none", "unknown"} /\ fault' = TRUE
    /\ UNCHANGED <<world, ctxDone, build, broker, stray, dials, defers>>

\* A launcher call fails with error e, its container removed or left.
LaunchFails(from, e) ==
    /\ Unwind(from, e)
    /\ stray' \in {stray, TRUE} /\ fault' = TRUE
    /\ UNCHANGED <<world, ctxDone, build, volume, broker, dials>>

\* The init container gives the volume to the broker's uid and the group.
InitVolume ==
    /\ ~ctxDone /\ Goto("init", "broker")
    /\ UNCHANGED <<world, ctxDone, build, volume, broker, stray, dials, defers, errs, fault>>

\* Mutant of InitFails: the volume is not removed on this path.
InitFailsKeepsVolume ==
    /\ LaunchFails("init", "init")
    /\ defers' = SelectSeq(defers, LAMBDA d : d # "volume")

\* Run fails or the container's exit code is not 0: socketVolume removes the
\* volume itself, which is what the deferred removal would do.
InitFails == LaunchFails("init", "init") /\ UNCHANGED defers

\* Mutant of StartBroker: the broker's removal is deferred before the volume's.
StartBrokerDeferredFirst ==
    /\ ~ctxDone /\ Goto("broker", "listen")
    /\ broker' = "up" /\ defers' = <<"image", "broker", "volume">>
    /\ UNCHANGED <<world, ctxDone, build, volume, stray, dials, errs, fault>>

StartBroker ==
    /\ ~ctxDone /\ Goto("broker", "listen")
    /\ broker' = "up" /\ defers' = Append(defers, "broker")
    /\ UNCHANGED <<world, ctxDone, build, volume, stray, dials, errs, fault>>

StartBrokerFails == LaunchFails("broker", "broker") /\ UNCHANGED defers

BrokerDies ==
    /\ broker = "up"
    /\ broker' = "dead" /\ fault' = TRUE
    /\ UNCHANGED <<world, pc, ctxDone, build, volume, stray, dials, defers, errs>>

\* WaitLine polls the broker's log for its listen line.
WaitListen ==
    /\ ~ctxDone /\ Goto("listen", "dial")
    /\ UNCHANGED <<world, ctxDone, build, volume, broker, stray, dials, defers, errs, fault>>

\* Logs fail, the line says DENIED, or it does not come within 30 s.
WaitListenFails ==
    /\ Unwind("listen", "listen") /\ fault' = TRUE
    /\ UNCHANGED <<world, ctxDone, build, volume, broker, stray, dials, defers>>

-----------------------------------------------------------------------------
(* The dials *)

PeerDial(role, dial, reply) ==
    [uid |-> ids[role], inGroup |-> role # "Outsider", dial |-> dial, reply |-> reply]

\* Whether the kernel lets the worker connect: by its supplementary group, by
\* a primary group (its own uid) or uid that happens to be the socket's, or
\* because this engine does not look.
Connects(role) ==
    \/ role # "Outsider" \/ ~gate
    \/ ids[role] \in {ids.SocketGID, ids.BrokerUID}

\* What a dial prints.  When it goes wrong on the way, by a dead broker or a
\* lost line, it shows neither a permission error nor credentials.
Answer(role) ==
    IF ~Connects(role) THEN PeerDial(role, "permission denied", "none")
    ELSE PeerDial(role, "ok", IF role \in remapped THEN "other uid" ELSE "assigned uid")

WrongAnswers(role) ==
    {PeerDial(role, d, r) : d \in {"ok", "refused", "none"}, r \in {"none", "malformed"}}

Dial ==
    /\ ~ctxDone /\ pc = "dial"
    /\ LET role == Roles[Len(dials) + 1]
       IN  \/ /\ broker = "up"
              /\ dials' = Append(dials, Answer(role)) /\ UNCHANGED fault
           \/ /\ \E d \in WrongAnswers(role) : dials' = Append(dials, d)
              /\ fault' = TRUE
    /\ pc' = IF Len(dials') = Len(Roles) THEN "check" ELSE "dial"
    /\ UNCHANGED <<world, ctxDone, build, volume, broker, stray, defers, errs>>

DialRunFails == LaunchFails("dial", "dial") /\ UNCHANGED defers

\* Mutant of checkPeerIdentity: any failed dial of the outsider will do.
checkPeerIdentityAnyRefusal(ds) ==
    LET D == {ds[i] : i \in DOMAIN ds}
    IN  /\ \A d \in D : IF d.inGroup THEN d.reply = "assigned uid" ELSE d.dial # "ok"
        /\ Cardinality({d.uid : d \in {e \in D : e.inGroup}}) >= 2
        /\ \E d \in D : ~d.inGroup

\* peerUIDIsAssignedUID for workers in the group, socketGroupGatesConnect for
\* the others, and enough of both.
checkPeerIdentity(ds) ==
    LET D == {ds[i] : i \in DOMAIN ds}
    IN  /\ \A d \in D : IF d.inGroup THEN d.reply = "assigned uid"
                                     ELSE d.dial = "permission denied"
        /\ Cardinality({d.uid : d \in {e \in D : e.inGroup}}) >= 2
        /\ \E d \in D : ~d.inGroup

Check ==
    /\ IF checkPeerIdentity(dials) THEN Goto("check", "unwind") /\ UNCHANGED errs
                                   ELSE Unwind("check", "verdict")
    /\ UNCHANGED <<world, ctxDone, build, volume, broker, stray, dials, defers, fault>>

-----------------------------------------------------------------------------
(* The deferred removals, on contexts of their own *)

Removing(d) ==
    /\ pc = "unwind" /\ defers # <<>> /\ defers[Len(defers)] = d
    /\ defers' = SubSeq(defers, 1, Len(defers) - 1)
    /\ UNCHANGED <<world, pc, ctxDone, stream, stray, dials>>

\* Container.Remove: nil means gone, an error may mean either.
RemoveBroker ==
    /\ Removing("broker")
    /\ \/ broker' = "none" /\ UNCHANGED <<errs, fault>>
       \/ /\ broker' \in {broker, "none"}
          /\ errs' = errs \cup {"remove broker"} /\ fault' = TRUE
    /\ UNCHANGED <<image, volume>>

\* removeVolume: refused while a container holds the volume.
RemoveVolume ==
    /\ Removing("volume")
    /\ \/ /\ broker = "none" /\ ~stray
          /\ volume' = "none" /\ UNCHANGED <<errs, fault>>
       \/ /\ volume' \in (IF broker = "none" /\ ~stray THEN {volume, "none"} ELSE {volume})
          /\ fault' = (fault \/ (broker = "none" /\ ~stray))
          /\ errs' = errs \cup {"remove volume"}
    /\ UNCHANGED <<image, broker>>

\* buildProbe's remove: a removal that fails counts only if ImageInspect then
\* answers.  Both calls share one context, and either may fail for no reason
\* of the image's.
RemoveImage ==
    /\ Removing("image")
    /\ \/ image = "present" /\ image' = "none" /\ UNCHANGED <<errs, fault>>
       \/ image # "present" /\ UNCHANGED <<image, errs, fault>>
       \/ /\ image = "present" /\ image' \in {"none", "present"}
          /\ fault' = TRUE
          /\ \/ image' = "present" /\ errs' = errs \cup {"remove image"}
             \/ UNCHANGED errs
    /\ UNCHANGED <<volume, broker>>

Returns ==
    /\ defers = <<>> /\ Goto("unwind", "returned")
    /\ UNCHANGED <<world, ctxDone, build, volume, broker, stray, dials, defers, errs, fault>>

-----------------------------------------------------------------------------
Verify ==
    \/ Validate \/ BuildStarts \/ BuildFails \/ ReadLine \/ StreamEnds
    \/ InspectImage \/ CreateVolume \/ CreateVolumeFails \/ InitVolume \/ InitFails
    \/ StartBroker \/ StartBrokerFails \/ WaitListen \/ WaitListenFails
    \/ Dial \/ DialRunFails \/ Check
    \/ RemoveBroker \/ RemoveVolume \/ RemoveImage \/ Returns

Environment == ContextEnds \/ EngineBuilds \/ BrokerDies

Done == pc = "returned" /\ UNCHANGED vars

Next == Verify \/ Environment \/ Done

Spec == Init /\ [][Next]_vars

-----------------------------------------------------------------------------
(* Properties *)

Trusted == remapped = {} /\ gate

\* No error from VerifyPeerIdentity means that this engine presents both
\* workers' assigned uids and refuses whoever is not in the socket group,
\* whatever failed on the way: no failure can pass for a refusal.
NilMeansTrusted == pc = "returned" /\ errs = {} => Trusted

\* The broker and the volume it was told about are gone when it returns, or an
\* error says which of them is not, on every path including the early ones.
LeftoversReported ==
    pc = "returned" =>
        /\ broker # "none" => "remove broker" \in errs
        /\ volume = "present" => "remove volume" \in errs

\* When nothing fails, the removals succeed in the order they were deferred in,
\* nothing stays behind, and the verdict is exactly whether the identities are
\* usable and the engine can be trusted.
UndisturbedVerdictIsExact ==
    pc = "returned" /\ ~fault =>
        /\ image # "present" /\ volume = "none" /\ broker = "none"
        /\ errs = {} <=> validate(ids) /\ Trusted

\* topology.go: "It builds the probe fixture and removes everything it created
\* before it returns".  With no error at all, nothing it created may be left.
NilMeansClean ==
    pc = "returned" /\ errs = {} =>
        image # "present" /\ volume = "none" /\ broker = "none" /\ ~stray
=============================================================================
