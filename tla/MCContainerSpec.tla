-------------------------- MODULE MCContainerSpec --------------------------
(***************************************************************************)
(* Small instances for TLC of what the docker harness computes around a    *)
(* container: its spec, the image it is made from, the output it prints.   *)
(* A behaviour is about one of the three.                                  *)
(***************************************************************************)
EXTENDS ContainerSpec, FixtureImage, Probeout

VARIABLE subject

allVars == <<vars, imageVars, text, subject>>

HarnessInit ==
    /\ Init /\ ImageInit /\ TextInit
    /\ \/ subject = "container" /\ named
       \/ subject = "image" /\ spec = DefaultSpec
       \/ subject = "output" /\ spec = DefaultSpec /\ named

Over ==
    \/ build \in {"refused", "built"}
    \/ Len(text) = MaxText

HarnessNext ==
    \/ subject = "container" /\ Next /\ UNCHANGED <<imageVars, text, subject>>
    \/ subject = "image" /\ ImageNext /\ UNCHANGED <<vars, text, subject>>
    \/ subject = "output" /\ ContainerPrints /\ UNCHANGED <<vars, imageVars, subject>>
    \/ Over /\ UNCHANGED allVars

HarnessSpec == HarnessInit /\ [][HarnessNext]_allVars
=============================================================================
