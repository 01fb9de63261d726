------------------------------ MODULE MCSweep ------------------------------
(* A lesson with a container that uses a volume and a network, a second     *)
(* container of the lesson, and another lesson's container and volume.      *)
EXTENDS Sweep, TLC

CONSTANTS c1, c2, c3, v1, v2, n1

MCContainers == {c1, c2, c3}
MCVolumes == {v1, v2}
MCNetworks == {n1}
MCOurs == {c1, c2, v1, n1}
MCUses == {<<c1, v1>>, <<c1, n1>>, <<c3, v2>>}
=============================================================================
