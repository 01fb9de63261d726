--------------------------- MODULE MCPeerIdentity ---------------------------
(* VerifyPeerIdentity for TLC: the default identities, or one of them zero,  *)
(* out of range or the same as another.                                      *)
EXTENDS PeerIdentity

MCIdentities ==
    {[DefaultPeerIdentities EXCEPT ![f] = v] : f \in Fields, v \in 0..MaxID + 1}
=============================================================================
