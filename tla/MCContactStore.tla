--------------------------- MODULE MCContactStore ---------------------------
(* Instance of ContactStore for TLC: q and r collide, p has an id to       *)
(* itself.                                                                 *)
EXTENDS ContactStore, TLC

CONSTANTS p1, q1, r1, i1, i2

MCPeers == {p1, q1, r1}
MCIds == {i1, i2}
MCIdOf == p1 :> i1 @@ q1 :> i2 @@ r1 :> i2
MCSymmetry == Permutations({q1, r1}) \cup Permutations(Senders)
=============================================================================
