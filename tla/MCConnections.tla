--------------------------- MODULE MCConnections ---------------------------
(* Connections with two of them from different addresses, one of which may
   come by DispatchLink, and a user whose limit is set, lifted or who is
   deleted and comes back. *)
EXTENDS Connections, TLC

CONSTANTS c1, c2, a1, a2, s1, s2

MCConns == {c1, c2}
MCMayLink == {c2}
MCAddresses == {a1, a2}
MCAddress == (c1 :> a1) @@ (c2 :> a2)
MCSpeeds == {Unlimited, s1, s2}

(* Speeds are only compared. *)
MCSymmetry == Permutations({s1, s2})
=============================================================================
