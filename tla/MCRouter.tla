------------------------------ MODULE MCRouter ------------------------------
(***************************************************************************)
(* Small instances of Router and RateLimit.  The table and the buckets are *)
(* apart: what one does changes nothing in the other, so each is explored  *)
(* while the other has not begun.                                          *)
(***************************************************************************)
EXTENDS Router, RateLimit, TLC

CONSTANTS a1, a2, i1, i2, i3, p1, p2, r1, r2, k1, k2

TwoApps      == {a1, a2}
ThreeOfThem  == {i1, i2, i3}
TwoPorts     == {p1, p2}
TwoRequests  == {r1, r2}
TwoClients   == {k1, k2}
Symmetry == Permutations(TwoApps) \cup Permutations(ThreeOfThem) \cup Permutations(TwoPorts)
              \cup Permutations(TwoRequests) \cup Permutations(TwoClients)

MCInit == RouteInit /\ LimitInit
MCNext ==
  \/ RouteNext /\ LimitInit /\ UNCHANGED limitVars
  \/ LimitNext /\ RouteInit /\ UNCHANGED routeVars
MCSpec == MCInit /\ [][MCNext]_<<routeVars, limitVars>>
=============================================================================
