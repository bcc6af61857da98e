----------------------------- MODULE MCHookPush -----------------------------
(***************************************************************************)
(* Small instances of HookPush.                                            *)
(***************************************************************************)
EXTENDS HookPush, TLC

CONSTANTS p1, p2, p3

TwoPushes   == {p1, p2}
ThreePushes == {p1, p2, p3}
Symmetry    == Permutations(Pushes)
=============================================================================
