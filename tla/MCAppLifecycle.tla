--------------------------- MODULE MCAppLifecycle ---------------------------
(***************************************************************************)
(* A small instance of AppLifecycle: two names, two app ids and three      *)
(* release ids, so that both kinds of ids come back.                       *)
(***************************************************************************)
EXTENDS AppLifecycle, TLC

CONSTANTS n1, n2, c1, c2

TwoIds   == 1 .. 2
TwoNames == {n1, n2}
TwoCalls == {c1, c2}
Symmetry == Permutations(TwoNames) \cup Permutations(TwoCalls)
=============================================================================
