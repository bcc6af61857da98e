---------------------------- MODULE MCSupervisor ----------------------------
(***************************************************************************)
(* Small instances of Supervisor.                                          *)
(***************************************************************************)
EXTENDS Supervisor, TLC

CONSTANTS app, c1, c2, c3

OneCaller    == {c1}
TwoCallers   == {c1, c2}
Symmetry     == Permutations(Callers)

Deploys     == {"push", "redeploy", "rollback", "restart"}
JustPush    == {"push"}
OnlyRestart == {"restart"}
RestartDestroy == {"restart", "destroy"}
WithDestroy == {"push", "restart", "destroy"}
NoFaults    == {}
\* Every fault but that of the store, under which a death may go unhandled.
Outside     == AllFaults \ {"store"}
=============================================================================
