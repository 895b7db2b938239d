---------------------------- MODULE MCPhysicsSync ----------------------------
(* Small instances of PhysicsSync for TLC.                                   *)
EXTENDS PhysicsSync, TLC

CONSTANT p1

\* Everybody is connected before anything is claimed; or p1 has come and gone,
\* and the others join.
WarmInit ==
    \/ InitFrom(Everybody("registered"), Player, Player)
    \/ InitFrom([Everybody("joining") EXCEPT ![p1] = "left"], Player \ {p1}, {p1})

WarmSpec == WarmInit /\ [][Next]_vars /\ Fairness

=============================================================================
