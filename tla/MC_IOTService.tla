---------------------------- MODULE MC_IOTService ----------------------------
(* Sets of sessions, properties and commands for the runs of IOTService.    *)
EXTENDS IOTService

CONSTANTS c1, c2, c3, temp, play

Clients2 == {c1, c2}
Clients3 == {c1, c2, c3}
Keys == {temp}
Cmds == {play}
Symmetry == Permutations(Client)
=============================================================================
