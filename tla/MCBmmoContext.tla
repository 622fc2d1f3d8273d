---------------------------- MODULE MCBmmoContext ----------------------------
(* BmmoContext with two ids and two names, on a server that is empty at first *)
(* or has two users who share a name.                                         *)
EXTENDS BmmoContext

CONSTANTS a, b, nobody

MCName == {a, b}
MCUser == {1, 2}
MCAtStart == {[u \in MCUser |-> nobody], [u \in MCUser |-> a]}
=============================================================================
