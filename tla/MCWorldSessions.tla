-------------------------- MODULE MCWorldSessions ---------------------------
(* Instances of WorldSessions for TLC.                                     *)
EXTENDS WorldSessions, TLC

CONSTANTS s1, s2, s3, alice, bob, gm

\* Every account connects once.
OneEach == [s \in Sockets |-> CASE s = s1 -> alice [] s = s2 -> bob [] s = s3 -> gm]

\* One player who connects again and again.
OnePlayer == [s \in Sockets |-> alice]

\* The two players are interchangeable together with their connections.
PlayersSymmetry == {[v \in {alice, bob, s1, s2} |->
    CASE v = alice -> bob [] v = bob -> alice [] v = s1 -> s2 [] v = s2 -> s1]}

\* A locked realm, no limit, and two limits.
AnyLimits == {-1, 0, 1, 2}
=============================================================================
