---------------------------- MODULE MCHitlSessions ----------------------------
(* Instances of HitlSessions for TLC. *)
EXTENDS HitlSessions, TLC

Symmetry == Permutations(Runs) \cup Permutations(Clients)
===============================================================================
