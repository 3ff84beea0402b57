------------------------------ MODULE MCA2ATasks ------------------------------
(* Instances of A2ATasks for TLC. *)
EXTENDS A2ATasks, TLC

\* Tasks and workers are interchangeable: no safety property names one.
Symmetry == Permutations(Tasks) \cup Permutations(Workers)
===============================================================================
