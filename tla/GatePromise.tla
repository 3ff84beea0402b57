----------------------------- MODULE GatePromise -----------------------------
(***************************************************************************)
(* What the human-in-the-loop contract promises of every agent run, with   *)
(* no requests, threads or sessions that overlap: a run passes without a   *)
(* gate or waits at one; a person decides once, for good; and only a run   *)
(* that passed is stored, once.                                            *)
(***************************************************************************)
EXTENDS Naturals

CONSTANT Runs       \* agent runs

VARIABLES
    gate,       \* per run: "none" before it ran, "waiting", "passed", "rejected"
    stored      \* per run: recommendations stored for it

vars == <<gate, stored>>

Init ==
    /\ gate   = [r \in Runs |-> "none"]
    /\ stored = [r \in Runs |-> 0]

Run(r) ==
    /\ gate[r] = "none"
    /\ \E g \in {"waiting", "passed"} : gate' = [gate EXCEPT ![r] = g]
    /\ UNCHANGED stored

Decide(r) ==
    /\ gate[r] = "waiting"
    /\ \E g \in {"passed", "rejected"} : gate' = [gate EXCEPT ![r] = g]
    /\ UNCHANGED stored

Store(r) ==
    /\ gate[r] = "passed"
    /\ stored[r] = 0
    /\ stored' = [stored EXCEPT ![r] = 1]
    /\ UNCHANGED gate

Next == \E r \in Runs : Run(r) \/ Decide(r) \/ Store(r)

Spec == Init /\ [][Next]_vars
==============================================================================
