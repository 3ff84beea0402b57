----------------------------- MODULE RequestAlone -----------------------------
(***************************************************************************)
(* What the isolation of overlapping requests promises: each of them goes  *)
(* through the application as though it were the only one.  The contract   *)
(* is HttpRequests itself with one request, reached by a refinement that   *)
(* looks at that request's part of every variable.                         *)
(***************************************************************************)
EXTENDS HttpRequests

\* Request s's part of a variable that is a function of the requests.
At(f, s) == [q \in {s} |-> f[q]]

Alone(s) == INSTANCE HttpRequests WITH
    Requests <- {s},
    pc <- At(pc, s), asked <- At(asked, s), stateId <- At(stateId, s),
    ctx <- At(ctx, s), run <- At(run, s), answer <- At(answer, s),
    rows <- At(rows, s), index <- index \cap {s}, directory <- directory \cap {s}

\* \A s \in Requests : Alone(s)!Spec, in the form that can be model-checked: to
\* each request every step of the system is a step it could take alone, or no step,
\* so nothing another request binds, stores or answers is ever seen in it
\* (middleware.py:46-88, routes.py:197-212).
AsIfAlone ==
    /\ \A s \in Requests : Alone(s)!Init
    /\ [][\A s \in Requests : UNCHANGED Alone(s)!vars \/ Alone(s)!Next]_vars
===============================================================================
