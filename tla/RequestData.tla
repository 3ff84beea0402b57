------------------------------ MODULE RequestData ------------------------------
(***************************************************************************)
(* HttpRequests with the operators its routes hand their data to.  The     *)
(* requests carry no data of their own: wherever a route projects, stores  *)
(* or logs, it does so right for any data.                                 *)
(***************************************************************************)
EXTENDS RequestAlone, AgentResponses

\* Whatever counts the agent of a recommend request returns, the answer's are right.
AnsweredCounts ==
    \A r \in Requests :
        pc[r] = "working" /\ asked[r].route = "recommend" => CountsProjected

\* Whatever evidence the agent of an analyze request returns, its row holds it cut as
\* documented (routes.py:872-888).
StoredCopies ==
    \A r \in Requests :
        rows[r] # NoRow /\ rows[r].owner = "spark_rca" => CopyIsCut

\* "RecommendationStore rows stay bounded for Cosmos/Redis deployments"
\* (routes.py:842-843).
RowsStayBounded ==
    \A r \in Requests :
        rows[r] # NoRow /\ rows[r].owner = "spark_rca" => CopyStaysBounded

\* Request r was just refused, or left without its row, for an exception that
\* log_exception_once logged.  It logs none that nobody handles, and none whose text is
\* the detail of the answer (routes.py:401, 570).
Logged(r) ==
    /\ pc[r] = "answered" /\ answer[r].status # 0
    /\ answer[r].cause \notin {"none", "http"}
    /\ <<asked[r].route, answer[r].cause>> \notin {<<"invoke", "registry">>, <<"resume", "hitl">>}

\* Whatever the text of a logged exception, the message of the log line is safe
\* (routes.py:167, 952, 1054; main.py:328-384).
LoggedMessages == \A r \in Requests : Logged(r) => MessageSafe
===============================================================================
