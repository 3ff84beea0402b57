----------------------------- MODULE HttpRequests -----------------------------
(***************************************************************************)
(* HTTP requests on their way through the application, several at once:    *)
(* the two middlewares bind the id and the user token, the route chooses   *)
(* the id it works under and runs the agent in a thread, results become a  *)
(* stored row and an answer, exceptions pass the route's except clauses    *)
(* and then the handlers of main.py, and the middlewares undo their        *)
(* bindings and echo the id.                                               *)
(*                                                                         *)
(* A step is what the code does between two awaits.  Every request has a   *)
(* context of its own; call_next and asyncio.to_thread run in copies of    *)
(* it.  Agents, stores and backends are external: they return or raise.    *)
(* The exceptions are the classes the code names and "other"; those of     *)
(* main.py's handlers are no ValueErrors.  invoke is the synchronous one;  *)
(* with async_accept it is A2ATasks, and gates and resumes in full are     *)
(* HitlSessions.                                                           *)
(***************************************************************************)
EXTENDS FiniteSets

CONSTANTS
    Requests,       \* the requests
    Tokens,         \* forwarded Databricks user tokens
    NoToken,        \* no token: header absent, ContextVar unbound
    NoId,           \* no request id: unbound, not echoed
    NoRow,          \* no row stored for a request
    Remembering     \* agents with conversation memory enabled

Agents == {"spark_rca", "cluster_tuning", "partner"}

Ids == {"client", "middleware", "route"} \X Requests

ASSUME RequestSentinels ==
    NoToken \notin Tokens /\ NoId \notin Ids /\ Remembering \subseteq Agents

TokenArgs == Tokens \cup {NoToken}

Products == {"analyze", "recommend"}
Threaded == Products \cup {"invoke", "start", "resume"}
Routes   == Threaded \cup {"ingest", "register", "debug"}

\* X-Request-Id: sent, absent, or one that only str.strip() finds to be empty.
Headers == {"sent", "absent", "blank"}

\* llm: FoundryLLMNotConfiguredError or ChainInvokerError.
Exceptions ==
    {"value", "databricks", "tool", "nometrics", "registry", "hitl", "notimpl", "llm",
     "memory", "other"}

\* What an answer or a row is made of, as far as properties tell it apart.
Parts == {"result", "evidence", "contexts", "quality"}

Rows == [owner : Agents, id : Ids, parts : SUBSET Parts]

ASSUME RowSentinel == NoRow \notin Rows

\* Whose conversation: the caller's, one minted for him, none.
Conversations == {"named", "minted", "none"}

Contexts == [id : Ids \cup {NoId}, token : TokenArgs]

Runs == [id : Ids \cup {NoId}, token : TokenArgs,
         conversation : Conversations, thread : Conversations]

Statuses == {0, 200, 400, 401, 404, 409, 422, 500, 501, 502, 503}

\* upsert, store: an exception of the retrieval backend, of the recommendation store.
Causes == Exceptions \cup {"none", "http", "upsert", "store"}

Answers == [status : Statuses, cause : Causes, row : BOOLEAN, conversation : Conversations,
            parts : SUBSET Parts, echo : Ids \cup {NoId}]

VARIABLES
    pc,         \* "idle", "received", "named", "bound", "working", "answered", "closed"
    asked,      \* what arrived: route, X-Request-Id, forwarded token
    stateId,    \* request.state.request_id
    ctx,        \* the ContextVars of the request's context: id and token
    run,        \* what the work runs under: id, token, conversation, thread
    answer,     \* status, cause, row announced, conversation, parts, echoed id
    rows,       \* recommendation store: the row each request left
    index,      \* retrieval backend: requests whose document it holds
    directory   \* in-process registry: requests whose binding it holds

stores == <<rows, index, directory>>
vars   == <<pc, asked, stateId, ctx, run, answer, stores>>

NoRun == [id |-> NoId, token |-> NoToken, conversation |-> "none", thread |-> "none"]

NoAnswer == [status |-> 0, cause |-> "none", row |-> FALSE, conversation |-> "none",
             parts |-> {}, echo |-> NoId]

Unbound == [id |-> NoId, token |-> NoToken]

\* set_request_id binds in the context it is called in.
SetRequestId(r, id) == [ctx EXCEPT ![r].id = id]

Init ==
    /\ pc        = [r \in Requests |-> "idle"]
    /\ asked     = [r \in Requests |-> [route |-> "debug", header |-> "absent", token |-> NoToken]]
    /\ stateId   = [r \in Requests |-> NoId]
    /\ ctx       = [r \in Requests |-> Unbound]
    /\ run       = [r \in Requests |-> NoRun]
    /\ answer    = [r \in Requests |-> NoAnswer]
    /\ rows      = [r \in Requests |-> NoRow]
    /\ index     = {}
    /\ directory = {}
-------------------------------------------------------------------------------
(* On the way in. *)

Receive(r) ==
    /\ pc[r] = "idle"
    /\ \E route \in Routes, header \in Headers, token \in TokenArgs :
        asked' = [asked EXCEPT ![r] = [route |-> route, header |-> header, token |-> token]]
    /\ pc' = [pc EXCEPT ![r] = "received"]
    /\ UNCHANGED <<stateId, ctx, run, answer, stores>>

\* Variant: strip() forgotten: a blank header is taken for an id.
HeaderUnstripped(r) ==
    <<CASE asked[r].header = "sent" -> "client"
        [] asked[r].header = "absent" -> "middleware"
        [] asked[r].header = "blank" -> "blank", r>>

\* The client's id, or the middleware's when that is blank or absent.
MiddlewareId(r) == <<IF asked[r].header = "sent" THEN "client" ELSE "middleware", r>>

\* RequestIdMiddleware up to call_next.
BindRequestId(r) ==
    /\ pc[r] = "received"
    /\ stateId' = [stateId EXCEPT ![r] = MiddlewareId(r)]
    /\ ctx' = SetRequestId(r, MiddlewareId(r))
    /\ pc' = [pc EXCEPT ![r] = "named"]
    /\ UNCHANGED <<asked, run, answer, stores>>

\* Variant: the token is bound in the process and not in the context.
BindTokenProcessWide(r) ==
    /\ pc[r] = "named"
    /\ ctx' = IF asked[r].token = NoToken THEN ctx
              ELSE [q \in Requests |-> [ctx[q] EXCEPT !.token = asked[r].token]]
    /\ pc' = [pc EXCEPT ![r] = "bound"]
    /\ UNCHANGED <<asked, stateId, run, answer, stores>>

\* DatabricksUserTokenMiddleware up to call_next: bound only when there is one.
BindToken(r) ==
    /\ pc[r] = "named"
    /\ ctx' = IF asked[r].token = NoToken THEN ctx
              ELSE [ctx EXCEPT ![r].token = asked[r].token]
    /\ pc' = [pc EXCEPT ![r] = "bound"]
    /\ UNCHANGED <<asked, stateId, run, answer, stores>>

Routed(r, route) == pc[r] = "bound" /\ asked[r].route = route
-------------------------------------------------------------------------------
(* Errors. *)

\* The except clauses of analyze_rca; 0 for what passes them.
AnalyzeStatus(e) ==
    CASE e = "value" -> 500
      [] e = "databricks" -> 503
      [] e = "tool" -> 502
      [] OTHER -> 0

\* Variant: recommend_cluster catches everything, as the invoke route does.
RecommendCatchesAll(e) == IF e = "nometrics" THEN 404 ELSE 500

\* Those of recommend_cluster, which has none for a ValueError.
RecommendStatus(e) ==
    CASE e = "nometrics" -> 404
      [] e = "databricks" -> 503
      [] e = "tool" -> 502
      [] OTHER -> 0

\* Those of invoke_registered_agent.
InvokeStatus(e) == IF e = "registry" THEN 404 ELSE 500

\* That of resume_session.
ResumeStatus(e) == IF e = "hitl" THEN 400 ELSE 0

RouteStatus(route, e) ==
    CASE route = "analyze" -> AnalyzeStatus(e)
      [] route = "recommend" -> RecommendStatus(e)
      [] route = "invoke" -> InvokeStatus(e)
      [] route = "resume" -> ResumeStatus(e)
      [] OTHER -> 0

\* The exception handlers of main.py; 0 for what passes them.
HandlerStatus(e) ==
    CASE e = "llm" -> 503
      [] e = "memory" -> 422
      [] OTHER -> 0

\* The status an exception of a route's work ends in; 0 when nobody handles it.
StatusOf(route, e) ==
    IF RouteStatus(route, e) # 0 THEN RouteStatus(route, e) ELSE HandlerStatus(e)

\* The route is left with answer a.
Reply(r, a) ==
    /\ answer' = [answer EXCEPT ![r] = a]
    /\ pc' = [pc EXCEPT ![r] = "answered"]

\* An HTTPException, or an exception that becomes status s.
Refuse(r, s, cause) == Reply(r, [NoAnswer EXCEPT !.status = s, !.cause = cause])

\* Variant: the conversation of the answer is the one the agent's state names.
FromAgentState(r) == "none"

\* model_copy(update={"conversation_id": ...}) and the envelope's conversation_id.
AnsweredConversation(r) == run[r].conversation

\* The answer of a route that ends well; row: whether a stored row is announced.
Success(r, parts, row) ==
    [status |-> 200, cause |-> "none", row |-> row, conversation |-> AnsweredConversation(r),
     parts |-> parts, echo |-> NoId]
-------------------------------------------------------------------------------
(* The routes up to their await. *)

\* Variant: the id the middleware chose is not looked at.
HeaderOrNew(r) == <<IF asked[r].header = "sent" THEN "client" ELSE "route", r>>

\* _request_id: the header if it is true, else the middleware's choice, then
\* stripped: nothing is left of a blank one, and a new id is generated.
ResolveRequestId(r) ==
    CASE asked[r].header = "sent" -> <<"client", r>>
      [] asked[r].header = "absent" -> stateId[r]
      [] asked[r].header = "blank" -> <<"route", r>>

\* _invoke_agent_in_thread: in a copy of the context, the token, if there is one,
\* and the id are bound again.
InvokeAgentInThread(r, conversation, thread) ==
    /\ run' = [run EXCEPT ![r] =
                [id |-> ResolveRequestId(r),
                 token |-> IF asked[r].token # NoToken THEN asked[r].token ELSE ctx[r].token,
                 conversation |-> conversation,
                 thread |-> thread]]
    /\ pc' = [pc EXCEPT ![r] = "working"]
    /\ UNCHANGED answer

ProductAgent(route) == IF route = "analyze" THEN "spark_rca" ELSE "cluster_tuning"

\* analyze_rca, recommend_cluster: without memory a named conversation is refused,
\* with it one is minted when none is named; the agent's thread is the conversation.
EnterProduct(r) ==
    /\ \E route \in Products : Routed(r, route)
    /\ stateId' = [stateId EXCEPT ![r] = ResolveRequestId(r)]
    /\ \E named \in BOOLEAN :
        IF ProductAgent(asked[r].route) \in Remembering
        THEN LET c == IF named THEN "named" ELSE "minted"
             IN  InvokeAgentInThread(r, c, c)
        ELSE IF named
             THEN Refuse(r, StatusOf(asked[r].route, "memory"), "memory") /\ UNCHANGED run
             ELSE InvokeAgentInThread(r, "none", "none")
    /\ UNCHANGED <<asked, ctx, stores>>

\* A header of require_a2a_token; "garbled": a token with a non-ASCII character.
TokenHeaders == {"absent", "right", "wrong", "garbled"}

\* What require_a2a_token takes for the token: its own header's, Authorization's only in
\* its absence.
Provided == {IF own # "absent" THEN own ELSE authorization :
                own \in TokenHeaders, authorization \in TokenHeaders}

Admitted(required, provided) == required => provided = "right"

\* The others get 401, but compare_digest refuses a garbled token with a TypeError.
RefuseToken(r, provided) ==
    IF provided = "garbled"
    THEN Refuse(r, HandlerStatus("other"), "other")
    ELSE Refuse(r, 401, "http")

\* conversation_id of the body, of the input or its thread_id, else a new one.
ConversationOf(named) == IF named THEN "named" ELSE "minted"

\* invoke_registered_agent, not async: the token gate, 400 and 404, then the agent;
\* its thread is the conversation only when it remembers.
EnterInvoke(r) ==
    /\ Routed(r, "invoke")
    /\ \E required \in BOOLEAN, provided \in Provided :
        IF ~Admitted(required, provided)
        THEN RefuseToken(r, provided) /\ UNCHANGED <<stateId, run>>
        ELSE /\ stateId' = [stateId EXCEPT ![r] = ResolveRequestId(r)]
             /\ \/ \E s \in {400, 404} : Refuse(r, s, "http") /\ UNCHANGED run
                \/ \E agent \in Agents, named \in BOOLEAN :
                    LET c == ConversationOf(named)
                    IN  InvokeAgentInThread(r, c, IF agent \in Remembering THEN c ELSE "none")
    /\ UNCHANGED <<asked, ctx, stores>>

\* start_session: 404 before the await.
EnterStart(r) ==
    /\ Routed(r, "start")
    /\ \/ Refuse(r, 404, "http") /\ UNCHANGED run
       \/ InvokeAgentInThread(r, "none", "none")
    /\ UNCHANGED <<asked, stateId, ctx, stores>>

\* resume_session: 404 and 409 before the await.
EnterResume(r) ==
    /\ Routed(r, "resume")
    /\ \/ \E s \in {404, 409} : Refuse(r, s, "http") /\ UNCHANGED run
       \/ InvokeAgentInThread(r, "none", "none")
    /\ UNCHANGED <<asked, stateId, ctx, stores>>
-------------------------------------------------------------------------------
(* Routes without an await, in the request's context. *)

InContext(r) ==
    run' = [run EXCEPT ![r] = [id |-> ctx[r].id, token |-> ctx[r].token,
                               conversation |-> "none", thread |-> "none"]]

\* ingest_knowledge: the acceptance gate and an empty text are 400, a backend that
\* cannot is 501, one that fails, before or after it took the document, 503;
\* provider_for_corpus stands before the try.
IngestKnowledge(r) ==
    /\ Routed(r, "ingest")
    /\ InContext(r)
    /\ \E accepted, text \in BOOLEAN :
        IF ~accepted \/ ~text
        THEN Refuse(r, 400, "http") /\ UNCHANGED index
        ELSE \/ Refuse(r, HandlerStatus("other"), "other") /\ UNCHANGED index
             \/ Refuse(r, 501, "notimpl") /\ UNCHANGED index
             \/ Refuse(r, 503, "upsert") /\ index' \in {index, index \cup {r}}
             \/ Reply(r, Success(r, {}, FALSE)) /\ index' = index \cup {r}
    /\ UNCHANGED <<asked, stateId, ctx, rows, directory>>

\* directory_register: the token gate, then the binding, refused by a ValueError.
DirectoryRegister(r) ==
    /\ Routed(r, "register")
    /\ InContext(r)
    /\ \E required \in BOOLEAN, provided \in Provided :
        IF ~Admitted(required, provided)
        THEN RefuseToken(r, provided) /\ UNCHANGED directory
        ELSE \/ Refuse(r, 400, "http") /\ UNCHANGED directory
             \/ Reply(r, Success(r, {}, FALSE)) /\ directory' = directory \cup {r}
    /\ UNCHANGED <<asked, stateId, ctx, rows, index>>

\* debug_sql_auth reports the token of its context.
DebugSqlAuth(r) ==
    /\ Routed(r, "debug")
    /\ InContext(r)
    /\ Reply(r, Success(r, {}, FALSE))
    /\ UNCHANGED <<asked, stateId, ctx, stores>>
-------------------------------------------------------------------------------
(* The thread returns or raises, and the route ends. *)

\* What the work of each route may raise.
Raised ==
    LET any == {"databricks", "tool", "llm", "other"}
    IN  [analyze   |-> any \cup {"value"},
         recommend |-> any \cup {"value", "nometrics"},
         invoke    |-> any \cup {"value", "nometrics", "registry", "memory"},
         start     |-> any \cup {"memory"},
         resume    |-> any \cup {"hitl"}]

AgentRaises(r) ==
    /\ pc[r] = "working"
    /\ \E e \in Raised[asked[r].route] : Refuse(r, StatusOf(asked[r].route, e), e)
    /\ UNCHANGED <<asked, stateId, ctx, run, stores>>

\* The state the agent returns has not the shape the projection needs; the invoke and
\* session routes project it outside their try.
ProjectionRaises(r) ==
    /\ pc[r] = "working"
    /\ IF asked[r].route \in Products
       THEN Refuse(r, StatusOf(asked[r].route, "value"), "value")
       ELSE Refuse(r, HandlerStatus("other"), "other")
    /\ UNCHANGED <<asked, stateId, ctx, run, stores>>

Quality(there) == IF there THEN {"quality"} ELSE {}

\* rca_response_from_agent_state, tuning_response_from_agent_state: an answer has a
\* quality if the agent reports one.
RcaParts(reported) == {"result", "evidence", "contexts"} \cup Quality(reported)
TuningParts(reported) == {"result"} \cup Quality(reported)

\* _attach_tuning_quality: a reported quality stays, else it is evaluated, which may
\* fail and then leaves the answer as it is.
AttachTuningQuality(parts, evaluated) == parts \cup Quality(evaluated)

\* _bounded_rca_store_response drops the contexts, both persist functions the
\* conversation.
Stored(parts) == parts \ {"contexts"}

Row(r, parts) ==
    [owner |-> ProductAgent(asked[r].route), id |-> run[r].id, parts |-> Stored(parts)]

\* The answer of a route whose row the store raised for.
Unsaved(r, parts) == [Success(r, parts, FALSE) EXCEPT !.cause = "store"]

\* Variant: the id is announced, then the row saved.
AnnounceFirst(r, parts) ==
    /\ Reply(r, Success(r, parts, TRUE))
    /\ \/ rows' = [rows EXCEPT ![r] = Row(r, parts)]
       \/ UNCHANGED rows

\* _persist_*_recommendation: the row is saved and announced, or there is no store,
\* or the store raises, before or after it took the row, and the answer goes out as
\* it is.
PersistRecommendation(r, parts) ==
    \/ /\ rows' = [rows EXCEPT ![r] = Row(r, parts)]
       /\ Reply(r, Success(r, parts, TRUE))
    \/ Reply(r, Success(r, parts, FALSE)) /\ UNCHANGED rows
    \/ /\ rows' \in {rows, [rows EXCEPT ![r] = Row(r, parts)]}
       /\ Reply(r, Unsaved(r, parts))

\* The end of analyze_rca: a paused or rejected run is answered and not stored.
FinishAnalyze(r) ==
    /\ pc[r] = "working" /\ asked[r].route = "analyze"
    /\ \E reported, finished \in BOOLEAN :
        IF finished
        THEN PersistRecommendation(r, RcaParts(reported))
        ELSE Reply(r, Success(r, RcaParts(reported), FALSE)) /\ UNCHANGED rows
    /\ UNCHANGED <<asked, stateId, ctx, run, index, directory>>

\* Variant: the row is saved before the quality is known.
PersistBeforeQuality(r) ==
    /\ pc[r] = "working" /\ asked[r].route = "recommend"
    /\ \E reported, evaluated \in BOOLEAN :
        /\ rows' = [rows EXCEPT ![r] = Row(r, TuningParts(reported))]
        /\ Reply(r, Success(r, AttachTuningQuality(TuningParts(reported), evaluated), TRUE))
    /\ UNCHANGED <<asked, stateId, ctx, run, index, directory>>

\* The end of recommend_cluster: the quality first, then as analyze_rca.
FinishRecommend(r) ==
    /\ pc[r] = "working" /\ asked[r].route = "recommend"
    /\ \E reported, evaluated, finished \in BOOLEAN :
        LET parts == AttachTuningQuality(TuningParts(reported), evaluated)
        IN  IF finished
            THEN PersistRecommendation(r, parts)
            ELSE Reply(r, Success(r, parts, FALSE)) /\ UNCHANGED rows
    /\ UNCHANGED <<asked, stateId, ctx, run, index, directory>>

\* The end of the invoke and session routes.
FinishOther(r) ==
    /\ pc[r] = "working" /\ asked[r].route \notin Products
    /\ Reply(r, Success(r, {"result"}, FALSE))
    /\ UNCHANGED <<asked, stateId, ctx, run, stores>>
-------------------------------------------------------------------------------
(* On the way out. *)

\* Both middlewares: the finally clauses undo the bindings; an answer gets the id
\* that was bound, an exception nobody handled passes and becomes the server's 500.
Leave(r) ==
    /\ pc[r] = "answered"
    /\ ctx' = [ctx EXCEPT ![r] = Unbound]
    /\ answer' = IF answer[r].status = 0
                 THEN [answer EXCEPT ![r].status = 500]
                 ELSE [answer EXCEPT ![r].echo = ctx[r].id]
    /\ pc' = [pc EXCEPT ![r] = "closed"]
    /\ UNCHANGED <<asked, stateId, run, stores>>

Next ==
    \E r \in Requests :
        \/ Receive(r) \/ BindRequestId(r) \/ BindToken(r)
        \/ EnterProduct(r) \/ EnterInvoke(r) \/ EnterStart(r) \/ EnterResume(r)
        \/ IngestKnowledge(r) \/ DirectoryRegister(r) \/ DebugSqlAuth(r)
        \/ AgentRaises(r) \/ ProjectionRaises(r)
        \/ FinishAnalyze(r) \/ FinishRecommend(r) \/ FinishOther(r)
        \/ Leave(r)

Spec == Init /\ [][Next]_vars
-------------------------------------------------------------------------------
(* Properties. *)

\* Every variable has its type.
TypeOK ==
    /\ pc \in [Requests -> {"idle", "received", "named", "bound", "working",
                             "answered", "closed"}]
    /\ asked \in [Requests -> [route : Routes, header : Headers, token : TokenArgs]]
    /\ stateId \in [Requests -> Ids \cup {NoId}]
    /\ ctx \in [Requests -> Contexts]
    /\ run \in [Requests -> Runs]
    /\ answer \in [Requests -> Answers]
    /\ rows \in [Requests -> Rows \cup {NoRow}]
    /\ index \subseteq Requests /\ directory \subseteq Requests

\* Whatever requests overlap, the work of each runs with its own caller's user token,
\* or with none when he sent none, and under an id of its own (middleware.py:50-56,
\* routes.py:197-212).
RunsAsAsked ==
    \A r \in Requests : run[r].id # NoId =>
        run[r].token = asked[r].token /\ run[r].id[2] = r

\* One id correlates everything of a request: the one echoed to the client is the one
\* its work ran under and the one its row carries, unless the header was blank
\* (middleware.py:77-88, routes.py:122-144).
OneCorrelationId ==
    \A r \in Requests :
        pc[r] = "closed" /\ asked[r].header # "blank" /\ answer[r].echo # NoId =>
            /\ run[r].id \in {NoId, answer[r].echo}
            /\ rows[r] # NoRow => rows[r].id = answer[r].echo

\* What the docstrings of the routes and of main.py's handlers say of an exception.
\* The A2A invoke promises nothing: it answers 500 also where main.py says 503 or 422.
Promised ==
    {<<"analyze", "value", 500>>, <<"analyze", "tool", 502>>, <<"analyze", "databricks", 503>>,
     <<"recommend", "nometrics", 404>>, <<"recommend", "tool", 502>>,
     <<"recommend", "databricks", 503>>, <<"resume", "hitl", 400>>,
     <<"ingest", "notimpl", 501>>, <<"ingest", "upsert", 503>>}
    \cup ((Threaded \ {"invoke"}) \X {"llm"} \X {503})
    \cup ((Threaded \ {"invoke"}) \X {"memory"} \X {422})

\* An exception the documentation names ends in the status it names, with the id
\* echoed; an answer without the id is a bare 500 for an exception nothing names
\* (routes.py:700-702, 773-776; main.py:311-391; middleware.py:84-88).
DocumentedAnswers ==
    \A r \in Requests : pc[r] = "closed" =>
        /\ \A p \in Promised :
            p[1] = asked[r].route /\ p[2] = answer[r].cause =>
                answer[r].status = p[3] /\ answer[r].echo # NoId
        /\ answer[r].echo = NoId =>
            /\ answer[r].status = 500
            /\ \A p \in Promised : <<p[1], p[2]>> # <<asked[r].route, answer[r].cause>>

\* What a client is told of is there: a stored recommendation, an indexed document, a
\* binding.  And what is there he is told of, unless the call that put it there
\* raised after all (routes.py:899-1060, 287-314, 585-644).
ToldWhatWasDone ==
    \A r \in Requests :
        /\ answer[r].row => rows[r] # NoRow
        /\ rows[r] # NoRow => answer[r].row \/ answer[r].cause = "store"
        /\ asked[r].route = "ingest" => (answer[r].status = 200 => r \in index)
        /\ r \in index => answer[r].status = 200 \/ answer[r].cause = "upsert"
        /\ asked[r].route = "register" => (answer[r].status = 200 <=> r \in directory)

\* The stored row has the parts of the answer, its contexts apart, whether announced
\* or not: what was added to the answer last, its quality, is in the row too.  How far
\* a part is cut is CopyIsCut's (routes.py:807-812, 839-896).
RowMatchesAnswer ==
    \A r \in Requests : rows[r] # NoRow =>
        /\ rows[r].parts = answer[r].parts \ {"contexts"}
        /\ rows[r].owner = ProductAgent(asked[r].route)

\* The conversation a client is told to go on with is the one whose checkpointer
\* thread his turn was stored in, whatever the agent's state says of it
\* (routes.py:730-732, 346-356).
ConversationContinued ==
    \A r \in Requests : answer[r].status = 200 /\ run[r].thread # "none" =>
        answer[r].conversation = run[r].thread
===============================================================================
