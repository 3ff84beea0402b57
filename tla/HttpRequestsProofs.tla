-------------------------- MODULE HttpRequestsProofs --------------------------
(***************************************************************************)
(* HttpRequests keeps its invariants for any number of overlapping         *)
(* requests and any set of tokens.                                         *)
(*                                                                         *)
(* The argument is local: a step of a request touches nothing of another   *)
(* (OthersUntouched), so an invariant of one request, Local, need only be  *)
(* kept by that request's own steps.  Local says what is bound in each     *)
(* phase and how the run, the row and the answer hang together.  At the    *)
(* end the locality is a theorem of its own: each request goes through the *)
(* application as though it were alone.                                    *)
(***************************************************************************)
EXTENDS RequestAlone, TLAPS

Step(r) ==
    \/ Receive(r) \/ BindRequestId(r) \/ BindToken(r)
    \/ EnterProduct(r) \/ EnterInvoke(r) \/ EnterStart(r) \/ EnterResume(r)
    \/ IngestKnowledge(r) \/ DirectoryRegister(r) \/ DebugSqlAuth(r)
    \/ AgentRaises(r) \/ ProjectionRaises(r)
    \/ FinishAnalyze(r) \/ FinishRecommend(r) \/ FinishOther(r)
    \/ Leave(r)

\* Nothing has come of the request yet.
Fresh(r) == answer[r] = NoAnswer /\ rows[r] = NoRow /\ r \notin index /\ r \notin directory

\* What is bound, and what exists, in each phase of a request.
PhaseInv(r) ==
    /\ pc[r] \in {"idle", "received"} => ctx[r] = Unbound
    /\ pc[r] = "named" => ctx[r] = [id |-> MiddlewareId(r), token |-> NoToken]
    /\ pc[r] \in {"bound", "working", "answered"} =>
        ctx[r] = [id |-> MiddlewareId(r), token |-> asked[r].token]
    /\ pc[r] \in {"named", "bound"} => stateId[r] = MiddlewareId(r)
    /\ pc[r] \in {"idle", "received", "named", "bound"} => run[r] = NoRun
    /\ pc[r] \notin {"answered", "closed"} => Fresh(r)
    /\ pc[r] = "working" => asked[r].route \in Threaded /\ run[r].id # NoId

\* The run is the request's own.
RunInv(r) ==
    /\ run[r].id # NoId => run[r].token = asked[r].token /\ run[r].id[2] = r
    /\ asked[r].header # "blank" => run[r].id \in {NoId, MiddlewareId(r)}
    /\ run[r].thread \in {"none", run[r].conversation}

\* The row and the answer are those of the run.
ResultInv(r) ==
    /\ rows[r] # NoRow =>
        /\ rows[r].id = run[r].id
        /\ rows[r].parts = answer[r].parts \ {"contexts"}
        /\ rows[r].owner = ProductAgent(asked[r].route)
    /\ answer[r].row => rows[r] # NoRow
    /\ rows[r] # NoRow => answer[r].row \/ answer[r].cause = "store"
    /\ answer[r].status = 200 /\ run[r].thread # "none" =>
        answer[r].conversation = run[r].thread
    /\ answer[r].echo # NoId => answer[r].echo = MiddlewareId(r)

\* The routes that write elsewhere tell whether they did.
ToldInv(r) ==
    /\ asked[r].route = "ingest" => (answer[r].status = 200 => r \in index)
    /\ r \in index => answer[r].status = 200 \/ answer[r].cause = "upsert"
    /\ asked[r].route = "register" => (answer[r].status = 200 <=> r \in directory)

\* The documentation promises something of what became of the request.
Named(p, r) == p[1] = asked[r].route /\ p[2] = answer[r].cause

\* What it promises is what was answered; a bare 500 is promised nothing.
PromiseInv(r) ==
    /\ \A p \in Promised : Named(p, r) => answer[r].status = p[3]
    /\ pc[r] = "closed" /\ answer[r].echo = NoId =>
        answer[r].status = 500 /\ \A p \in Promised : ~Named(p, r)

Local(r) == PhaseInv(r) /\ RunInv(r) /\ ResultInv(r) /\ ToldInv(r) /\ PromiseInv(r)

IInv == TypeOK /\ \A r \in Requests : Local(r)

\* Nothing of request q changes.
Untouched(q) ==
    /\ pc'[q] = pc[q] /\ asked'[q] = asked[q] /\ stateId'[q] = stateId[q]
    /\ ctx'[q] = ctx[q] /\ run'[q] = run[q] /\ answer'[q] = answer[q]
    /\ rows'[q] = rows[q] /\ (q \in index' <=> q \in index)
    /\ (q \in directory' <=> q \in directory)
-------------------------------------------------------------------------------
(* Helpers. *)

LEMMA IdsTyped ==
  ASSUME TypeOK, NEW r \in Requests
  PROVE  /\ MiddlewareId(r) \in Ids /\ MiddlewareId(r)[2] = r
         /\ stateId[r] = MiddlewareId(r) =>
                /\ ResolveRequestId(r) \in Ids /\ ResolveRequestId(r)[2] = r
                /\ asked[r].header # "blank" => ResolveRequestId(r) = MiddlewareId(r)
<1>1. asked[r].header \in {"sent", "absent", "blank"}
  BY DEF TypeOK, Headers
<1>2. \A w \in {"client", "middleware", "route"} : <<w, r>> \in Ids
  BY DEF Ids
<1> QED
  BY <1>1, <1>2 DEF MiddlewareId, ResolveRequestId

LEMMA NoAnswerTyped == NoAnswer \in Answers
BY DEF NoAnswer, Answers, Statuses, Causes, Conversations, Parts

LEMMA RefusalTyped ==
  ASSUME NEW s \in Statuses, NEW cause \in Causes
  PROVE  [NoAnswer EXCEPT !.status = s, !.cause = cause] \in Answers
BY DEF NoAnswer, Answers, Conversations

LEMMA SuccessTyped ==
  ASSUME TypeOK, NEW r \in Requests, NEW parts \in SUBSET Parts, NEW row \in BOOLEAN
  PROVE  Success(r, parts, row) \in Answers
<1>1. run[r].conversation \in Conversations
  BY DEF TypeOK, Runs
<1>2. 200 \in Statuses /\ "none" \in Causes
  BY DEF Statuses, Causes
<1> QED
  BY <1>1, <1>2 DEF Success, AnsweredConversation, Answers

LEMMA UnsavedTyped ==
  ASSUME TypeOK, NEW r \in Requests, NEW parts \in SUBSET Parts
  PROVE  Unsaved(r, parts) \in Answers
<1>1. Success(r, parts, FALSE) \in Answers
  BY SuccessTyped
<1>2. "store" \in Causes
  BY DEF Causes
<1> QED
  BY <1>1, <1>2 DEF Unsaved, Answers

LEMMA StatusTyped ==
  ASSUME NEW route, NEW e
  PROVE  StatusOf(route, e) \in Statuses /\ HandlerStatus(e) \in Statuses
<1>1. HandlerStatus(e) \in {0, 503, 422}
  BY DEF HandlerStatus
<1>2. AnalyzeStatus(e) \in {0, 500, 503, 502} /\ RecommendStatus(e) \in {0, 404, 503, 502}
  BY DEF AnalyzeStatus, RecommendStatus
<1>3. InvokeStatus(e) \in {404, 500} /\ ResumeStatus(e) \in {0, 400}
  BY DEF InvokeStatus, ResumeStatus
<1>4. RouteStatus(route, e) \in {0, 400, 404, 500, 502, 503}
  BY <1>2, <1>3 DEF RouteStatus
<1> QED
  BY <1>1, <1>4 DEF StatusOf, Statuses

LEMMA PartsTyped ==
  ASSUME NEW b \in BOOLEAN, NEW c \in BOOLEAN
  PROVE  /\ RcaParts(b) \in SUBSET Parts /\ TuningParts(b) \in SUBSET Parts
         /\ AttachTuningQuality(TuningParts(b), c) \in SUBSET Parts
BY DEF RcaParts, TuningParts, AttachTuningQuality, Quality, Parts
\* A promise is about an exception and names a status.
LEMMA PromiseTyped ==
  ASSUME NEW p \in Promised
  PROVE  p[2] \notin {"none", "http"} /\ p[3] \notin {0, 200}
BY DEF Promised

\* What the documentation promises nothing of.
LEMMA Unpromised ==
  ASSUME NEW p \in Promised
  PROVE  /\ p[2] # "http" /\ p[2] # "other" /\ p[2] # "store"
         /\ p[1] = "ingest" /\ p[2] = "notimpl" => p[3] = 501
         /\ p[1] = "ingest" /\ p[2] = "upsert" => p[3] = 503
BY DEF Promised

\* What the documentation says of an exception of a threaded route is what the except
\* clauses and the handlers make of it.
LEMMA PromisesKept ==
  ASSUME NEW p \in Promised, p[1] \in Threaded
  PROVE  StatusOf(p[1], p[2]) = p[3]
<1> USE DEF StatusOf, RouteStatus, HandlerStatus, AnalyzeStatus, RecommendStatus, InvokeStatus,
            ResumeStatus
<1>1. CASE p \in (Threaded \ {"invoke"}) \X {"llm"} \X {503}
  BY <1>1 DEF Threaded, Products
<1>2. CASE p \in (Threaded \ {"invoke"}) \X {"memory"} \X {422}
  BY <1>2 DEF Threaded, Products
<1>3. CASE p \in {<<"analyze", "value", 500>>, <<"analyze", "tool", 502>>,
                  <<"analyze", "databricks", 503>>}
  BY <1>3
<1>4. CASE p \in {<<"recommend", "nometrics", 404>>, <<"recommend", "tool", 502>>,
                  <<"recommend", "databricks", 503>>}
  BY <1>4
<1>5. CASE p = <<"resume", "hitl", 400>>
  BY <1>5
<1>6. CASE p \in {<<"ingest", "notimpl", 501>>, <<"ingest", "upsert", 503>>}
  BY <1>6 DEF Threaded, Products
<1> QED
  BY <1>1, <1>2, <1>3, <1>4, <1>5, <1>6 DEF Promised
-------------------------------------------------------------------------------
(* Other requests. *)

LEMMA OthersUntouched ==
  ASSUME TypeOK, NEW r \in Requests, NEW q \in Requests, q # r, Step(r)
  PROVE  Untouched(q)
<1> USE DEF Untouched, TypeOK, vars, stores
<1>1. CASE Receive(r)
  BY <1>1 DEF Receive
<1>2. CASE BindRequestId(r)
  BY <1>2 DEF BindRequestId, SetRequestId
<1>3. CASE BindToken(r)
  BY <1>3 DEF BindToken
<1>4. CASE EnterProduct(r)
  BY <1>4 DEF EnterProduct, InvokeAgentInThread, Refuse, Reply
<1>5. CASE EnterInvoke(r)
  BY <1>5 DEF EnterInvoke, InvokeAgentInThread, RefuseToken, Refuse, Reply
<1>6. CASE EnterStart(r)
  BY <1>6 DEF EnterStart, InvokeAgentInThread, Refuse, Reply
<1>7. CASE EnterResume(r)
  BY <1>7 DEF EnterResume, InvokeAgentInThread, Refuse, Reply
<1>8. CASE IngestKnowledge(r)
  BY <1>8 DEF IngestKnowledge, InContext, Refuse, Reply, Success, AnsweredConversation
<1>9. CASE DirectoryRegister(r)
  BY <1>9 DEF DirectoryRegister, InContext, RefuseToken, Refuse, Reply, Success,
     AnsweredConversation
<1>10. CASE DebugSqlAuth(r)
  BY <1>10 DEF DebugSqlAuth, InContext, Reply, Success, AnsweredConversation
<1>11. CASE AgentRaises(r)
  BY <1>11 DEF AgentRaises, Refuse, Reply
<1>12. CASE ProjectionRaises(r)
  BY <1>12 DEF ProjectionRaises, Refuse, Reply
<1>13. CASE FinishAnalyze(r)
  BY <1>13 DEF FinishAnalyze, PersistRecommendation, Reply
<1>14. CASE FinishRecommend(r)
  BY <1>14 DEF FinishRecommend, PersistRecommendation, Reply
<1>15. CASE FinishOther(r)
  BY <1>15 DEF FinishOther, Reply
<1>16. CASE Leave(r)
  BY <1>16 DEF Leave
<1> QED
  BY <1>1, <1>2, <1>3, <1>4, <1>5, <1>6, <1>7, <1>8, <1>9, <1>10, <1>11, <1>12,
     <1>13, <1>14, <1>15, <1>16 DEF Step

LEMMA UntouchedKeepsLocal ==
  ASSUME NEW q \in Requests, Untouched(q), Local(q)
  PROVE  Local(q)'
<1>1. MiddlewareId(q)' = MiddlewareId(q)
  BY DEF Untouched, MiddlewareId
<1>2. PhaseInv(q)'
  BY <1>1 DEF Untouched, Local, PhaseInv, Fresh
<1>3. RunInv(q)'
  BY <1>1 DEF Untouched, Local, RunInv
<1>4. ResultInv(q)'
  BY <1>1 DEF Untouched, Local, ResultInv, ProductAgent
<1>5. ToldInv(q)'
  BY DEF Untouched, Local, ToldInv
<1>6. PromiseInv(q)'
  BY DEF Untouched, Local, PromiseInv, Named
<1> QED
  BY <1>2, <1>3, <1>4, <1>5, <1>6 DEF Local
-------------------------------------------------------------------------------
(* The request's own steps. *)

LEMMA InitLocal ==
  ASSUME Init
  PROVE  IInv
<1>1. TypeOK
  BY NoAnswerTyped DEF Init, TypeOK, Routes, Headers, TokenArgs, Contexts, Runs, Unbound,
     NoRun, Conversations
<1>2. ASSUME NEW r \in Requests PROVE Local(r)
  BY RequestSentinels, PromiseTyped DEF Init, Local, PhaseInv, RunInv, ResultInv, ToldInv,
     PromiseInv, Named, Fresh, NoAnswer, NoRun
<1> QED
  BY <1>1, <1>2 DEF IInv

\* A request without a run, of which nothing has come, keeps all but its phase.
LEMMA NothingYet ==
  ASSUME NEW r \in Requests, Fresh(r)', run'[r] = NoRun,
         \/ /\ pc'[r] = "named" /\ stateId'[r] = MiddlewareId(r)'
            /\ ctx'[r] = [id |-> MiddlewareId(r)', token |-> NoToken]
         \/ /\ pc'[r] = "bound" /\ stateId'[r] = MiddlewareId(r)'
            /\ ctx'[r] = [id |-> MiddlewareId(r)', token |-> asked'[r].token]
  PROVE  Local(r)'
<1>1. PhaseInv(r)'
  BY DEF PhaseInv
<1>2. RunInv(r)'
  BY DEF RunInv, NoRun
<1>3. ResultInv(r)'
  BY DEF ResultInv, Fresh, NoAnswer, NoRun
<1>4. ToldInv(r)'
  BY DEF ToldInv, Fresh, NoAnswer
<1>5. PromiseInv(r)'
  BY PromiseTyped DEF PromiseInv, Named, Fresh, NoAnswer
<1> QED
  BY <1>1, <1>2, <1>3, <1>4, <1>5 DEF Local

\* What the way in keeps.
LEMMA WayInStep ==
  ASSUME IInv, NEW r \in Requests, Receive(r) \/ BindRequestId(r) \/ BindToken(r)
  PROVE  TypeOK' /\ Local(r)'
<1> USE DEF IInv
<1>1. Local(r) /\ MiddlewareId(r) \in Ids
  BY IdsTyped
<1>2. CASE Receive(r)
  <2>1. TypeOK'
    BY <1>2 DEF Receive, TypeOK, stores
  <2>2. Local(r)'
    BY <1>1, <1>2, PromiseTyped DEF Receive, TypeOK, stores, Local, PhaseInv, RunInv, ResultInv,
       ToldInv, PromiseInv, Named, Fresh, NoRun, NoAnswer
  <2> QED
    BY <2>1, <2>2
<1>3. CASE BindRequestId(r)
  <2>1. TypeOK'
    BY <1>1, <1>3 DEF BindRequestId, SetRequestId, TypeOK, Contexts, stores
  <2>2. /\ pc'[r] = "named" /\ asked'[r] = asked[r] /\ run'[r] = NoRun
        /\ stateId'[r] = MiddlewareId(r) /\ MiddlewareId(r)' = MiddlewareId(r)
        /\ Fresh(r)'
    BY <1>1, <1>3 DEF BindRequestId, TypeOK, stores, Local, PhaseInv, Fresh, MiddlewareId
  <2>3. ctx[r] = [id |-> NoId, token |-> NoToken]
    BY <1>1, <1>3 DEF BindRequestId, Local, PhaseInv, Unbound
  <2>4. ctx' = [ctx EXCEPT ![r].id = MiddlewareId(r)]
    BY <1>3 DEF BindRequestId, SetRequestId
  <2>5. ctx'[r] = [id |-> MiddlewareId(r), token |-> NoToken]
    BY <2>3, <2>4 DEF TypeOK
  <2>6. Local(r)'
    BY <2>2, <2>5, NothingYet
  <2> QED
    BY <2>1, <2>6
<1>4. CASE BindToken(r)
  <2>1. TypeOK'
    BY <1>4 DEF BindToken, TypeOK, Contexts, stores
  <2>2. /\ pc'[r] = "bound" /\ asked'[r] = asked[r] /\ run'[r] = NoRun
        /\ stateId'[r] = MiddlewareId(r) /\ MiddlewareId(r)' = MiddlewareId(r)
        /\ Fresh(r)'
    BY <1>1, <1>4 DEF BindToken, TypeOK, stores, Local, PhaseInv, Fresh, MiddlewareId
  <2>3. ctx'[r] = [id |-> MiddlewareId(r), token |-> asked[r].token]
    BY <1>1, <1>4 DEF BindToken, TypeOK, Contexts, Local, PhaseInv
  <2>4. Local(r)'
    BY <2>2, <2>3, NothingYet
  <2> QED
    BY <2>1, <2>4
<1> QED
  BY <1>2, <1>3, <1>4

\* The work starts: a run under the request's own id and token.
LEMMA InvokeStep ==
  ASSUME IInv, NEW r \in Requests, pc[r] = "bound", asked[r].route \in Threaded,
         NEW c \in Conversations, NEW t \in {"none", c}, InvokeAgentInThread(r, c, t),
         stateId' \in {stateId, [stateId EXCEPT ![r] = ResolveRequestId(r)]},
         UNCHANGED <<asked, ctx, stores>>
  PROVE  TypeOK' /\ Local(r)'
<1>1. TypeOK /\ Local(r)
  BY DEF IInv
<1>2. /\ MiddlewareId(r) \in Ids /\ stateId[r] = MiddlewareId(r)
      /\ ResolveRequestId(r) \in Ids /\ ResolveRequestId(r)[2] = r
      /\ asked[r].header # "blank" => ResolveRequestId(r) = MiddlewareId(r)
  BY <1>1, IdsTyped DEF Local, PhaseInv
<1>3. ctx[r].token = asked[r].token /\ asked[r].token \in TokenArgs
  BY <1>1 DEF Local, PhaseInv, TypeOK
<1> DEFINE n == [id |-> ResolveRequestId(r), token |-> asked[r].token,
                 conversation |-> c, thread |-> t]
<1>4. run' = [run EXCEPT ![r] = n] /\ pc' = [pc EXCEPT ![r] = "working"] /\ answer' = answer
  BY <1>3 DEF InvokeAgentInThread
<1>5. n \in Runs
  BY <1>2, <1>3 DEF Runs, Conversations
<1>6. TypeOK'
  BY <1>1, <1>2, <1>4, <1>5 DEF TypeOK, stores
<1>7. run'[r] = n /\ pc'[r] = "working" /\ MiddlewareId(r)' = MiddlewareId(r) /\ Fresh(r)'
  BY <1>1, <1>4 DEF TypeOK, MiddlewareId, Local, PhaseInv, Fresh, stores
<1>8. PhaseInv(r)'
  BY <1>1, <1>2, <1>7, RequestSentinels DEF Local, PhaseInv
<1>9. RunInv(r)'
  BY <1>2, <1>7 DEF RunInv
<1>10. ResultInv(r)' /\ ToldInv(r)'
  BY <1>7 DEF ResultInv, ToldInv, Fresh, NoAnswer, Threaded, Products
<1>11. PromiseInv(r)'
  BY <1>7, PromiseTyped DEF PromiseInv, Named, Fresh, NoAnswer
<1> QED
  BY <1>6, <1>8, <1>9, <1>10, <1>11 DEF Local

\* A request is refused; its run is what it was, or its context's.  The retrieval backend
\* may have taken the document it raised for.
LEMMA RefusalStep ==
  ASSUME IInv, NEW r \in Requests, pc[r] \in {"bound", "working"},
         NEW s \in Statuses \ {200}, NEW cause \in Causes, Refuse(r, s, cause),
         \A p \in Promised : p[1] = asked[r].route /\ p[2] = cause => s = p[3],
         run' \in {run, [run EXCEPT ![r] = [id |-> ctx[r].id, token |-> ctx[r].token,
                                          conversation |-> "none", thread |-> "none"]]},
         run' # run => pc[r] = "bound",
         stateId' \in {stateId, [stateId EXCEPT ![r] = ResolveRequestId(r)]},
         pc[r] = "working" => stateId' = stateId,
         index' = index \/ (index' = index \cup {r} /\ cause = "upsert"),
         UNCHANGED <<asked, ctx, rows, directory>>
  PROVE  TypeOK' /\ Local(r)'
<1>1. TypeOK /\ Local(r)
  BY DEF IInv
<1>2. /\ MiddlewareId(r) \in Ids /\ MiddlewareId(r)[2] = r
      /\ stateId[r] = MiddlewareId(r) => ResolveRequestId(r) \in Ids
      /\ pc[r] = "bound" => stateId[r] = MiddlewareId(r)
  BY <1>1, IdsTyped DEF Local, PhaseInv
<1>3. ctx[r] = [id |-> MiddlewareId(r), token |-> asked[r].token] /\ asked[r].token \in TokenArgs
  BY <1>1 DEF Local, PhaseInv, TypeOK
<1> DEFINE n == [id |-> MiddlewareId(r), token |-> asked[r].token,
                 conversation |-> "none", thread |-> "none"]
           a == [NoAnswer EXCEPT !.status = s, !.cause = cause]
<1>4. run' = run \/ run' = [run EXCEPT ![r] = n]
  BY <1>3
<1>5. n \in Runs /\ a \in Answers
  BY <1>2, <1>3, RefusalTyped DEF Runs, Conversations
<1>6. answer' = [answer EXCEPT ![r] = a] /\ pc' = [pc EXCEPT ![r] = "answered"]
  BY DEF Refuse, Reply
<1>7. stateId' \in [Requests -> Ids \cup {NoId}]
  BY <1>1, <1>2 DEF TypeOK
<1> HIDE DEF n, a
<1>8. TypeOK'
  <2>1. run' \in [Requests -> Runs] /\ answer' \in [Requests -> Answers]
    BY <1>1, <1>4, <1>5, <1>6 DEF TypeOK
  <2>2. pc' \in [Requests -> {"idle", "received", "named", "bound", "working",
                              "answered", "closed"}]
    BY <1>1, <1>6 DEF TypeOK
  <2> QED
    BY <1>1, <1>7, <2>1, <2>2 DEF TypeOK
<1> USE DEF n, a
<1>9. /\ pc'[r] = "answered" /\ MiddlewareId(r)' = MiddlewareId(r)
      /\ a.status # 200 /\ ~a.row /\ a.echo = NoId /\ answer'[r] = a
      /\ a.status = s /\ a.cause = cause /\ asked' = asked
      /\ run'[r] \in {run[r], n}
      /\ rows'[r] = NoRow /\ (r \in index' => cause = "upsert") /\ r \notin directory'
  BY <1>1, <1>4, <1>6 DEF TypeOK, MiddlewareId, Local, PhaseInv, Fresh, NoAnswer
<1> HIDE DEF a
<1>10. PhaseInv(r)'
  BY <1>3, <1>9 DEF PhaseInv
<1>11. RunInv(r)'
  BY <1>1, <1>2, <1>9 DEF RunInv, Local
<1>12. ResultInv(r)' /\ ToldInv(r)'
  BY <1>9 DEF ResultInv, ToldInv
<1>13. PromiseInv(r)'
  BY <1>9 DEF PromiseInv, Named
<1> QED
  BY <1>8, <1>10, <1>11, <1>12, <1>13 DEF Local

\* The same, with all stores left alone.
LEMMA RefuseStep ==
  ASSUME IInv, NEW r \in Requests, pc[r] \in {"bound", "working"},
         NEW s \in Statuses \ {200}, NEW cause \in Causes, Refuse(r, s, cause),
         \A p \in Promised : p[1] = asked[r].route /\ p[2] = cause => s = p[3],
         run' \in {run, [run EXCEPT ![r] = [id |-> ctx[r].id, token |-> ctx[r].token,
                                          conversation |-> "none", thread |-> "none"]]},
         run' # run => pc[r] = "bound",
         stateId' \in {stateId, [stateId EXCEPT ![r] = ResolveRequestId(r)]},
         pc[r] = "working" => stateId' = stateId,
         UNCHANGED <<asked, ctx, stores>>
  PROVE  TypeOK' /\ Local(r)'
BY RefusalStep DEF stores

\* A route that ends well: the row, if any, is the run's and the answer's.
LEMMA SuccessStep ==
  ASSUME IInv, NEW r \in Requests, pc[r] = "working",
         NEW parts \in SUBSET Parts, NEW row \in BOOLEAN, NEW saved \in BOOLEAN,
         NEW a, Reply(r, a), a = Success(r, parts, row) \/ (a = Unsaved(r, parts) /\ ~row),
         row => saved, saved => row \/ a = Unsaved(r, parts),
         rows' = IF saved THEN [rows EXCEPT ![r] = Row(r, parts)] ELSE rows,
         UNCHANGED <<asked, stateId, ctx, run, index, directory>>
  PROVE  TypeOK' /\ Local(r)'
<1>1. TypeOK /\ Local(r)
  BY DEF IInv
<1>2. a \in Answers
  BY <1>1, SuccessTyped, UnsavedTyped
<1>3. answer' = [answer EXCEPT ![r] = a] /\ pc' = [pc EXCEPT ![r] = "answered"]
  BY DEF Reply
<1>4. run[r].id \in Ids
  BY <1>1 DEF Local, PhaseInv, TypeOK, Runs
<1>5. Row(r, parts) \in Rows /\ Row(r, parts) # NoRow
  BY <1>4, RowSentinel DEF Row, Rows, Stored, ProductAgent, Agents
<1>6. rows' \in [Requests -> Rows \cup {NoRow}]
  BY <1>1, <1>5 DEF TypeOK
<1>7. answer' \in [Requests -> Answers]
  BY <1>1, <1>2, <1>3 DEF TypeOK
<1>8. TypeOK'
  BY <1>1, <1>3, <1>6, <1>7 DEF TypeOK
<1>9. /\ pc'[r] = "answered" /\ MiddlewareId(r)' = MiddlewareId(r)
      /\ answer'[r] = a /\ asked'[r].route \notin {"ingest", "register"}
      /\ run' = run /\ asked' = asked /\ ctx' = ctx /\ ProductAgent(asked[r].route)' = ProductAgent(asked[r].route)
      /\ (saved => rows'[r] = Row(r, parts))
      /\ (~saved => rows'[r] = NoRow)
      /\ r \notin index' /\ r \notin directory'
  BY <1>1, <1>3 DEF TypeOK, MiddlewareId, Local, PhaseInv, Fresh, Threaded, Products
<1>10. /\ a.parts = parts /\ a.status = 200 /\ a.conversation = run[r].conversation
       /\ a.echo = NoId /\ (a.row <=> row) /\ a.cause \in {"none", "store"}
       /\ saved => row \/ a.cause = "store"
  <2>1. CASE a = Success(r, parts, row)
    BY <2>1 DEF Success, AnsweredConversation, Unsaved
  <2>2. CASE a = Unsaved(r, parts) /\ ~row
    BY <2>2 DEF Success, AnsweredConversation, Unsaved
  <2> QED
    BY <2>1, <2>2
<1>11. PhaseInv(r)'
  BY <1>1, <1>9 DEF PhaseInv, Local
<1>12. RunInv(r)'
  BY <1>1, <1>9 DEF RunInv, Local
<1>13. ToldInv(r)'
  BY <1>9 DEF ToldInv
<1>14. rows'[r] # NoRow <=> saved
  BY <1>5, <1>9
<1>15. saved => /\ rows'[r].id = run[r].id /\ rows'[r].parts = parts \ {"contexts"}
              /\ rows'[r].owner = ProductAgent(asked[r].route)
  BY <1>9 DEF Row, Stored
<1>16. run[r].thread # "none" => a.conversation = run[r].thread
  BY <1>1, <1>10 DEF Local, RunInv
<1>17. ResultInv(r)'
  BY <1>9, <1>10, <1>14, <1>15, <1>16 DEF ResultInv
<1>18. PromiseInv(r)'
  BY <1>9, <1>10, PromiseTyped, Unpromised DEF PromiseInv, Named
<1> QED
  BY <1>8, <1>11, <1>12, <1>13, <1>17, <1>18 DEF Local

\* A route without an await that ends well.
LEMMA ImmediateStep ==
  ASSUME IInv, NEW r \in Requests, pc[r] = "bound", InContext(r),
         Reply(r, Success(r, {}, FALSE)),
         index' = IF asked[r].route = "ingest" THEN index \cup {r} ELSE index,
         directory' = IF asked[r].route = "register" THEN directory \cup {r} ELSE directory,
         UNCHANGED <<asked, stateId, ctx, rows>>
  PROVE  TypeOK' /\ Local(r)'
<1>1. TypeOK /\ Local(r)
  BY DEF IInv
<1>2. MiddlewareId(r) \in Ids /\ MiddlewareId(r)[2] = r
  BY <1>1, IdsTyped
<1>3. ctx[r] = [id |-> MiddlewareId(r), token |-> asked[r].token] /\ asked[r].token \in TokenArgs
  BY <1>1 DEF Local, PhaseInv, TypeOK
<1> DEFINE n == [id |-> MiddlewareId(r), token |-> asked[r].token,
                 conversation |-> "none", thread |-> "none"]
           a == Success(r, {}, FALSE)
<1>4. run' = [run EXCEPT ![r] = n]
  BY <1>3 DEF InContext
<1>5. a.status = 200 /\ ~a.row /\ a.echo = NoId /\ a.cause = "none"
  BY DEF Success
<1>6. n \in Runs /\ a \in Answers
  BY <1>1, <1>2, <1>3, SuccessTyped DEF Runs, Conversations
<1>7. answer' = [answer EXCEPT ![r] = a] /\ pc' = [pc EXCEPT ![r] = "answered"]
  BY DEF Reply
<1> HIDE DEF n, a
<1>8. run' \in [Requests -> Runs] /\ answer' \in [Requests -> Answers]
  BY <1>1, <1>4, <1>6, <1>7 DEF TypeOK
<1>9. TypeOK'
  BY <1>1, <1>7, <1>8 DEF TypeOK
<1>10. /\ pc'[r] = "answered" /\ MiddlewareId(r)' = MiddlewareId(r)
       /\ answer'[r] = a /\ run'[r] = n /\ rows'[r] = NoRow
       /\ asked'[r].route = "ingest" => r \in index'
       /\ asked'[r].route = "register" => r \in directory'
  BY <1>1, <1>4, <1>7 DEF TypeOK, MiddlewareId, Local, PhaseInv, Fresh
<1> USE DEF n
<1>11. PhaseInv(r)' /\ RunInv(r)'
  BY <1>2, <1>3, <1>10 DEF PhaseInv, RunInv
<1>12. ResultInv(r)' /\ ToldInv(r)'
  BY <1>5, <1>10 DEF ResultInv, ToldInv
<1>13. PromiseInv(r)'
  BY <1>5, <1>10, PromiseTyped DEF PromiseInv, Named
<1> QED
  BY <1>9, <1>11, <1>12, <1>13 DEF Local

\* The way out.
LEMMA LeaveStep ==
  ASSUME IInv, NEW r \in Requests, Leave(r)
  PROVE  TypeOK' /\ Local(r)'
<1>1. TypeOK /\ Local(r)
  BY DEF IInv
<1>2. /\ ctx[r].id = MiddlewareId(r) /\ MiddlewareId(r) \in Ids /\ pc[r] = "answered"
  BY <1>1, IdsTyped DEF Leave, Local, PhaseInv
<1> DEFINE a == IF answer[r].status = 0 THEN [answer[r] EXCEPT !.status = 500]
                ELSE [answer[r] EXCEPT !.echo = MiddlewareId(r)]
<1>3. answer[r] \in Answers /\ 500 \in Statuses
  BY <1>1 DEF TypeOK, Statuses
<1>4. /\ answer' = [answer EXCEPT ![r] = a] /\ pc' = [pc EXCEPT ![r] = "closed"]
      /\ ctx' = [ctx EXCEPT ![r] = Unbound]
      /\ UNCHANGED <<asked, stateId, run, rows, index, directory>>
  BY <1>1, <1>2 DEF Leave, TypeOK, stores
<1>5. /\ a \in Answers /\ a.row = answer[r].row /\ a.parts = answer[r].parts
      /\ a.conversation = answer[r].conversation
      /\ (a.status = 200 <=> answer[r].status = 200)
      /\ a.echo \in {answer[r].echo, MiddlewareId(r)} /\ a.cause = answer[r].cause
      /\ answer[r].status = 0 => a.status = 500
      /\ answer[r].status # 0 => a.status = answer[r].status /\ a.echo = MiddlewareId(r)
  BY <1>2, <1>3 DEF Answers
<1> HIDE DEF a
<1>6. TypeOK'
  <2>1. ctx' \in [Requests -> Contexts] /\ answer' \in [Requests -> Answers]
    BY <1>1, <1>4, <1>5 DEF TypeOK, Contexts, Unbound, TokenArgs
  <2> QED
    BY <1>1, <1>4, <2>1 DEF TypeOK
<1>7. answer'[r] = a /\ pc'[r] = "closed" /\ MiddlewareId(r)' = MiddlewareId(r)
  BY <1>1, <1>4 DEF TypeOK, MiddlewareId
<1>8. PhaseInv(r)'
  BY <1>7 DEF PhaseInv
<1>9. RunInv(r)'
  BY <1>1, <1>4, <1>7 DEF Local, RunInv
<1>10. ResultInv(r)'
  BY <1>1, <1>4, <1>5, <1>7 DEF Local, ResultInv, ProductAgent
<1>11. ToldInv(r)'
  BY <1>1, <1>4, <1>5, <1>7 DEF Local, ToldInv
<1>12. PromiseInv(r)'
  <2>1. \A p \in Promised : Named(p, r)' <=> Named(p, r)
    BY <1>4, <1>5, <1>7 DEF Named
  <2>2. answer[r].status = 0 => \A p \in Promised : ~Named(p, r)
    BY <1>1, PromiseTyped DEF Local, PromiseInv
  <2>3. MiddlewareId(r) # NoId
    BY <1>2, RequestSentinels
  <2> QED
    BY <1>1, <1>5, <1>7, <2>1, <2>2, <2>3 DEF Local, PromiseInv
<1> QED
  BY <1>6, <1>8, <1>9, <1>10, <1>11, <1>12 DEF Local
-------------------------------------------------------------------------------
(* Every step. *)

LEMMA EnterStep ==
  ASSUME IInv, NEW r \in Requests,
         EnterProduct(r) \/ EnterInvoke(r) \/ EnterStart(r) \/ EnterResume(r)
  PROVE  TypeOK' /\ Local(r)'
<1> DEFINE Kept == run' = run /\ UNCHANGED <<asked, ctx, stores>>
           Id   == stateId' \in {stateId, [stateId EXCEPT ![r] = ResolveRequestId(r)]}
<1>1. ASSUME NEW s \in Statuses \ {200}, Refuse(r, s, "http"), Kept, Id, pc[r] = "bound"
      PROVE  TypeOK' /\ Local(r)'
  BY <1>1, RefuseStep, Unpromised DEF Causes
<1>2. ASSUME NEW c \in Conversations, NEW t \in {"none", c}, InvokeAgentInThread(r, c, t),
             Id, pc[r] = "bound", asked[r].route \in Threaded, UNCHANGED <<asked, ctx, stores>>
      PROVE  TypeOK' /\ Local(r)'
  BY <1>2, InvokeStep
<1>3. {400, 401, 404, 409} \subseteq Statuses \ {200}
  BY DEF Statuses
<1>4. \A named \in BOOLEAN : ConversationOf(named) \in Conversations
  BY DEF ConversationOf, Conversations
<1>5. {"none", "named", "minted"} = Conversations
  BY DEF Conversations
<1>6. CASE EnterProduct(r)
  <2>1. /\ pc[r] = "bound" /\ asked[r].route \in Products /\ asked[r].route \in Threaded
        /\ Id /\ UNCHANGED <<asked, ctx, stores>>
    BY <1>6 DEF EnterProduct, Routed, Threaded
  <2>2. CASE /\ Refuse(r, StatusOf(asked[r].route, "memory"), "memory") /\ UNCHANGED run
    <3>1. StatusOf(asked[r].route, "memory") \in Statuses \ {200}
      BY <2>1, StatusTyped DEF StatusOf, RouteStatus, AnalyzeStatus, RecommendStatus,
         HandlerStatus, Products
    <3>2. \A p \in Promised : p[1] = asked[r].route /\ p[2] = "memory"
                                => StatusOf(asked[r].route, "memory") = p[3]
      BY <2>1, PromisesKept
    <3>3. "memory" \in Causes
      BY DEF Causes, Exceptions
    <3> QED
      BY <2>1, <2>2, <3>1, <3>2, <3>3, RefuseStep
  <2>3. CASE \E c \in Conversations : InvokeAgentInThread(r, c, c)
    BY <1>2, <2>1, <2>3
  <2> QED
    BY <1>5, <1>6, <2>2, <2>3 DEF EnterProduct
<1>7. CASE EnterInvoke(r)
  <2>1. pc[r] = "bound" /\ asked[r].route \in Threaded /\ Id /\ UNCHANGED <<asked, ctx, stores>>
    BY <1>7 DEF EnterInvoke, Routed, Threaded
  <2>2. CASE \E s \in {400, 401, 404} : Refuse(r, s, "http") /\ UNCHANGED run
    BY <1>1, <1>3, <2>1, <2>2
  <2>3. CASE Refuse(r, 0, "other") /\ UNCHANGED run
    BY <2>1, <2>3, RefuseStep, Unpromised DEF Statuses, Causes, Exceptions
  <2>4. CASE \E c \in Conversations : \E t \in {"none", c} : InvokeAgentInThread(r, c, t)
    BY <1>2, <2>1, <2>4
  <2> QED
    BY <1>4, <1>7, <2>2, <2>3, <2>4 DEF EnterInvoke, RefuseToken, HandlerStatus
<1>8. CASE EnterStart(r)
  <2>1. pc[r] = "bound" /\ asked[r].route \in Threaded /\ Id /\ UNCHANGED <<asked, ctx, stores>>
    BY <1>8 DEF EnterStart, Routed, Threaded
  <2> QED
    BY <1>1, <1>2, <1>3, <1>5, <1>8, <2>1 DEF EnterStart
<1>9. CASE EnterResume(r)
  <2>1. pc[r] = "bound" /\ asked[r].route \in Threaded /\ Id /\ UNCHANGED <<asked, ctx, stores>>
    BY <1>9 DEF EnterResume, Routed, Threaded
  <2> QED
    BY <1>1, <1>2, <1>3, <1>5, <1>9, <2>1 DEF EnterResume
<1> QED
  BY <1>6, <1>7, <1>8, <1>9

LEMMA ImmediateRoutesStep ==
  ASSUME IInv, NEW r \in Requests, IngestKnowledge(r) \/ DirectoryRegister(r) \/ DebugSqlAuth(r)
  PROVE  TypeOK' /\ Local(r)'
<1> DEFINE Kept == UNCHANGED <<asked, stateId, ctx, stores>>
<1>1. pc[r] = "bound" /\ InContext(r)
  BY DEF IngestKnowledge, DirectoryRegister, DebugSqlAuth, Routed
<1>2. ASSUME NEW s \in Statuses \ {200}, NEW cause \in Causes, Refuse(r, s, cause), Kept,
             \A p \in Promised : p[1] = asked[r].route /\ p[2] = cause => s = p[3]
      PROVE  TypeOK' /\ Local(r)'
  <2>1. run' \in {run, [run EXCEPT ![r] = [id |-> ctx[r].id, token |-> ctx[r].token,
                                           conversation |-> "none", thread |-> "none"]]}
    BY <1>1 DEF InContext
  <2>2. /\ stateId' \in {stateId, [stateId EXCEPT ![r] = ResolveRequestId(r)]}
        /\ stateId' = stateId /\ UNCHANGED <<asked, ctx, stores>>
    BY <1>2
  <2> HIDE DEF Kept
  <2> QED
    BY <1>1, <1>2, <2>1, <2>2, RefuseStep
<1>3. {0, 400, 401, 501, 503} \subseteq Statuses \ {200}
  BY DEF Statuses
<1>4. {"http", "other", "notimpl", "upsert"} \subseteq Causes
  BY DEF Causes, Exceptions
<1>5. CASE IngestKnowledge(r)
  <2>1. asked[r].route = "ingest" /\ UNCHANGED <<asked, stateId, ctx, rows, directory>>
    BY <1>5 DEF IngestKnowledge, Routed
  <2>2. CASE Refuse(r, 400, "http") /\ UNCHANGED index
    BY <1>2, <1>3, <1>4, <2>1, <2>2, Unpromised DEF stores
  <2>3. CASE Refuse(r, HandlerStatus("other"), "other") /\ UNCHANGED index
    <3>1. HandlerStatus("other") = 0
      BY DEF HandlerStatus
    <3> QED
      BY <1>2, <1>3, <1>4, <2>1, <2>3, <3>1, Unpromised DEF stores
  <2>4. CASE Refuse(r, 501, "notimpl") /\ UNCHANGED index
    BY <1>2, <1>3, <1>4, <2>1, <2>4, Unpromised DEF stores
  <2>5. CASE Refuse(r, 503, "upsert") /\ index' \in {index, index \cup {r}}
    <3>1. \A p \in Promised : p[1] = asked[r].route /\ p[2] = "upsert" => 503 = p[3]
      BY <2>1, Unpromised
    <3>2. run' = [run EXCEPT ![r] = [id |-> ctx[r].id, token |-> ctx[r].token,
                                     conversation |-> "none", thread |-> "none"]]
      BY <1>1 DEF InContext
    <3>3. stateId' = stateId /\ UNCHANGED <<asked, ctx, rows, directory>>
      BY <2>1
    <3>4. 503 \in Statuses \ {200} /\ "upsert" \in Causes /\ pc[r] = "bound"
      BY <1>1, <1>3, <1>4
    <3>5. Refuse(r, 503, "upsert") /\ (index' = index \/ index' = index \cup {r})
      BY <2>5
    <3>6. pc[r] \in {"bound", "working"} /\ pc[r] # "working"
      BY <3>4
    <3>7. run' \in {run, [run EXCEPT ![r] = [id |-> ctx[r].id, token |-> ctx[r].token,
                                            conversation |-> "none", thread |-> "none"]]}
      BY <3>2
    <3>8. stateId' \in {stateId, [stateId EXCEPT ![r] = ResolveRequestId(r)]}
      BY <3>3
    <3> HIDE DEF Kept
    <3> QED
      BY <3>1, <3>3, <3>4, <3>5, <3>6, <3>7, <3>8, RefusalStep
  <2>6. CASE Reply(r, Success(r, {}, FALSE)) /\ index' = index \cup {r}
    BY <1>1, <2>1, <2>6, ImmediateStep
  <2> QED
    BY <1>5, <2>2, <2>3, <2>4, <2>5, <2>6 DEF IngestKnowledge
<1>6. CASE DirectoryRegister(r)
  <2>1. asked[r].route = "register" /\ UNCHANGED <<asked, stateId, ctx, rows, index>>
    BY <1>6 DEF DirectoryRegister, Routed
  <2>2. CASE (Refuse(r, 400, "http") \/ Refuse(r, 401, "http")) /\ UNCHANGED directory
    BY <1>2, <1>3, <1>4, <2>1, <2>2, Unpromised DEF stores
  <2>3. CASE Refuse(r, 0, "other") /\ UNCHANGED directory
    BY <1>2, <1>3, <1>4, <2>1, <2>3, Unpromised DEF stores
  <2>4. CASE Reply(r, Success(r, {}, FALSE)) /\ directory' = directory \cup {r}
    BY <1>1, <2>1, <2>4, ImmediateStep
  <2> QED
    BY <1>6, <2>2, <2>3, <2>4 DEF DirectoryRegister, RefuseToken, HandlerStatus
<1>7. CASE DebugSqlAuth(r)
  <2>1. /\ asked[r].route = "debug" /\ Reply(r, Success(r, {}, FALSE))
        /\ UNCHANGED <<asked, stateId, ctx, stores>>
    BY <1>7 DEF DebugSqlAuth, Routed
  <2> QED
    BY <1>1, <2>1, ImmediateStep DEF stores
<1> QED
  BY <1>5, <1>6, <1>7

LEMMA WorkEndsStep ==
  ASSUME IInv, NEW r \in Requests,
         \/ AgentRaises(r) \/ ProjectionRaises(r)
         \/ FinishAnalyze(r) \/ FinishRecommend(r) \/ FinishOther(r)
  PROVE  TypeOK' /\ Local(r)'
<1>1. pc[r] = "working" /\ asked[r].route \in Threaded
  BY DEF AgentRaises, ProjectionRaises, FinishAnalyze, FinishRecommend, FinishOther, IInv,
     Local, PhaseInv
<1>2. ASSUME NEW e \in Exceptions, Refuse(r, StatusOf(asked[r].route, e), e),
             UNCHANGED <<asked, stateId, ctx, run, stores>>
      PROVE  TypeOK' /\ Local(r)'
  <2>1. StatusOf(asked[r].route, e) \in Statuses \ {200}
    BY StatusTyped DEF StatusOf, RouteStatus, AnalyzeStatus, RecommendStatus, InvokeStatus,
       ResumeStatus, HandlerStatus
  <2>2. \A p \in Promised : p[1] = asked[r].route /\ p[2] = e
                              => StatusOf(asked[r].route, e) = p[3]
    BY <1>1, PromisesKept
  <2>3. e \in Causes
    BY DEF Causes
  <2> QED
    BY <1>1, <1>2, <2>1, <2>2, <2>3, RefuseStep
<1>3. ASSUME NEW parts \in SUBSET Parts, Reply(r, Success(r, parts, FALSE)), UNCHANGED rows,
             UNCHANGED <<asked, stateId, ctx, run, index, directory>>
      PROVE  TypeOK' /\ Local(r)'
  BY <1>1, <1>3, SuccessStep
<1>4. ASSUME NEW parts \in SUBSET Parts, Reply(r, Success(r, parts, TRUE)),
             rows' = [rows EXCEPT ![r] = Row(r, parts)],
             UNCHANGED <<asked, stateId, ctx, run, index, directory>>
      PROVE  TypeOK' /\ Local(r)'
  BY <1>1, <1>4, SuccessStep
<1>0. ASSUME NEW parts \in SUBSET Parts, PersistRecommendation(r, parts),
             UNCHANGED <<asked, stateId, ctx, run, index, directory>>
      PROVE  TypeOK' /\ Local(r)'
  <2>1. CASE /\ rows' = [rows EXCEPT ![r] = Row(r, parts)]
             /\ Reply(r, Success(r, parts, TRUE))
    BY <1>0, <1>4, <2>1
  <2>2. CASE Reply(r, Success(r, parts, FALSE)) /\ UNCHANGED rows
    BY <1>0, <1>3, <2>2
  <2>3. CASE Reply(r, Unsaved(r, parts)) /\ UNCHANGED rows
    BY <1>0, <1>1, <2>3, SuccessStep
  <2>4. CASE Reply(r, Unsaved(r, parts)) /\ rows' = [rows EXCEPT ![r] = Row(r, parts)]
    BY <1>0, <1>1, <2>4, SuccessStep
  <2> QED
    BY <1>0, <2>1, <2>2, <2>3, <2>4 DEF PersistRecommendation
<1>5. CASE AgentRaises(r)
  <2>1. \A e \in Raised[asked[r].route] : e \in Exceptions
    BY <1>1 DEF Raised, Exceptions, Threaded, Products
  <2> QED
    BY <1>2, <1>5, <2>1 DEF AgentRaises
<1>6. CASE ProjectionRaises(r)
  <2>1. CASE Refuse(r, StatusOf(asked[r].route, "value"), "value")
    BY <1>2, <1>6, <2>1 DEF ProjectionRaises, Exceptions
  <2>2. CASE Refuse(r, 0, "other")
    BY <1>1, <1>6, <2>2, RefuseStep, Unpromised
       DEF ProjectionRaises, Statuses, Causes, Exceptions
  <2> QED
    BY <1>6, <2>1, <2>2 DEF ProjectionRaises, HandlerStatus
<1>7. CASE FinishAnalyze(r)
  BY <1>0, <1>3, <1>7, PartsTyped DEF FinishAnalyze
<1>8. CASE FinishRecommend(r)
  BY <1>0, <1>3, <1>8, PartsTyped DEF FinishRecommend
<1>9. CASE FinishOther(r)
  BY <1>3, <1>9 DEF FinishOther, Parts, stores
<1> QED
  BY <1>5, <1>6, <1>7, <1>8, <1>9
-------------------------------------------------------------------------------
(* The invariant and what it gives. *)

LEMMA InvStep == IInv /\ [Next]_vars => IInv'
<1> SUFFICES ASSUME IInv, [Next]_vars PROVE IInv'
  OBVIOUS
<1>1. ASSUME NEW r \in Requests, Step(r) PROVE IInv'
  <2>1. TypeOK' /\ Local(r)'
    BY <1>1, WayInStep, EnterStep, ImmediateRoutesStep, WorkEndsStep, LeaveStep DEF Step
  <2>2. ASSUME NEW q \in Requests PROVE Local(q)'
    <3>1. CASE q = r
      BY <2>1, <3>1
    <3>2. CASE q # r
      BY <1>1, <3>2, OthersUntouched, UntouchedKeepsLocal DEF IInv
    <3> QED
      BY <3>1, <3>2
  <2> QED
    BY <2>1, <2>2 DEF IInv
<1>2. CASE UNCHANGED vars
  <2>1. TypeOK'
    BY <1>2 DEF IInv, TypeOK, vars, stores
  <2>2. ASSUME NEW q \in Requests PROVE Local(q)'
    BY <1>2, UntouchedKeepsLocal DEF IInv, Untouched, vars, stores
  <2> QED
    BY <2>1, <2>2 DEF IInv
<1>3. Next => \E r \in Requests : Step(r)
  BY DEF Next, Step
<1> QED
  BY <1>1, <1>2, <1>3

LEMMA InvHolds == Spec => []IInv
BY InitLocal, InvStep, PTL DEF Spec

\* Every reachable state is well typed.
THEOREM RequestsTypeCorrect == Spec => []TypeOK
<1>1. IInv => TypeOK
  BY DEF IInv
<1> QED
  BY <1>1, InvHolds, PTL

\* middleware.py:50-56, routes.py:197-212: however requests overlap, each runs as its
\* own caller and under its own id.
THEOREM EveryRunIsItsCallers == Spec => []RunsAsAsked
<1>1. IInv => RunsAsAsked
  BY DEF IInv, Local, RunInv, RunsAsAsked
<1> QED
  BY <1>1, InvHolds, PTL

\* middleware.py:77-88: the echoed id is the run's and the row's.
THEOREM OneIdPerRequest == Spec => []OneCorrelationId
<1>1. ASSUME IInv, NEW r \in Requests, asked[r].header # "blank", answer[r].echo # NoId
      PROVE  /\ run[r].id \in {NoId, answer[r].echo}
             /\ rows[r] # NoRow => rows[r].id = answer[r].echo
  <2>1. Local(r) /\ rows[r] \in Rows \cup {NoRow}
    BY <1>1 DEF IInv, TypeOK
  <2>2. rows[r] # NoRow => rows[r].id \in Ids
    BY <2>1 DEF Rows
  <2> QED
    BY <1>1, <2>1, <2>2, RequestSentinels DEF Local, RunInv, ResultInv
<1>2. IInv => OneCorrelationId
  BY <1>1 DEF OneCorrelationId
<1> QED
  BY <1>2, InvHolds, PTL

\* routes.py:700-702, main.py:311-391: documented exceptions end in documented answers.
THEOREM PromisedAnswersGiven == Spec => []DocumentedAnswers
<1>1. ASSUME IInv, NEW r \in Requests, pc[r] = "closed"
      PROVE  /\ \A p \in Promised :
                    p[1] = asked[r].route /\ p[2] = answer[r].cause =>
                        answer[r].status = p[3] /\ answer[r].echo # NoId
             /\ answer[r].echo = NoId =>
                    /\ answer[r].status = 500
                    /\ \A p \in Promised : <<p[1], p[2]>> # <<asked[r].route, answer[r].cause>>
  BY <1>1 DEF IInv, Local, PromiseInv, Named
<1>2. IInv => DocumentedAnswers
  BY <1>1 DEF DocumentedAnswers
<1> QED
  BY <1>2, InvHolds, PTL

\* routes.py:899-1060, 585-644: a client is told what was done.
THEOREM ClientsAreToldTheTruth == Spec => []ToldWhatWasDone
<1>1. IInv => ToldWhatWasDone
  BY DEF IInv, Local, ResultInv, ToldInv, ToldWhatWasDone
<1> QED
  BY <1>1, InvHolds, PTL

\* routes.py:807-812, 839-896: the stored row is the answer.
THEOREM RowsMatchAnswers == Spec => []RowMatchesAnswer
<1>1. IInv => RowMatchesAnswer
  BY DEF IInv, Local, ResultInv, RowMatchesAnswer
<1> QED
  BY <1>1, InvHolds, PTL

\* routes.py:730-732, 346-356: the conversation answered is the thread that was used.
THEOREM ConversationsContinue == Spec => []ConversationContinued
<1>1. IInv => ConversationContinued
  BY DEF IInv, Local, ResultInv, ConversationContinued
<1> QED
  BY <1>1, InvHolds, PTL
-------------------------------------------------------------------------------
(* As if alone: what a request does is what it could do by itself.  The       *)
(* instance Alone(s) looks at request s's part of every variable.             *)

LEMMA AtValue == ASSUME NEW f, NEW s PROVE At(f, s)[s] = f[s]
BY DEF At

LEMMA PartsUnchanged ==
  ASSUME NEW s
  PROVE  /\ UNCHANGED asked => UNCHANGED At(asked, s)
         /\ UNCHANGED stateId => UNCHANGED At(stateId, s)
         /\ UNCHANGED ctx => UNCHANGED At(ctx, s)
         /\ UNCHANGED run => UNCHANGED At(run, s)
         /\ UNCHANGED answer => UNCHANGED At(answer, s)
         /\ UNCHANGED rows => UNCHANGED At(rows, s)
         /\ UNCHANGED index => UNCHANGED (index \cap {s})
         /\ UNCHANGED directory => UNCHANGED (directory \cap {s})
BY DEF At

LEMMA AloneStatus ==
  ASSUME NEW s, NEW route, NEW e
  PROVE  /\ Alone(s)!StatusOf(route, e) = StatusOf(route, e)
         /\ Alone(s)!HandlerStatus(e) = HandlerStatus(e)
<1>1. Alone(s)!HandlerStatus(e) = HandlerStatus(e)
  BY DEF Alone!HandlerStatus, HandlerStatus
<1>2. /\ Alone(s)!AnalyzeStatus(e) = AnalyzeStatus(e)
      /\ Alone(s)!RecommendStatus(e) = RecommendStatus(e)
  BY DEF Alone!AnalyzeStatus, AnalyzeStatus, Alone!RecommendStatus, RecommendStatus
<1>3. Alone(s)!InvokeStatus(e) = InvokeStatus(e) /\ Alone(s)!ResumeStatus(e) = ResumeStatus(e)
  BY DEF Alone!InvokeStatus, InvokeStatus, Alone!ResumeStatus, ResumeStatus
<1>4. Alone(s)!RouteStatus(route, e) = RouteStatus(route, e)
  BY <1>2, <1>3 DEF Alone!RouteStatus, RouteStatus
<1> QED
  BY <1>1, <1>4 DEF Alone!StatusOf, StatusOf

LEMMA AloneReply ==
  ASSUME TypeOK, NEW s \in Requests, NEW a, Reply(s, a)
  PROVE  Alone(s)!Reply(s, a)
BY DEF Alone!Reply, Reply, At, TypeOK

LEMMA AloneRefuse ==
  ASSUME TypeOK, NEW s \in Requests, NEW status, NEW cause, Refuse(s, status, cause)
  PROVE  Alone(s)!Refuse(s, status, cause)
BY AloneReply DEF Alone!Refuse, Refuse, Alone!NoAnswer, NoAnswer

LEMMA AloneSuccess ==
  ASSUME TypeOK, NEW s \in Requests, NEW parts, NEW row, Reply(s, Success(s, parts, row))
  PROVE  Alone(s)!Reply(s, Alone(s)!Success(s, parts, row))
<1>1. Alone(s)!Success(s, parts, row) = Success(s, parts, row)
  BY AtValue
     DEF Alone!Success, Success, Alone!AnsweredConversation, AnsweredConversation
<1> QED
  BY <1>1, AloneReply

LEMMA AloneId ==
  ASSUME NEW s
  PROVE  Alone(s)!ResolveRequestId(s) = ResolveRequestId(s)
BY AtValue DEF Alone!ResolveRequestId, ResolveRequestId

LEMMA AloneInvoke ==
  ASSUME TypeOK, NEW s \in Requests, NEW c, NEW t, InvokeAgentInThread(s, c, t)
  PROVE  Alone(s)!InvokeAgentInThread(s, c, t)
BY AloneId, AtValue DEF Alone!InvokeAgentInThread, InvokeAgentInThread, At, TypeOK

LEMMA AloneInContext ==
  ASSUME TypeOK, NEW s \in Requests, InContext(s)
  PROVE  Alone(s)!InContext(s)
BY DEF Alone!InContext, InContext, At, TypeOK

LEMMA AlonePersist ==
  ASSUME TypeOK, NEW s \in Requests, NEW parts, PersistRecommendation(s, parts)
  PROVE  Alone(s)!PersistRecommendation(s, parts)
<1>1. Alone(s)!Row(s, parts) = Row(s, parts)
  BY AtValue DEF Alone!Row, Row, Alone!ProductAgent, ProductAgent, Alone!Stored, Stored
<1>2. rows' = [rows EXCEPT ![s] = Row(s, parts)] =>
        At(rows, s)' = [At(rows, s) EXCEPT ![s] = Row(s, parts)]
  BY DEF At, TypeOK
<1>3. Alone(s)!Unsaved(s, parts) = Unsaved(s, parts)
  BY AtValue
     DEF Alone!Unsaved, Unsaved, Alone!Success, Success, Alone!AnsweredConversation,
         AnsweredConversation
<1>4. CASE /\ rows' = [rows EXCEPT ![s] = Row(s, parts)]
           /\ Reply(s, Success(s, parts, TRUE))
  BY <1>1, <1>2, <1>4, AloneSuccess DEF Alone!PersistRecommendation
<1>5. CASE Reply(s, Success(s, parts, FALSE)) /\ UNCHANGED rows
  BY <1>5, AloneSuccess, PartsUnchanged DEF Alone!PersistRecommendation
<1>6. CASE /\ rows' \in {rows, [rows EXCEPT ![s] = Row(s, parts)]}
           /\ Reply(s, Unsaved(s, parts))
  <2>1. Alone(s)!Reply(s, Alone(s)!Unsaved(s, parts))
    BY <1>3, <1>6, AloneReply
  <2>2. At(rows, s)' \in {At(rows, s), [At(rows, s) EXCEPT ![s] = Alone(s)!Row(s, parts)]}
    BY <1>1, <1>2, <1>6, PartsUnchanged
  <2> QED
    BY <2>1, <2>2 DEF Alone!PersistRecommendation
<1> QED
  BY <1>4, <1>5, <1>6 DEF PersistRecommendation

LEMMA AloneToken ==
  ASSUME TypeOK, NEW s \in Requests, NEW required, NEW provided
  PROVE  /\ Alone(s)!Provided = Provided
         /\ Alone(s)!Admitted(required, provided) = Admitted(required, provided)
         /\ RefuseToken(s, provided) => Alone(s)!RefuseToken(s, provided)
<1>1. Alone(s)!Provided = Provided
  BY DEF Alone!Provided, Provided, Alone!TokenHeaders, TokenHeaders
<1>2. Alone(s)!Admitted(required, provided) = Admitted(required, provided)
  BY DEF Alone!Admitted, Admitted
<1>3. RefuseToken(s, provided) => Alone(s)!RefuseToken(s, provided)
  BY AloneRefuse, AloneStatus DEF RefuseToken, Alone!RefuseToken
<1> QED
  BY <1>1, <1>2, <1>3

LEMMA AloneRouted ==
  ASSUME NEW s, NEW route, Routed(s, route)
  PROVE  Alone(s)!Routed(s, route)
BY AtValue DEF Routed, Alone!Routed

LEMMA AloneOnTheWay ==
  ASSUME TypeOK, NEW s \in Requests,
         Receive(s) \/ BindRequestId(s) \/ BindToken(s) \/ Leave(s)
  PROVE  Alone(s)!Next
<1> USE DEF TypeOK
<1>1. CASE Receive(s)
  <2>1. PICK route \in Routes, header \in Headers, token \in TokenArgs :
            asked' = [asked EXCEPT ![s] = [route |-> route, header |-> header,
                                           token |-> token]]
    BY <1>1 DEF Receive
  <2>2. At(asked, s)' = [At(asked, s) EXCEPT ![s] = [route |-> route, header |-> header,
                                                     token |-> token]]
    BY <2>1 DEF At
  <2>3. \E rt \in Alone(s)!Routes, hd \in Alone(s)!Headers, tk \in Alone(s)!TokenArgs :
            At(asked, s)' = [At(asked, s) EXCEPT ![s] = [route |-> rt, header |-> hd,
                                                         token |-> tk]]
    BY <2>2 DEF Alone!Routes, Routes, Alone!Headers, Headers, Alone!TokenArgs, TokenArgs,
                Alone!Threaded, Threaded, Alone!Products, Products
  <2>4. At(pc, s)[s] = "idle" /\ At(pc, s)' = [At(pc, s) EXCEPT ![s] = "received"]
    BY <1>1 DEF Receive, At
  <2>5. Alone(s)!Receive(s)
    BY <1>1, <2>3, <2>4, PartsUnchanged DEF Alone!Receive, Alone!stores, Receive, stores
  <2> QED
    BY <2>5 DEF Alone!Next
<1>2. CASE BindRequestId(s)
  <2>1. Alone(s)!MiddlewareId(s) = MiddlewareId(s)
    BY AtValue DEF Alone!MiddlewareId, MiddlewareId
  <2>2. Alone(s)!BindRequestId(s)
    BY <1>2, <2>1 DEF Alone!BindRequestId, Alone!stores, BindRequestId, At, stores,
                      SetRequestId, Alone!SetRequestId
  <2> QED
    BY <2>2 DEF Alone!Next
<1>3. CASE BindToken(s)
  <2>1. Alone(s)!BindToken(s)
    BY <1>3 DEF Alone!BindToken, Alone!stores, BindToken, At, stores
  <2> QED
    BY <2>1 DEF Alone!Next
<1>4. CASE Leave(s)
  <2>1. At(pc, s)[s] = "answered" /\ At(pc, s)' = [At(pc, s) EXCEPT ![s] = "closed"]
    BY <1>4 DEF Leave, At
  <2>2. At(ctx, s)' = [At(ctx, s) EXCEPT ![s] = Alone(s)!Unbound]
    BY <1>4 DEF Leave, At, Unbound, Alone!Unbound
  <2>3. CASE answer[s].status = 0
    <3>1. At(answer, s)' = [At(answer, s) EXCEPT ![s].status = 500]
      BY <1>4, <2>3 DEF Leave, At
    <3>2. Alone(s)!Leave(s)
      BY <1>4, <2>1, <2>2, <2>3, <3>1, AtValue, PartsUnchanged
         DEF Alone!Leave, Alone!stores, Leave, stores
    <3> QED
      BY <3>2 DEF Alone!Next
  <2>4. CASE answer[s].status # 0
    <3>1. At(answer, s)' = [At(answer, s) EXCEPT ![s].echo = At(ctx, s)[s].id]
      BY <1>4, <2>4 DEF Leave, At
    <3>2. Alone(s)!Leave(s)
      BY <1>4, <2>1, <2>2, <2>4, <3>1, AtValue, PartsUnchanged
         DEF Alone!Leave, Alone!stores, Leave, stores
    <3> QED
      BY <3>2 DEF Alone!Next
  <2> QED
    BY <2>3, <2>4
<1> QED
  BY <1>1, <1>2, <1>3, <1>4

LEMMA AloneEnterProduct ==
  ASSUME TypeOK, NEW s \in Requests, EnterProduct(s)
  PROVE  Alone(s)!EnterProduct(s)
<1>1. \E route \in Alone(s)!Products : Alone(s)!Routed(s, route)
  BY AloneRouted DEF EnterProduct, Products, Alone!Products
<1>2. At(stateId, s)' = [At(stateId, s) EXCEPT ![s] = Alone(s)!ResolveRequestId(s)]
  BY AloneId DEF EnterProduct, At, TypeOK
<1>3. UNCHANGED <<At(asked, s), At(ctx, s), At(rows, s), index \cap {s}, directory \cap {s}>>
  BY PartsUnchanged DEF EnterProduct, stores
<1>4. /\ At(asked, s)[s] = asked[s]
      /\ Alone(s)!ProductAgent(At(asked, s)[s].route) = ProductAgent(asked[s].route)
  BY AtValue DEF Alone!ProductAgent, ProductAgent
<1>5. PICK named \in BOOLEAN :
        IF ProductAgent(asked[s].route) \in Remembering
        THEN LET c == IF named THEN "named" ELSE "minted"
             IN  InvokeAgentInThread(s, c, c)
        ELSE IF named
             THEN Refuse(s, StatusOf(asked[s].route, "memory"), "memory") /\ UNCHANGED run
             ELSE InvokeAgentInThread(s, "none", "none")
  BY DEF EnterProduct
<1>6. IF Alone(s)!ProductAgent(At(asked, s)[s].route) \in Remembering
      THEN LET c == IF named THEN "named" ELSE "minted"
           IN  Alone(s)!InvokeAgentInThread(s, c, c)
      ELSE IF named
           THEN /\ Alone(s)!Refuse(s, Alone(s)!StatusOf(At(asked, s)[s].route, "memory"),
                                   "memory")
                /\ UNCHANGED At(run, s)
           ELSE Alone(s)!InvokeAgentInThread(s, "none", "none")
  BY <1>4, <1>5, AloneInvoke, AloneRefuse, AloneStatus, PartsUnchanged
<1> QED
  BY <1>1, <1>2, <1>3, <1>6 DEF Alone!EnterProduct, Alone!stores

LEMMA AloneEnterInvoke ==
  ASSUME TypeOK, NEW s \in Requests, EnterInvoke(s)
  PROVE  Alone(s)!EnterInvoke(s)
<1>1. Alone(s)!Routed(s, "invoke")
  BY AloneRouted DEF EnterInvoke
<1>2. UNCHANGED <<At(asked, s), At(ctx, s), At(rows, s), index \cap {s}, directory \cap {s}>>
  BY PartsUnchanged DEF EnterInvoke, stores
<1>3. stateId' = [stateId EXCEPT ![s] = ResolveRequestId(s)] =>
        At(stateId, s)' = [At(stateId, s) EXCEPT ![s] = Alone(s)!ResolveRequestId(s)]
  BY AloneId DEF At, TypeOK
<1>4. PICK required \in BOOLEAN, provided \in Provided :
        IF ~Admitted(required, provided)
        THEN RefuseToken(s, provided) /\ UNCHANGED <<stateId, run>>
        ELSE /\ stateId' = [stateId EXCEPT ![s] = ResolveRequestId(s)]
             /\ \/ \E st \in {400, 404} : Refuse(s, st, "http") /\ UNCHANGED run
                \/ \E agent \in Agents, named \in BOOLEAN :
                    LET c == ConversationOf(named)
                    IN  InvokeAgentInThread(s, c, IF agent \in Remembering THEN c ELSE "none")
  BY DEF EnterInvoke
<1>5. /\ Alone(s)!Provided = Provided
      /\ Alone(s)!Admitted(required, provided) = Admitted(required, provided)
      /\ Alone(s)!Agents = Agents
      /\ \A named \in BOOLEAN : Alone(s)!ConversationOf(named) = ConversationOf(named)
  BY AloneToken DEF Alone!Agents, Agents, Alone!ConversationOf, ConversationOf
<1>6. CASE ~Admitted(required, provided)
  <2>1. Alone(s)!RefuseToken(s, provided) /\ UNCHANGED <<At(stateId, s), At(run, s)>>
    BY <1>4, <1>6, AloneToken, PartsUnchanged
  <2> QED
    BY <1>1, <1>2, <1>5, <1>6, <2>1 DEF Alone!EnterInvoke, Alone!stores
<1>7. CASE Admitted(required, provided)
  <2>1. \/ \E st \in {400, 404} : Alone(s)!Refuse(s, st, "http") /\ UNCHANGED At(run, s)
        \/ \E agent \in Agents, named \in BOOLEAN :
            Alone(s)!InvokeAgentInThread(s, ConversationOf(named),
                IF agent \in Remembering THEN ConversationOf(named) ELSE "none")
    <3>1. CASE \E st \in {400, 404} : Refuse(s, st, "http") /\ UNCHANGED run
      BY <3>1, AloneRefuse, PartsUnchanged
    <3>2. CASE \E agent \in Agents, named \in BOOLEAN :
                InvokeAgentInThread(s, ConversationOf(named),
                    IF agent \in Remembering THEN ConversationOf(named) ELSE "none")
      BY <3>2, AloneInvoke
    <3> QED
      BY <1>4, <1>7, <3>1, <3>2
  <2>2. At(stateId, s)' = [At(stateId, s) EXCEPT ![s] = Alone(s)!ResolveRequestId(s)]
    BY <1>3, <1>4, <1>7
  <2> QED
    <3>1. CASE \E st \in {400, 404} : Alone(s)!Refuse(s, st, "http") /\ UNCHANGED At(run, s)
      BY <1>1, <1>2, <1>5, <1>7, <2>2, <3>1 DEF Alone!EnterInvoke, Alone!stores
    <3>2. CASE \E agent \in Agents, named \in BOOLEAN :
                Alone(s)!InvokeAgentInThread(s, ConversationOf(named),
                    IF agent \in Remembering THEN ConversationOf(named) ELSE "none")
      <4>1. \E agent \in Alone(s)!Agents, named \in BOOLEAN :
                LET c == Alone(s)!ConversationOf(named)
                IN  Alone(s)!InvokeAgentInThread(s, c,
                        IF agent \in Remembering THEN c ELSE "none")
        BY <1>5, <3>2
      <4> QED
        BY <1>1, <1>2, <1>5, <1>7, <2>2, <4>1 DEF Alone!EnterInvoke, Alone!stores
    <3> QED
      BY <2>1, <3>1, <3>2
<1> QED
  BY <1>6, <1>7

LEMMA AloneSessions ==
  ASSUME TypeOK, NEW s \in Requests
  PROVE  /\ EnterStart(s) => Alone(s)!EnterStart(s)
         /\ EnterResume(s) => Alone(s)!EnterResume(s)
<1>1. ASSUME EnterStart(s)
      PROVE  Alone(s)!EnterStart(s)
  BY <1>1, AloneRouted, AloneRefuse, AloneInvoke, PartsUnchanged
     DEF EnterStart, Alone!EnterStart, stores, Alone!stores
<1>2. ASSUME EnterResume(s)
      PROVE  Alone(s)!EnterResume(s)
  BY <1>2, AloneRouted, AloneRefuse, AloneInvoke, PartsUnchanged
     DEF EnterResume, Alone!EnterResume, stores, Alone!stores
<1> QED
  BY <1>1, <1>2

LEMMA AloneIngest ==
  ASSUME TypeOK, NEW s \in Requests, IngestKnowledge(s)
  PROVE  Alone(s)!IngestKnowledge(s)
<1>1. Alone(s)!Routed(s, "ingest") /\ Alone(s)!InContext(s)
  BY AloneRouted, AloneInContext DEF IngestKnowledge
<1>2. UNCHANGED <<At(asked, s), At(stateId, s), At(ctx, s), At(rows, s), directory \cap {s}>>
  BY PartsUnchanged DEF IngestKnowledge
<1>3. PICK accepted \in BOOLEAN, text \in BOOLEAN :
        IF ~accepted \/ ~text
        THEN Refuse(s, 400, "http") /\ UNCHANGED index
        ELSE \/ Refuse(s, HandlerStatus("other"), "other") /\ UNCHANGED index
             \/ Refuse(s, 501, "notimpl") /\ UNCHANGED index
             \/ Refuse(s, 503, "upsert") /\ index' \in {index, index \cup {s}}
             \/ Reply(s, Success(s, {}, FALSE)) /\ index' = index \cup {s}
  BY DEF IngestKnowledge
<1>4. CASE ~accepted \/ ~text
  <2>1. Alone(s)!Refuse(s, 400, "http")
    BY <1>3, <1>4, AloneRefuse
  <2>2. UNCHANGED (index \cap {s})
    BY <1>3, <1>4
  <2> QED
    BY <1>1, <1>2, <1>4, <2>1, <2>2 DEF Alone!IngestKnowledge
<1>5. CASE accepted /\ text /\ UNCHANGED index
  <2>1. Alone(s)!HandlerStatus("other") = HandlerStatus("other")
    BY DEF Alone!HandlerStatus, HandlerStatus
  <2>2. CASE Refuse(s, HandlerStatus("other"), "other")
    <3>1. Alone(s)!Refuse(s, Alone(s)!HandlerStatus("other"), "other")
      BY <2>1, <2>2, AloneRefuse
    <3>2. UNCHANGED (index \cap {s})
      BY <1>5
    <3> QED
      BY <1>1, <1>2, <1>5, <3>1, <3>2 DEF Alone!IngestKnowledge
  <2>3. CASE \/ Refuse(s, 501, "notimpl")
             \/ Refuse(s, 503, "upsert")
    <3>1. Alone(s)!Refuse(s, 501, "notimpl") \/ Alone(s)!Refuse(s, 503, "upsert")
      BY <2>3, AloneRefuse
    <3>2. UNCHANGED (index \cap {s})
      BY <1>5
    <3> QED
      BY <1>1, <1>2, <1>5, <3>1, <3>2 DEF Alone!IngestKnowledge
  <2>4. CASE Reply(s, Success(s, {}, FALSE)) /\ index' = index \cup {s}
    <3>1. Alone(s)!Reply(s, Alone(s)!Success(s, {}, FALSE))
      BY <2>4, AloneSuccess
    <3>2. (index \cap {s})' = (index \cap {s}) \cup {s}
      BY <2>4
    <3> QED
      BY <1>1, <1>2, <1>5, <3>1, <3>2 DEF Alone!IngestKnowledge
  <2> QED
    BY <1>3, <1>5, <2>2, <2>3, <2>4
<1>7. CASE accepted /\ text /\ Refuse(s, 503, "upsert") /\ index' = index \cup {s}
  <2>1. Alone(s)!Refuse(s, 503, "upsert")
    BY <1>7, AloneRefuse
  <2>2. (index \cap {s})' = (index \cap {s}) \cup {s}
    BY <1>7
  <2> QED
    BY <1>1, <1>2, <1>7, <2>1, <2>2 DEF Alone!IngestKnowledge
<1>6. CASE accepted /\ text /\ Reply(s, Success(s, {}, FALSE)) /\ index' = index \cup {s}
  <2>1. Alone(s)!Reply(s, Alone(s)!Success(s, {}, FALSE))
    BY <1>6, AloneSuccess
  <2>2. (index \cap {s})' = (index \cap {s}) \cup {s}
    BY <1>6
  <2> QED
    BY <1>1, <1>2, <1>6, <2>1, <2>2 DEF Alone!IngestKnowledge
<1> QED
  BY <1>3, <1>4, <1>5, <1>6, <1>7

LEMMA AloneRegister ==
  ASSUME TypeOK, NEW s \in Requests, DirectoryRegister(s)
  PROVE  Alone(s)!DirectoryRegister(s)
<1> DEFINE Ends(required, provided) ==
        IF ~Admitted(required, provided)
        THEN Alone(s)!RefuseToken(s, provided) /\ UNCHANGED (directory \cap {s})
        ELSE \/ Alone(s)!Refuse(s, 400, "http") /\ UNCHANGED (directory \cap {s})
             \/ /\ Alone(s)!Reply(s, Alone(s)!Success(s, {}, FALSE))
                /\ (directory \cap {s})' = (directory \cap {s}) \cup {s}
<1>1. Alone(s)!Routed(s, "register") /\ Alone(s)!InContext(s)
  BY AloneRouted, AloneInContext DEF DirectoryRegister
<1>2. UNCHANGED <<At(asked, s), At(stateId, s), At(ctx, s), At(rows, s), index \cap {s}>>
  BY PartsUnchanged DEF DirectoryRegister
<1>3. PICK required \in BOOLEAN, provided \in Provided :
        IF ~Admitted(required, provided)
        THEN RefuseToken(s, provided) /\ UNCHANGED directory
        ELSE \/ Refuse(s, 400, "http") /\ UNCHANGED directory
             \/ Reply(s, Success(s, {}, FALSE)) /\ directory' = directory \cup {s}
  BY DEF DirectoryRegister
<1>4. Ends(required, provided)
  <2>1. UNCHANGED directory => UNCHANGED (directory \cap {s})
    OBVIOUS
  <2>2. directory' = directory \cup {s} =>
            (directory \cap {s})' = (directory \cap {s}) \cup {s}
    OBVIOUS
  <2>3. CASE ~Admitted(required, provided)
    BY <1>3, <2>1, <2>3, AloneToken
  <2>4. CASE /\ Admitted(required, provided)
             /\ Refuse(s, 400, "http") /\ UNCHANGED directory
    BY <2>1, <2>4, AloneRefuse
  <2>5. CASE /\ Admitted(required, provided)
             /\ Reply(s, Success(s, {}, FALSE)) /\ directory' = directory \cup {s}
    BY <2>2, <2>5, AloneSuccess
  <2> QED
    BY <1>3, <2>3, <2>4, <2>5
<1>5. \E rq \in BOOLEAN, pr \in Provided : Ends(rq, pr)
  <2> HIDE DEF Ends
  <2> QED
    BY <1>4
<1> QED
  BY <1>1, <1>2, <1>5, AloneToken DEF Alone!DirectoryRegister

LEMMA AloneDebug ==
  ASSUME TypeOK, NEW s \in Requests, DebugSqlAuth(s)
  PROVE  Alone(s)!DebugSqlAuth(s)
BY AloneRouted, AloneInContext, AloneSuccess, PartsUnchanged
   DEF DebugSqlAuth, Alone!DebugSqlAuth, stores, Alone!stores

LEMMA AloneWorkEnds ==
  ASSUME TypeOK, NEW s \in Requests
  PROVE  /\ AgentRaises(s) => Alone(s)!AgentRaises(s)
         /\ ProjectionRaises(s) => Alone(s)!ProjectionRaises(s)
         /\ FinishAnalyze(s) => Alone(s)!FinishAnalyze(s)
         /\ FinishRecommend(s) => Alone(s)!FinishRecommend(s)
         /\ FinishOther(s) => Alone(s)!FinishOther(s)
<1>1. At(pc, s)[s] = pc[s] /\ At(asked, s)[s] = asked[s]
  BY AtValue
<1>2. Alone(s)!Raised = Raised /\ Alone(s)!Products = Products
  BY DEF Alone!Raised, Raised, Alone!Products, Products
<1>3. \A b, c : /\ Alone(s)!RcaParts(b) = RcaParts(b)
                /\ Alone(s)!TuningParts(b) = TuningParts(b)
                /\ Alone(s)!AttachTuningQuality(Alone(s)!TuningParts(b), c)
                        = AttachTuningQuality(TuningParts(b), c)
  BY DEF Alone!RcaParts, RcaParts, Alone!TuningParts, TuningParts, Alone!AttachTuningQuality,
         AttachTuningQuality, Alone!Quality, Quality
<1>4. ASSUME AgentRaises(s)
      PROVE  Alone(s)!AgentRaises(s)
  BY <1>1, <1>2, <1>4, AloneRefuse, AloneStatus, PartsUnchanged
     DEF AgentRaises, Alone!AgentRaises, stores, Alone!stores
<1>5. ASSUME ProjectionRaises(s)
      PROVE  Alone(s)!ProjectionRaises(s)
  BY <1>1, <1>2, <1>5, AloneRefuse, AloneStatus, PartsUnchanged
     DEF ProjectionRaises, Alone!ProjectionRaises, stores, Alone!stores
<1>6. ASSUME FinishAnalyze(s)
      PROVE  Alone(s)!FinishAnalyze(s)
  BY <1>1, <1>3, <1>6, AlonePersist, AloneSuccess, PartsUnchanged
     DEF FinishAnalyze, Alone!FinishAnalyze
<1>7. ASSUME FinishRecommend(s)
      PROVE  Alone(s)!FinishRecommend(s)
  <2> DEFINE parts(b, c) == AttachTuningQuality(TuningParts(b), c)
  <2>1. PICK reported \in BOOLEAN, evaluated \in BOOLEAN, finished \in BOOLEAN :
            IF finished
            THEN PersistRecommendation(s, parts(reported, evaluated))
            ELSE /\ Reply(s, Success(s, parts(reported, evaluated), FALSE))
                 /\ UNCHANGED rows
    BY <1>7 DEF FinishRecommend
  <2>2. IF finished
        THEN Alone(s)!PersistRecommendation(s, parts(reported, evaluated))
        ELSE /\ Alone(s)!Reply(s, Alone(s)!Success(s, parts(reported, evaluated), FALSE))
             /\ UNCHANGED At(rows, s)
    <3> HIDE DEF parts
    <3> QED
      BY <2>1, AlonePersist, AloneSuccess, PartsUnchanged
  <2>3. /\ At(pc, s)[s] = "working" /\ At(asked, s)[s].route = "recommend"
        /\ UNCHANGED <<At(asked, s), At(stateId, s), At(ctx, s), At(run, s),
                       index \cap {s}, directory \cap {s}>>
    BY <1>1, <1>7, PartsUnchanged DEF FinishRecommend
  <2> QED
    BY <1>3, <2>2, <2>3 DEF Alone!FinishRecommend
<1>8. ASSUME FinishOther(s)
      PROVE  Alone(s)!FinishOther(s)
  BY <1>1, <1>2, <1>8, AloneSuccess, PartsUnchanged
     DEF FinishOther, Alone!FinishOther, stores, Alone!stores
<1> QED
  BY <1>4, <1>5, <1>6, <1>7, <1>8

\* A step of request s is one that s could take alone.
LEMMA AloneStep ==
  ASSUME TypeOK, NEW s \in Requests, Step(s)
  PROVE  Alone(s)!Next
BY AloneOnTheWay, AloneEnterProduct, AloneEnterInvoke, AloneSessions, AloneIngest,
   AloneRegister, AloneDebug, AloneWorkEnds DEF Step, Alone!Next

\* A step that touches nothing of request s is no step to it.
LEMMA AloneStutters ==
  ASSUME NEW s, Untouched(s)
  PROVE  UNCHANGED Alone(s)!vars
BY DEF Untouched, At, Alone!vars, Alone!stores

LEMMA AloneInit ==
  ASSUME Init, NEW s \in Requests
  PROVE  Alone(s)!Init
BY DEF Init, Alone!Init, At, Alone!NoRun, NoRun, Alone!Unbound, Unbound, Alone!NoAnswer,
       NoAnswer

\* However requests overlap, each goes through the middlewares, its route, its thread,
\* the handlers and the stores as though it were the only one in the application
\* (middleware.py:46-88, routes.py:197-212).
THEOREM EveryRequestAsIfAlone == Spec => AsIfAlone
<1> DEFINE Each == \A s \in Requests : UNCHANGED Alone(s)!vars \/ Alone(s)!Next
<1>1. Init => \A s \in Requests : Alone(s)!Init
  BY AloneInit
<1>2. IInv /\ [Next]_vars => [Each]_vars
  <2> SUFFICES ASSUME IInv, Next, NEW s \in Requests
               PROVE  UNCHANGED Alone(s)!vars \/ Alone(s)!Next
    OBVIOUS
  <2>1. PICK r \in Requests : Step(r)
    BY DEF Next, Step
  <2>2. CASE r = s
    BY <2>1, <2>2, AloneStep DEF IInv
  <2>3. CASE r # s
    BY <2>1, <2>3, OthersUntouched, AloneStutters DEF IInv
  <2> QED
    BY <2>2, <2>3
<1>3. Spec => (\A s \in Requests : Alone(s)!Init) /\ [][Each]_vars
  <2> HIDE DEF Each
  <2> QED
    BY <1>1, <1>2, InvHolds, PTL DEF Spec
<1> QED
  BY <1>3 DEF AsIfAlone
===============================================================================
