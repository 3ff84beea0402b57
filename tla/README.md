# Verification of edim-dde-api

TLA+ models of the parts of `edim_dde_api` (under `src/src/edim_dde_api/`) where requests,
threads, store calls and process ends interleave; TLC configurations that check
them on small instances; and theorems, proved with TLAPS, for instances of any
size. Line numbers below refer to files of `src/src/edim_dde_api/`.

## The system

The service is a FastAPI process over two libraries that are not part of this
repository: `edim_dde_ai` (agents, task store, state store, recommendation
store, HITL) and `edim_dde_domain` (SQL, LLM, agents' YAML). Code runs on
three kinds of thread: the event loop (`async def` routes, middleware, lifespan),
the request threadpool (`def` routes, `asyncio.to_thread`) and the A2A worker
pool. They share the stores and nothing else.

| Component | Code | State | Operations | Status |
|---|---|---|---|---|
| A2A async tasks | `a2a_worker.py`, `a2a_tasks.py`, `routes.py:317-445`, lifespan's exit | task store, executor and its queue, ContextVars of the pool threads | accept, schedule, run, record outcome, poll, shut down, crash, restart, fall back to memory | modelled, proved |
| Recommendation lifecycle | `routes.py:899-1348`, `schemas.py:351-383` | recommendation store | propose, list/get, PATCH status and outcome | modelled, proved |
| HITL sessions and product routes | `routes.py:471-582`, `689-836`, `1063-1105` | session (state store), recommendation store | analyze, recommend, start, resume, persist | modelled, proved |
| Lifespan | `main.py:69-284`, `bootstrap.py` | where each plane's provider came from, agent catalog | configure, validate, bootstrap, bind, sync, serve | modelled, proved |
| Request context, middleware | `middleware.py`, `request_context.py`, `routes.py:122-212` | ContextVars of each request | bind, copy into a thread, undo, echo the id | modelled, proved |
| Synchronous invoke, error mapping | `routes.py:317-417` and every except clause, `main.py:311-391` | none | refuse, run, map an exception to a status | modelled, proved |
| Knowledge ingest | `routes.py:585-644` | retrieval backend (external) | gate, upsert | modelled, each document its own; proved |
| Agent directory | `directory.py`, `routes.py:241-315` | registry (external) | register; list and get change nothing | register modelled, each binding its own |
| A2A token gate | `a2a_auth.py` | none | admit, 401, or a token it cannot compare | modelled, proved |
| Projection, bounded copies | `schemas.py:418-505`, `routes.py:839-896` | none | state to answer, answer to stored copy | counts, cuts and parts modelled, proved |
| Guide mount | `guide.py` | the mount, chosen at import | mount, diagnose | both choices on one state of the disk, proved |
| Safe logging | `safe_logging.py` | none | redact, truncate | message modelled, proved |
| Health, debug, CORS | `main.py`, `routes.py` | none | read-only reports | `debug_sql_auth` only |
| Deployment scripts | `src/deploy/` | none | build, deployment, smoke tests | not modelled |

How they interact. An invoke with `async_accept` writes a task record and submits
a call to the pool; the pool's thread and the poll route meet in the task store
only. A product route runs an agent in a thread; the agent may leave a waiting
session in the state store, which the resume route reads, checks, and hands to
`resume_hitl_session` in another thread; approved results become recommendations.
Around every route stand the two middlewares, which bind the request's id and user
token in its context; the agent's thread runs in a copy of that context. PATCH
routes run in threads of their own on those records. The lifespan decides
which stores all of this uses, and its exit ends the pool.

What makes each component correct. Tasks: accepted once, run at most once and as
their caller, one final outcome that stands. Recommendations: written by their own
agent's routes, moved along the table, outcome fields kept. Sessions: an approved
result is stored once, nothing else is. Lifespan: fails for fatal reasons only, and
the stores in use are those announced. Requests: each runs as its caller under one
id, documented exceptions get documented answers, a client is told what was done.
Projection and logging: boundaries and zeros keep their meaning.

What is hard: pool threads are reused by tasks of different users; a record is
written by one thread and read by another, across crashes and restarts; store
calls may raise anywhere, in three places of the worker outside any `try`; checks are separated
from the acts they protect by an `await` or by a second store call; a PATCH saves
a record it read earlier; and a startup that must survive nearly every failure.
`PROJECT.json` lists each hazard at its line with the property that covers it.

## Modules

| Module | What it is |
|---|---|
| `TaskPromise` | what the async contract promises of a task: accepted as running, one outcome, never revised; a file's records may be hidden, and come back |
| `A2ATasks` | the pool, its queue, the worker function, polls, shutdown, crash, restart, fallback; implements `TaskPromise` |
| `A2ATasksProofs` | theorems about it |
| `LifecyclePromise` | what the recommendation lifecycle promises: allowed moves, outcome fields that only accumulate, until requests for a record overlap |
| `Recommendations` | PATCH requests of several clients against the store; implements `LifecyclePromise` |
| `RecommendationsProofs` | theorems about it |
| `GatePromise` | what a gate promises of a run: decided once and for good, stored after it passed only, and once |
| `HitlSessions` | runs, gates, overlapping resumes, the write of the result, crash; implements `GatePromise` |
| `HitlSessionsProofs` | theorems about it |
| `Startup` | the lifespan; it has no parameters, so TLC's check covers it completely |
| `StartupProofs` | theorems about it |
| `HttpRequests` | overlapping requests through middlewares, routes, thread, except clauses, handlers and back |
| `RequestAlone` | `HttpRequests` with one request as the contract of each of several: what it is to go through as though alone |
| `HttpRequestsProofs` | theorems about both |
| `AgentResponses` | operators: the tuning counts, the stored copy of an RCA answer, the safe message |
| `AgentResponsesProofs` | theorems about them |
| `GuideMount` | operators: the guide's choice at import and that of its diagnostics |
| `GuideMountProofs` | a theorem about them |
| `RequestData` | `HttpRequests` with these operators: where a route projects, stores or logs, what holds of it for any data |
| `RequestDataProofs` | theorems about it, from those on the operators |
| `MCA2ATasks`, `MCRecommendations`, `MCHitlSessions`, `MCRequests` | instances for TLC: symmetry sets, a transition table, the guide's candidates |

Definitions named as *variants* in a comment are plausible bugs of the definition
that follows them (a dropped guard, a missing reset, a swapped order). No
specification uses them; `PROJECT.json` says which property each one breaks.

### A2ATasks and the code

`AcceptTask` is `invoke_registered_agent` up to `accept_task` (routes.py:317-364),
`ScheduleAgentTask` the rest (365-384). Between them is no `await`, so `loop` holds
at most one call, but pool threads, polls and a crash run in between. `queue` is
the executor's. `run_agent_task` is one `pc` per pool thread:

| `pc` | next | a2a_worker.py |
|---|---|---|
| `idle` | `PickTask`: `get_task`; no record, no work; or `PickTaskRaises`: the call is gone | 77-80 |
| `start` | `StartTask`: `update_task(RUNNING)`, bind token and request id; or `StartTaskRaises` | 82-102 |
| `invoke` | `AgentReturns`: a result, a gate, an exception | 104-109, 118 |
| `save` | `SaveOutcome`, or `SaveOutcomeRaises`: the except clause saves an error, unguarded | 110-126 |
| `finally` | `FinishCall`: reset request id and token | 127-131 |

A ContextVar's token is the value to go back to (`tokCtx`, `ridCtx`); pool
threads keep their context from one task to the next, which is why these
variables are in the state at all. `get_task` (77) and the first `update_task` (86)
stand before the `try`: an exception there ends in a Future nobody reads.

`ShutdownA2AWorkers` is the lifespan's `shutdown(wait=False, cancel_futures=False)`:
nothing is dropped from the queue, and nobody waits for it. `Exit` may therefore come
at any moment after it. An interpreter that finishes joins the pool's threads, and the
behaviours in which the queue drains first are these; a server that raises its SIGTERM
again once the lifespan is left does not get there. `Crash` may come at any moment.

`Restart` opens the store, `RestartInMemory` is the except clause of main.py:268-274:
the file store cannot be opened and the process goes on with an empty one in memory
(`fellBack`). Until another process opens the file its records are in `hidden`, and a
poll finds none of them. `ProcessEnds` says what outlives the process: the file's
records, and nothing of memory's. `caller`, `runs`, `acked`, `seen`, `mine` (tasks of
the running process) and `filed` (tasks accepted into the file) are history that only
properties read.

### Recommendations and the code

`RecordForAgent` is the ownership read, `UpdateStatus` the store's `update_status`
(routes.py:1194-1207), `SaveOutcome` the `save` of the record that `update_status`
returned with the outcome merged into it (1208-1226). The two store writes of one
request are two actions, because another request's may come between. A record is
its owner, status and the outcome fields present. No route deletes a record, so the
`None` of `update_status` (1201-1202) does not come back after the ownership read
found it. Any number of PATCH requests may be in flight for one record. `promised`
(fields answered with 200), `writers` (the routes that wrote a record), `past` (every
version it has had) and `overlapped` (the records for which two PATCH requests were ever
in flight at once) are history that only properties read. The contract knows
`overlapped` too: it promises moves along the table and accumulating outcome fields
until then, and afterwards the owner alone.

### HitlSessions and the code

`InvokeProduct` stands for analyze and recommend, `StartSession` for `/sessions`
(which never stores a recommendation). `CheckResume` is `resume_session` up to its
`await` (routes.py:525-553), `ResumeHitlSession` the thread and the mapping of
`HitlError` to 400 (555-570), `PersistRecommendation` and `PersistRaises` the
best-effort write (572-574 and the adapters 1063-1105). `PersistNowhere` is the same
write when there is nowhere to write: the process's store is named none (921-922,
1022-1023; `store`), or the agent registered no adapter (1104-1105; `adapted` has the
runs of agents that did). It raises nothing and the answer is 200. A graph that goes
on may pause again in the same session. `Gate` is the refinement mapping onto `GatePromise`:
what session and outcome of a run amount to; requests, checks and their overlaps are
invisible in it.

### Startup and the code

`Order` is the sequence of `try` blocks of `lifespan`; each action is one block that
returns or raises; `SetUp` are the two assignments that cannot (the request-id logging
and the deferred LLM). `plane` records where the provider in use came from. A raising
configure call leaves the provider as it was. `Validate` raises any `RuntimeError`
again (191-192), whatever raised it and whether or not validation is strict, and logs
every other exception. The task plane's fallback to memory is `RestartInMemory` of
A2ATasks.

### HttpRequests and the code

`pc` follows a request: `BindRequestId` and `BindToken` are the middlewares up to
`call_next`, one action for each route up to its `await` (`EnterProduct` is analyze
and recommend), `working` is the agent's thread, `AgentRaises`, `ProjectionRaises`
and the `Finish` actions are what follows the `await`, `Leave` is the `finally` and
echo of both middlewares. A step is what runs between two awaits, so other requests
come between any two of these. `ctx` is the context of each request: what is bound
in it is undone from it alone; `_invoke_agent_in_thread` binds again in a copy,
which `run` records. An id is who chose it and for which request: the client, the
middleware or the route. `ResolveRequestId` is `_request_id`: the header first,
then `request.state`. A header of blanks only `str.strip()` removes counts as absent in
the middleware and as present in the route, which then generates a third id.

`RouteStatus` holds the routes' except clauses and `HandlerStatus` main.py's
handlers; 0 means nobody handles the exception: it passes the middlewares, the id
is not echoed, and the server answers 500. `Raised` is external: any exception class
the code names may come out of an agent where the code expects it. `Promised` is a
table of its own, taken from the docstrings (routes.py:700-702, 773-776;
main.py:311-391), against which `DocumentedAnswers` checks the clauses.

`FinishRecommend` is the order of routes.py:804-813: project, attach the quality, and
store unless a gate waits. `PersistRecommendation` saves before it announces. A store
that raises, before or after it took the row, leaves the answer without an id
(`Unsaved`); an upsert that raises leaves the document in the index or not. What an
answer is made of is a set of parts, as far as row and answer can differ.

`RefuseToken` is the A2A gate's 401, and the `TypeError` that `compare_digest` raises for
a token with a non-ASCII character (a2a_auth.py:45), a bare 500. `ProjectionRaises`: a
product route projects inside its `try`; the invoke and session routes build their
answer after it (routes.py:409-417), so that nobody handles what is raised there. The
two exceptions of main.py's LLM handlers, which every clause treats alike, are one
class, `llm`.

`RequestAlone` instantiates `HttpRequests` a second time, for one request and its part
of every variable. `AsIfAlone` is the refinement of that instance for each request,
written as one action property because TLC takes no quantifier over
specifications: a step of the system is, to every request, a step it could take alone,
or nothing. It says more than `RunsAsAsked`: not only the token and the id of the
work but every guard, answer, row and exception of a request is independent of what
else is in the process.

### AgentResponses, GuideMount and the code

`GuardrailRetries` is schemas.py:471-474 (`or` for attempts, `is None` for retries),
`StoredEvidence` and `StoredSections` the slices of `_bounded_rca_store_response`,
`SafeExcMessage` the redaction and the cut of `safe_exc_message`. A text that is only
cut is its length. Of a stored item the excerpt is cut and the label (`ref` and
`source`, 879-880) is copied: `CopyIsCut` says what the slices give, `CopyStaysBounded`
what the docstring says of the row.

The secret patterns become runs of secret characters of a least length. Each is
replaced by `MarkLength` marks, be that shorter or longer than the secret, so that
redaction may bring a text over the limit; a message is the sequence of the positions
of the text that it shows, with marks and dots between. That is what makes the order of
redaction and cut matter.

`CountsProjected`, `CopyIsCut`, `CopyStaysBounded` and `MessageSafe` speak of all inputs
at once; `RequestData` claims each where a request needs it, and `requests` checks that.
`Logged` names the exceptions that `log_exception_once` logs: not those nobody handles,
and not those whose text is the answer's detail (routes.py:401, 570).

`ResolveGuideSiteDir` and `Resolved` are the two loops that look for a site, the one that
mounts and the one that reports. The first runs when main.py is imported and the second
at a request for `/debug/guide`; `DiagnosticsAgree` compares them on one state of the
disk, over all inputs. No request is involved: it is an assumption of `MCRequests`, which
TLC evaluates, and a theorem.

## What is checked

| Run | Question | Result |
|---|---|---|
| `a2a_file` | with the file store, a crash, raising store calls and startups that fall back to memory: types, one place per task, the caller's token, at most one run, what becomes of a polled outcome; does any step take a task back or let one overtake another? is the work over when the status is final? does the pool implement `TaskPromise`? | holds; no; yes; yes; 658k states |
| `a2a_live` | with the memory store, more tasks than threads and shutdowns whose process may end at once: is a task of the living process stranded? does every running task finish while its process lives? does the pool implement `TaskPromise`? | no; yes, when no store call raises; yes; 565k states |
| `a2a_crash_strands` | does a file-store task finish although its process ends before the pool has drained? | no: finding |
| `a2a_update_strands` | does a task finish when a `get_task` or `update_task` raises? | no: finding |
| `recs_lifecycle` | overlapping PATCHes through both agents' routes, with a raising call: can one write another agent's record? can an overlap do more than set a record back to an earlier version? do the routes implement `LifecyclePromise`, and keep what was answered, until requests for a record overlap? | no; no; yes; 989k states |
| `recs_stale_status` | do statuses move along the table when PATCHes overlap? | no: finding |
| `hitl` | is an approved result, and nothing else, recorded, and once, where there is a place for it? do the routes implement `GatePromise`? | yes; yes; 330k states |
| `hitl_late_resume` | is 400 answered for bad decisions only? | no: finding |
| `startup` | every combination of failing steps: which verdict, which stores? | as the code announces; 134k states |
| `startup_split_stores` | does a failing binding keep the process's stores? | no: finding |
| `requests` | two overlapping requests of any kind: does each go through as though alone? whose token and id does the work run under, are the documented statuses given, is the client told what was done? are the projections, the cut of the stored copy and the safe message right on bounded inputs? | yes; 1.17M states, in about two minutes |
| `requests_unbounded_rows` | is every text of a stored row within some limit? | no: finding |

Bounds, and why they are enough:

- A2ATasks: `a2a_file` has two tasks and two threads, which run side by side or one
  after the other on one thread, as two different callers or none; one crash beside any
  number of shutdowns; two raising calls, which is what it takes to lose both the
  outcome and the error of a task; two fallbacks, one after the other or with the file
  in between. `a2a_live` has three tasks and one thread, the case where tasks wait and
  a thread is used again and again.
- Recommendations: two clients are one overlap; two records let a request be
  about another record than its neighbour, and one record keep its promise while the
  other loses it; three PATCH requests are an overlap and one before or after it. The
  transition table is external; `MCAllowed` holds forward moves, among them the
  ones the repository's tests make, `MCAllowedSame` also allows repeating a status.
- HitlSessions: two clients overlap on one run or work on two; one crash and one
  fault fall between any two steps; a crash may change whether there is a store.
- Startup: no bound.
- HttpRequests: two requests are one overlap in every phase; one token and its
  absence are two users; one agent remembers conversations and two do not. The
  theorems are for any number of each.
- AgentResponses: the limits 20, 500, 2000 and 500 become 2, 2, 1 and 5 with inputs up to
  two beyond them, so that below, at, one over and further over all occur; numbers
  go from -1 to 3. A secret has at least two characters and a mark three, so that
  redaction lengthens some texts and shortens others. GuideMount: three candidates,
  every disk.

`CHECK_DEADLOCK FALSE` is set where the bounded number of requests, or the
end of the process, leaves nothing to do.

### Fairness

Only `FairSpec` of A2ATasks assumes any: the coroutine
that accepted a task goes on to schedule it (no `await` in between); every pool
thread that can take a step takes it, which includes that an agent's
invocation returns (the libraries' LLM and SQL calls carry timeouts; this is an
assumption about code outside the repository); a process that is down is
started again. Nothing forces a poll, a shutdown, an accept or a crash, and nothing
makes a process that was shut down wait for its pool: `FinishesInItsProcess` ends with the
outcome or with the process. `EventuallyTerminal`, the docstring's wording, does not, and
is what `a2a_crash_strands` finds violated.

## What is proved

All theorems hold for every set of tasks, threads, tokens, records, agents,
statuses, transition tables, runs, clients and requests, and every bound, under the named
assumptions of the modules (sentinels differ from values, bounds are naturals).

**A2ATasksProofs.** `Inductive` proves
`IInv == TypeOK /\ Standby /\ OnePlace /\ Identity`.
Neither `RunsAsCaller` nor `AtMostOneRun` is inductive alone. That a thread runs
with its caller's token needs `Identity`: the token travels unchanged from the
accepted call through the queue to the thread's argument, and an idle thread has
nothing bound, so what `finally` resets to is the default. That a thread's task
belongs to nobody else needs `OnePlace`: an id is pending, queued or with one
thread, its record is running and its agent has not run before `StartTask`. `Standby`
says that there are no calls without a process, and that records are hidden only from
one that fell back, and only those of accepted tasks. From `IInv` follow `TypeCorrect`, `TasksInOnePlace`,
`AgentRunsAsCaller` and `AgentRunsAtMostOnce`.

`PoolImplementsPromise`: each step is a step of `TaskPromise` or leaves the store alone.
A thread writes `running` only over `running`, and an outcome only over `running`;
`RestartInMemory` is the contract's `Hide`, the end of such a process its `Return`.
`PolledAnswersStand` holds for a configured file store: a record changes only when its
id is accepted, or when it is running, so an outcome a poll answered is never written
over. A task that was accepted into the file keeps its record there, with the status
that was polled, through any number of fallbacks; until the file is opened again a poll
gets a 404 for it, and that is all that can happen to a polled answer.
`NoTaskStranded` adds one invariant: a thread that saves has a final outcome to save.

`NoTaskStepsBack` is a safety half of both liveness properties. `Accepted` to `Done` are
the stations a task has passed, nested sets; `Arrivals` says for each place that a task
is found there after a step only if it was there or one place before, and
`ArrivalsSuffice` that the six sets then only grow. With `InOrder`, which needs that a
task is in one place, every step of any execution moves a task forward or leaves it, so
that no cycle of steps can keep one from its end; that the steps are also taken is
what fairness adds and what TLC checks. `FinalStatusMeansOver` adds `RunsCounted` (a
thread that has its agent behind it counted one run) and that a hidden final record is
of a task that is over: a thread closes the record of its own task only, after its one
run and as its last act on it.

**RecommendationsProofs.** All theorems hold whatever PATCH requests overlap; none
assumes that they do not. `OwnersKept` rests on `RequestOwns` (the owner found
by the check is the record's owner for as long as the request is in flight, since
no step changes an owner) and `CopyOwned` (so is the owner in the copy that will
be saved). `OverlapOnlySetsBack` rests on `Versions`: the copy a request saves, and the
record itself, are versions the record had. A lost update therefore writes an earlier
version, status and outcome fields, with the saving request's fields on top, and never
a mixture; with it go the fields that came in between.

`AnsweredLabelsStay` and `RoutesImplementLifecycle` rest on `SerialInv`, whose parts
speak of the records outside `overlapped`: such a record has one request in flight at
most, the copy that request will save is what the store still has, and what was
answered with 200 is in the record. The step that lets a second request in is the one
that takes the record out of the claim, so the promise of a record is lost exactly
there, and no other record's with it.

**HitlSessionsProofs.** `RunsRecordedOnce` and `OnlyApprovedRecorded` rest on
`SoleWriter`: a request about to store a run is the only one, the run has passed
its last gate and nothing is stored for it. It holds because
`resume_hitl_session` refuses a session that is no longer waiting; the route's
check alone does not give it. `ApprovalsReachStore` shows that without a crash or
a raising call no approved result of an agent with an adapter is lost while the store is
not named none. `RoutesImplementGate` is the refinement of
`GatePromise`, step by step: an invocation is its `Run`, a resume its `Decide` or, when
the graph pauses again, nothing, the write of the record its `Store`; `SoleWriter` is
what makes the last one possible, and a crash or a raising call is a stutter.

**StartupProofs.** `SInv` adds to the type what each position of the sequence
implies: the catalog is mirrored once nothing replaces the state store any more, and
it is in that store; a recommendation store that failed left none behind, unless the
fallback failed too; and startup fails with one of its two fatal exceptions on record.
The four invariants of the run follow; a jump of raising bindings lands on the catalog
(`BindingsSkipTo`).

**HttpRequestsProofs.** The argument is local: a step of one request touches nothing
of another (`OthersUntouched`), so `Local(r)` need only be kept by steps of `r`.
`Local` says what is bound in each phase (`PhaseInv`), that the run has its
request's token and id (`RunInv`), that row and answer are the run's (`ResultInv`,
`ToldInv`), and that what the documentation promises was answered (`PromiseInv`). None
of the seven invariants is inductive alone: the run's token is right because the
context was, which was because it is unbound at first and bound once. The promised
statuses rest on `PromisesKept`, a comparison of the table with the clauses.
`EveryRequestAsIfAlone` makes the locality itself a theorem, the refinement of
`RequestAlone`: `AloneStutters` for the steps of the others, `AloneStep` for its own,
with a lemma for each action that what it does to the request's part of the variables is
the same action of the instance. With it, what TLC finds for one request holds for
each of any number of them.

**AgentResponsesProofs, GuideMountProofs, RequestDataProofs.** The operators' properties
for every limit and input, and with them those of `RequestData`. `StoredCopyIsCut` says
of a stored copy what the slices give it, and no more: the row as a whole has no bound,
which `requests_unbounded_rows` shows. `MessagesAreSafe` looks at the two halves of a
cut message: the head is redacted text, the rest dots; `RedactedShowsNoSecret` holds
whatever the length of a mark. `GuideReportIsTrue` shows that both loops choose the
least index with a site, which exists because the naturals are well founded.

Only model-checked: liveness (`FinishesInItsProcess`), which is
beyond the prover; what a single step could break of it, `NoStepBack` and
`NothingStranded`, are theorems. Every safety property of a passing run is a theorem.

## Findings

1. `a2a_crash_strands`: when a process ends before its pool has drained, by a crash or
   after a shutdown, a file-store task is `running` for ever; the queue is in the
   process only and startup does not look for such tasks.
2. `a2a_update_strands`: a `get_task` or `update_task` that raises before the `try`, or
   an `update_task` in the `except`, leaves a task `running` for ever in a healthy process.
3. `recs_stale_status`: the `save` of a PATCH with outcome fields writes an old
   status over a newer one, unchecked; by the same step it drops the outcome fields
   that another request stored in between. `SetBackOnly` says how far that goes.
4. `hitl_late_resume`: the later of two overlapping good resumes gets 400, where
   the route documents 409.
5. `startup_split_stores`: when the second Cosmos binding raises, the log says the
   process's store configuration is kept, but the state store has been replaced.
6. `requests_unbounded_rows`: the docstring says that stored rows stay bounded
   (routes.py:842-843), but `ref` and `source` of an excerpt are stored as long as they
   are, and so are the raw anchors and any number of sections.

## Assumptions about code outside the repository

- A call of a store is atomic, and one that raises changes nothing; in HttpRequests a
  raising `save` or `upsert` may have taken the row or the document.
- `update_status` checks the transition and returns a copy of the record, not the
  store's own object.
- `resume_hitl_session` takes a waiting session and a good decision in one atomic
  step, and raises `HitlError` otherwise. Another exception may come before or
  after that step.
- The file task store's records survive the process, as
  `src/tests/test_a2a_call_contract.py:101-120` shows.
- A file store that cannot be opened leaves the file as it is, and a later process finds
  it so.
- Two accepted tasks never share an id, nor two recommendations, nor do two requests
  get the same generated id.
- The exceptions of main.py's handlers are no `ValueError`s; `create_agent`'s registry
  error on a product route counts as "other".
- `normalize_conversation_payload` refuses a named conversation when the agent has no
  memory and mints one, when none is named, when it has.
- Agents return no `recommendation_id` of their own.
- Every request has a context of its own; `call_next` and `asyncio.to_thread` run in
  copies of it (Starlette, CPython).

## What is not modelled

Payloads, agent states, subjects and texts, and with them an id in the caller's
input bag, which wins over the request's in the agent's state (routes.py:345).
Several processes at once: replicas with a memory store see different tasks, and
nothing in this code relates them. A task accepted by a request that outlives the
lifespan, for which `_executor` would start another pool (a2a_worker.py:48-54); an
`accept_task` or a `submit` that raises, which is answered 500 before a client has an
id. Deletion of records by their stores' retention.
Two ingests of one document and two registrations of one agent, of which the last one
wins: documents and bindings stand for the request that left them, and the code
promises nothing about the order. Concurrent turns of one conversation, which are the
checkpointer's. Time: that the resume's write and the ingest's upsert stop the event loop
(routes.py:572, 616) costs latency only. Whether a resumed tuning result has a quality:
its row is stored without `_attach_tuning_quality` (routes.py:1065), unlike the row of a
run without gate. Requests that pydantic refuses with 422. Reads of the directory, health
and debug reports other than `debug_sql_auth`, CORS, and the copying of fields in the
projections that nothing limits or defaults, the raw anchors of a stored copy among
them. The regular expressions of the safe logging, beyond their least length, and the
redacted traceback beside the message. A guide site that appears or goes after the
import, which the diagnostics then report and nobody serves. Deployment scripts, which
are no part of the running program.

Three things the model shows and no run states as a violated property; they are listed
as hazards. The A2A invoke answers 500 where main.py has handlers for 503 and 422. An
exception nobody handles loses the `X-Request-Id` that `src/README.md:141` and the
middleware's docstring say is echoed. And an `X-Request-Id` of blanks that only
`str.strip()` removes is echoed as one id while the work runs under another.
`DocumentedAnswers` and `OneCorrelationId` bound the last two: they happen to
exceptions nothing names, and to blank headers, only.

## Plan

Done, in order of weight: tasks, lifecycle, HITL, startup, requests with their
errors and data, the proof of every safety property that is checked, and the
contracts of tasks, lifecycle, gates and requests as refinements that are proved.

Left:

1. A composition of tasks and sessions: an async task that pauses at a gate
   (`input_needed`), its session resumed over HTTP, the task record left as it is.
2. A second process in `A2ATasks`, once the code relates replicas, and requests that
   outlive the lifespan.
3. Documents and bindings under the keys their callers choose, so that two requests meet.
4. What a resumed run's row contains, when a document says what it should.
