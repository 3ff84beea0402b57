------------------------------- MODULE A2ATasks -------------------------------
(***************************************************************************)
(* Asynchronous agent invocation: POST /agents/{id}/invoke with            *)
(* async_accept, the in-process pool of a2a_worker.py, and the poll        *)
(* GET /agents/tasks/{id}.                                                 *)
(*                                                                         *)
(* Three kinds of thread touch the task store: the event loop (accepts,    *)
(* schedules, shuts down), the pool threads (run the agent, record its     *)
(* outcome) and the request threadpool (polls).  Accepting and scheduling  *)
(* happen in one coroutine with no await between them, so nothing else     *)
(* runs on the event loop meanwhile; pool threads, polls and a crash do    *)
(* interleave.                                                             *)
(*                                                                         *)
(* A record is its status; payload, state and error text are left out.     *)
(* Each request has a request id of its own, so a task stands for its rid. *)
(***************************************************************************)
EXTENDS Naturals, Sequences, FiniteSets

CONSTANTS
    Tasks,          \* task ids accept_task may hand out, each once
    Workers,        \* the pool's threads: EDIM_A2A_WORKER_THREADS of them
    Tokens,         \* forwarded Databricks user tokens
    NoToken,        \* no token: header absent, ContextVar at its default
    NoTask,         \* no task, or no request id bound
    NotBound,       \* tok_ctx / rid_ctx is None: nothing to reset
    Durable,        \* TRUE: file store; FALSE: memory store
    MaxCrashes,     \* bound on abrupt process ends
    MaxFaults,      \* bound on get_task and update_task calls that raise
    MaxFallbacks    \* bound on startups that cannot open the file store

ASSUME BoundsAssumption ==
    MaxCrashes \in Nat /\ MaxFaults \in Nat /\ MaxFallbacks \in Nat
ASSUME StoreAssumption == Durable \in BOOLEAN
ASSUME SentinelAssumption ==
    /\ NoToken \notin Tokens
    /\ NoTask \notin Tasks
    /\ NotBound \notin Tokens \cup {NoToken}
    /\ NotBound \notin Tasks \cup {NoTask}

TokenArgs == Tokens \cup {NoToken}
RidValues == Tasks \cup {NoTask}

Terminal == {"completed", "input_needed", "error"}
Outcomes == Terminal
Statuses == Terminal \cup {"running"}

VARIABLES
    store,      \* the task store in use: status of each task, "absent" when no record
    hidden,     \* the file's records while the memory store is used in its place
    fellBack,   \* TRUE: this process could not open the file store
    server,     \* "serving", "draining" (lifespan left), "down"
    loop,       \* set of at most one call: accepted, not yet scheduled
    queue,      \* the executor's work queue
    pc,         \* per pool thread: where run_agent_task stands
    job,        \* per pool thread: task_id argument
    arg,        \* per pool thread: databricks_token argument
    tokVar,     \* per pool thread: the token ContextVar
    tokCtx,     \* per pool thread: tok_ctx, the value to reset to
    ridVar,     \* per pool thread: the request id ContextVar
    ridCtx,     \* per pool thread: rid_ctx
    outcome,    \* per pool thread: the status about to be saved
    caller,     \* history: token of the request that created a task
    runs,       \* history: how often the agent was invoked for a task
    acked,      \* history: tasks whose id reached the client
    seen,       \* history: last answer a poll gave for a task
    mine,       \* history: tasks the running process accepted
    filed,      \* history: tasks accepted into the file
    crashes, faults, fallbacks

reserve == <<hidden, fellBack>>
origin  == <<mine, filed>>
history == <<caller, runs, acked, seen, origin>>
binding == <<tokVar, tokCtx, ridVar, ridCtx>>
threads == <<pc, job, arg, outcome, binding>>
limits  == <<crashes, faults, fallbacks>>
vars    == <<store, reserve, server, loop, queue, threads, history, limits>>

Calls == [task : Tasks, token : TokenArgs]

NoRecords == [t \in Tasks |-> "absent"]

AllIdle == \A w \in Workers : pc[w] = "idle"

\* A fresh process: no pool thread has started, all ContextVars are at default.
FreshThreads ==
    /\ pc'      = [w \in Workers |-> "idle"]
    /\ job'     = [w \in Workers |-> NoTask]
    /\ arg'     = [w \in Workers |-> NoToken]
    /\ outcome' = [w \in Workers |-> "running"]
    /\ tokVar'  = [w \in Workers |-> NoToken]
    /\ tokCtx'  = [w \in Workers |-> NotBound]
    /\ ridVar'  = [w \in Workers |-> NoTask]
    /\ ridCtx'  = [w \in Workers |-> NotBound]

Init ==
    /\ store   = NoRecords
    /\ hidden  = NoRecords
    /\ fellBack = FALSE
    /\ server  = "down"
    /\ loop    = {}
    /\ queue   = << >>
    /\ pc      = [w \in Workers |-> "idle"]
    /\ job     = [w \in Workers |-> NoTask]
    /\ arg     = [w \in Workers |-> NoToken]
    /\ outcome = [w \in Workers |-> "running"]
    /\ tokVar  = [w \in Workers |-> NoToken]
    /\ tokCtx  = [w \in Workers |-> NotBound]
    /\ ridVar  = [w \in Workers |-> NoTask]
    /\ ridCtx  = [w \in Workers |-> NotBound]
    /\ caller  = [t \in Tasks |-> NotBound]
    /\ runs    = [t \in Tasks |-> 0]
    /\ acked   = {}
    /\ seen    = [t \in Tasks |-> "unpolled"]
    /\ mine    = {}
    /\ filed   = {}
    /\ crashes = 0
    /\ faults  = 0
    /\ fallbacks = 0
-------------------------------------------------------------------------------
(* The event loop. *)

\* invoke_registered_agent, async_accept: accept_task creates a running record.
AcceptTask(t, tok) ==
    /\ server = "serving"
    /\ loop = {}
    /\ caller[t] = NotBound
    /\ store' = [store EXCEPT ![t] = "running"]
    /\ loop' = {[task |-> t, token |-> tok]}
    /\ caller' = [caller EXCEPT ![t] = tok]
    /\ mine' = mine \cup {t}
    /\ filed' = IF Durable /\ ~fellBack THEN filed \cup {t} ELSE filed
    /\ UNCHANGED <<server, queue, threads, runs, acked, seen, reserve, limits>>

\* Variant: the submit is retried although the first one went through.
ScheduleTwice ==
    \E call \in loop :
        /\ queue' = queue \o <<call, call>>
        /\ acked' = acked \cup {call.task}
        /\ loop' = {}
        /\ UNCHANGED <<store, server, threads, caller, runs, seen, origin, reserve, limits>>

\* schedule_agent_task, then the response that carries the task id.
ScheduleAgentTask ==
    \E call \in loop :
        /\ queue' = Append(queue, call)
        /\ acked' = acked \cup {call.task}
        /\ loop' = {}
        /\ UNCHANGED <<store, server, threads, caller, runs, seen, origin, reserve, limits>>

\* Variant: shutdown with cancel_futures=True.
ShutdownCancelsQueue ==
    /\ server = "serving"
    /\ loop = {}
    /\ server' = "draining"
    /\ queue' = << >>
    /\ UNCHANGED <<store, loop, threads, history, reserve, limits>>

\* lifespan's exit: shutdown(wait=False, cancel_futures=False).  What is queued
\* stays queued, and the pool's threads work on for as long as the process lives.
ShutdownA2AWorkers ==
    /\ server = "serving"
    /\ loop = {}
    /\ server' = "draining"
    /\ UNCHANGED <<store, loop, queue, threads, history, reserve, limits>>
-------------------------------------------------------------------------------
(* The pool threads: run_agent_task. *)

\* Variant: after a shutdown a thread puts the call it took back into the queue.
PutBackOnShutdown(w) ==
    /\ server # "down"
    /\ pc[w] = "idle"
    /\ queue # << >>
    /\ LET call == Head(queue)
           take == server = "serving"
       IN  /\ queue' = IF take THEN Tail(queue) ELSE Append(Tail(queue), call)
           /\ pc'  = [pc EXCEPT ![w] = IF take THEN "start" ELSE "idle"]
           /\ job' = [job EXCEPT ![w] = IF take THEN call.task ELSE NoTask]
           /\ arg' = [arg EXCEPT ![w] = IF take THEN call.token ELSE NoToken]
    /\ UNCHANGED <<store, server, loop, outcome, binding, history, reserve, limits>>

\* A thread takes the oldest call and reads the record; no record, no work.
PickTask(w) ==
    /\ server # "down"
    /\ pc[w] = "idle"
    /\ queue # << >>
    /\ queue' = Tail(queue)
    /\ LET call  == Head(queue)
           known == store[call.task] # "absent"
       IN  /\ pc'  = [pc EXCEPT ![w] = IF known THEN "start" ELSE "idle"]
           /\ job' = [job EXCEPT ![w] = IF known THEN call.task ELSE NoTask]
           /\ arg' = [arg EXCEPT ![w] = IF known THEN call.token ELSE NoToken]
    /\ UNCHANGED <<store, server, loop, outcome, binding, history, reserve, limits>>

\* The get_task that raises has no try around it: the call is gone with the
\* Future nobody reads, and its record stays as it was accepted.
PickTaskRaises(w) ==
    /\ server # "down"
    /\ pc[w] = "idle"
    /\ queue # << >>
    /\ faults < MaxFaults
    /\ faults' = faults + 1
    /\ queue' = Tail(queue)
    /\ UNCHANGED <<store, server, loop, threads, history, reserve, crashes, fallbacks>>

\* ContextVar.set in thread w, remembering the value to reset to.
BindToken(w) ==
    IF arg[w] = NoToken
    THEN UNCHANGED <<tokVar, tokCtx>>
    ELSE /\ tokCtx' = [tokCtx EXCEPT ![w] = tokVar[w]]
         /\ tokVar' = [tokVar EXCEPT ![w] = arg[w]]

BindRequestId(w) ==
    /\ ridCtx' = [ridCtx EXCEPT ![w] = ridVar[w]]
    /\ ridVar' = [ridVar EXCEPT ![w] = job[w]]

\* update_task(RUNNING), then the bindings; the agent is invoked next.
StartTask(w) ==
    /\ pc[w] = "start"
    /\ store' = [store EXCEPT ![job[w]] = "running"]
    /\ BindToken(w)
    /\ BindRequestId(w)
    /\ runs' = [runs EXCEPT ![job[w]] = @ + 1]
    /\ pc' = [pc EXCEPT ![w] = "invoke"]
    /\ UNCHANGED <<server, loop, queue, job, arg, outcome,
                   caller, acked, seen, origin, reserve, limits>>

\* That update_task is outside the try: its exception ends the call, and stays
\* in a Future nobody reads.
StartTaskRaises(w) ==
    /\ pc[w] = "start"
    /\ faults < MaxFaults
    /\ faults' = faults + 1
    /\ pc' = [pc EXCEPT ![w] = "idle"]
    /\ job' = [job EXCEPT ![w] = NoTask]
    /\ arg' = [arg EXCEPT ![w] = NoToken]
    /\ UNCHANGED <<store, server, loop, queue, outcome, binding, history, reserve, crashes, fallbacks>>

\* create_agent(aid).invoke returns, pauses at a HITL gate, or raises.
AgentReturns(w) ==
    /\ pc[w] = "invoke"
    /\ \E o \in Outcomes : outcome' = [outcome EXCEPT ![w] = o]
    /\ pc' = [pc EXCEPT ![w] = "save"]
    /\ UNCHANGED <<store, server, loop, queue, job, arg, binding, history, reserve, limits>>

\* Variant: something after the save, still inside the try, raises.
SaveThenRaise(w) ==
    /\ pc[w] = "save"
    /\ store' = [store EXCEPT ![job[w]] = outcome[w]]
    /\ IF outcome[w] = "completed"
       THEN outcome' = [outcome EXCEPT ![w] = "error"] /\ UNCHANGED pc
       ELSE pc' = [pc EXCEPT ![w] = "finally"] /\ UNCHANGED outcome
    /\ UNCHANGED <<server, loop, queue, job, arg, binding, history, reserve, limits>>

SaveOutcome(w) ==
    /\ pc[w] = "save"
    /\ store' = [store EXCEPT ![job[w]] = outcome[w]]
    /\ pc' = [pc EXCEPT ![w] = "finally"]
    /\ UNCHANGED <<server, loop, queue, job, arg, outcome, binding, history, reserve, limits>>

\* A raising save of a result falls into the except clause, which saves an
\* error instead; a raising save of the error leaves the record as it is.
SaveOutcomeRaises(w) ==
    /\ pc[w] = "save"
    /\ faults < MaxFaults
    /\ faults' = faults + 1
    /\ IF outcome[w] = "error"
       THEN pc' = [pc EXCEPT ![w] = "finally"] /\ UNCHANGED outcome
       ELSE outcome' = [outcome EXCEPT ![w] = "error"] /\ UNCHANGED pc
    /\ UNCHANGED <<store, server, loop, queue, job, arg, binding, history, reserve, crashes, fallbacks>>

\* Variants: the finally clause forgets the token; it resets without asking
\* whether anything was set.
KeepToken(w) == pc[w] = "finally" /\ UNCHANGED tokVar
ResetAnyToken(w) == tokVar' = [tokVar EXCEPT ![w] = tokCtx[w]]

ResetToken(w) ==
    IF tokCtx[w] = NotBound
    THEN UNCHANGED tokVar
    ELSE tokVar' = [tokVar EXCEPT ![w] = tokCtx[w]]

ResetRequestId(w) ==
    IF ridCtx[w] = NotBound
    THEN UNCHANGED ridVar
    ELSE ridVar' = [ridVar EXCEPT ![w] = ridCtx[w]]

\* The finally clause; tok_ctx and rid_ctx go out of scope with the call.
FinishCall(w) ==
    /\ pc[w] = "finally"
    /\ ResetToken(w)
    /\ ResetRequestId(w)
    /\ tokCtx' = [tokCtx EXCEPT ![w] = NotBound]
    /\ ridCtx' = [ridCtx EXCEPT ![w] = NotBound]
    /\ pc' = [pc EXCEPT ![w] = "idle"]
    /\ job' = [job EXCEPT ![w] = NoTask]
    /\ arg' = [arg EXCEPT ![w] = NoToken]
    /\ outcome' = [outcome EXCEPT ![w] = "running"]
    /\ UNCHANGED <<store, server, loop, queue, history, reserve, limits>>
-------------------------------------------------------------------------------
(* Polls and the process. *)

\* get_a2a_task, in a request thread; "absent" is the 404.
GetA2ATask(t) ==
    /\ server = "serving"
    /\ t \in acked
    /\ seen' = [seen EXCEPT ![t] = store[t]]
    /\ UNCHANGED <<store, server, loop, queue, threads, caller, runs, acked,
                   origin, reserve, limits>>

\* Variant: the records are lost with the process whatever the store.
ProcessEndsForgets ==
    /\ server' = "down"
    /\ store' = NoRecords
    /\ hidden' = NoRecords
    /\ fellBack' = FALSE
    /\ loop' = {}
    /\ queue' = << >>
    /\ mine' = {}
    /\ FreshThreads
    /\ UNCHANGED <<caller, runs, acked, seen, filed>>

\* What outlives the process: the file's records, and nothing of memory's.
ProcessEnds ==
    /\ server' = "down"
    /\ store' = IF ~Durable THEN NoRecords ELSE IF fellBack THEN hidden ELSE store
    /\ hidden' = NoRecords
    /\ fellBack' = FALSE
    /\ loop' = {}
    /\ queue' = << >>
    /\ mine' = {}
    /\ FreshThreads
    /\ UNCHANGED <<caller, runs, acked, seen, filed>>

\* The process may end as soon as the lifespan is left.  Whether the pool drains
\* first is not the code's to say: an interpreter that finishes joins the threads,
\* a server that raises its SIGTERM again does not get there.
Exit ==
    /\ server = "draining"
    /\ ProcessEnds
    /\ UNCHANGED limits

Crash ==
    /\ server # "down"
    /\ crashes < MaxCrashes
    /\ crashes' = crashes + 1
    /\ ProcessEnds
    /\ UNCHANGED <<faults, fallbacks>>

\* Variant: a restart schedules the tasks it finds running.
RestartReschedules ==
    /\ server = "down"
    /\ server' = "serving"
    /\ \E t \in Tasks :
        queue' = IF store[t] = "running"
                 THEN Append(queue, [task |-> t, token |-> NoToken])
                 ELSE queue
    /\ UNCHANGED <<store, loop, threads, history, reserve, limits>>

\* lifespan's start, the first one too: it opens the store and looks for no tasks
\* left running.
Restart ==
    /\ server = "down"
    /\ server' = "serving"
    /\ UNCHANGED <<store, loop, queue, threads, history, reserve, limits>>

\* The file store cannot be opened; the process goes on with an empty one in
\* memory, and no request sees the file's records until another process opens it.
RestartInMemory ==
    /\ server = "down"
    /\ Durable
    /\ fallbacks < MaxFallbacks
    /\ fallbacks' = fallbacks + 1
    /\ server' = "serving"
    /\ fellBack' = TRUE
    /\ hidden' = store
    /\ store' = NoRecords
    /\ UNCHANGED <<loop, queue, threads, history, crashes, faults>>

EventLoop ==
    \/ \E t \in Tasks, tok \in TokenArgs : AcceptTask(t, tok)
    \/ ScheduleAgentTask
    \/ ShutdownA2AWorkers

RunAgentTask(w) ==
    \/ PickTask(w)
    \/ StartTask(w)
    \/ AgentReturns(w)
    \/ SaveOutcome(w)
    \/ FinishCall(w)

\* The process ends, or another one starts.
ProcessStep == Exit \/ Crash \/ Restart \/ RestartInMemory

StoreRaises(w) == PickTaskRaises(w) \/ StartTaskRaises(w) \/ SaveOutcomeRaises(w)

Next ==
    \/ EventLoop
    \/ \E w \in Workers : RunAgentTask(w) \/ StoreRaises(w)
    \/ \E t \in Tasks : GetA2ATask(t)
    \/ ProcessStep

Spec == Init /\ [][Next]_vars

\* The coroutine that accepted runs on to schedule; the OS schedules every pool
\* thread, and an invocation returns (its LLM and SQL calls carry timeouts); a
\* process that is down is started again by its supervisor.
Fairness ==
    /\ WF_vars(ScheduleAgentTask)
    /\ \A w \in Workers : WF_vars(RunAgentTask(w))
    /\ WF_vars(Restart)

FairSpec == Spec /\ Fairness
-------------------------------------------------------------------------------
(* Properties. *)

\* Every variable has its type.
TypeOK ==
    /\ store \in [Tasks -> Statuses \cup {"absent"}]
    /\ hidden \in [Tasks -> Statuses \cup {"absent"}]
    /\ fellBack \in BOOLEAN
    /\ server \in {"serving", "draining", "down"}
    /\ loop \subseteq Calls
    /\ queue \in Seq(Calls)
    /\ pc \in [Workers -> {"idle", "start", "invoke", "save", "finally"}]
    /\ job \in [Workers -> RidValues]
    /\ arg \in [Workers -> TokenArgs]
    /\ tokVar \in [Workers -> TokenArgs]
    /\ tokCtx \in [Workers -> TokenArgs \cup {NotBound}]
    /\ ridVar \in [Workers -> RidValues]
    /\ ridCtx \in [Workers -> RidValues \cup {NotBound}]
    /\ outcome \in [Workers -> Statuses]
    /\ caller \in [Tasks -> TokenArgs \cup {NotBound}]
    /\ runs \in [Tasks -> Nat]
    /\ acked \subseteq Tasks
    /\ seen \in [Tasks -> Statuses \cup {"absent", "unpolled"}]
    /\ mine \subseteq Tasks
    /\ filed \subseteq Tasks
    /\ crashes \in 0..MaxCrashes
    /\ faults \in 0..MaxFaults
    /\ fallbacks \in 0..MaxFallbacks

\* Where an accepted task can be: with the coroutine, in the queue, or with a
\* thread between its get_task and its last update_task.
Pending(t)  == \E call \in loop : call.task = t
Queued(t)   == \E i \in 1..Len(queue) : queue[i].task = t
Active(w)   == pc[w] \in {"start", "invoke", "save"}

\* An accepted task is in one place at a time, and its record is running until
\* the one thread that takes it saves an outcome.  No id that was never handed out has a record.
OnePlace ==
    /\ \A c, d \in loop : c = d
    /\ \A i, j \in 1..Len(queue) : queue[i].task = queue[j].task => i = j
    /\ \A v, w \in Workers :
        Active(v) /\ Active(w) /\ job[v] = job[w] => v = w
    /\ \A t \in Tasks : ~(Pending(t) /\ Queued(t))
    /\ \A t \in Tasks : Pending(t) \/ Queued(t) =>
        /\ store[t] = "running"
        /\ runs[t] = 0
        /\ \A w \in Workers : Active(w) => job[w] # t
    /\ \A w \in Workers : Active(w) => job[w] \in Tasks /\ store[job[w]] = "running"
    /\ \A w \in Workers : pc[w] = "start" => runs[job[w]] = 0
    /\ \A t \in Tasks : caller[t] = NotBound => store[t] = "absent" /\ runs[t] = 0

\* The token travels with the call, and a thread that runs no agent has nothing
\* bound: what the finally clause resets to is always the default.
Identity ==
    /\ \A c \in loop : c.token = caller[c.task]
    /\ \A i \in 1..Len(queue) : queue[i].token = caller[queue[i].task]
    /\ \A w \in Workers : Active(w) => arg[w] = caller[job[w]]
    /\ \A w \in Workers : pc[w] \in {"idle", "start"} =>
        /\ tokVar[w] = NoToken /\ tokCtx[w] = NotBound
        /\ ridVar[w] = NoTask  /\ ridCtx[w] = NotBound
    /\ \A w \in Workers : pc[w] \in {"invoke", "save", "finally"} =>
        /\ tokVar[w] = arg[w]
        /\ tokCtx[w] = IF arg[w] = NoToken THEN NotBound ELSE NoToken
        /\ ridVar[w] = job[w] /\ ridCtx[w] = NoTask

\* While the agent runs, and while its outcome is saved, the thread's ContextVars
\* hold the token and the request id of the very request that created the task,
\* and no token when that request sent none: pool threads are reused, and what an
\* earlier task bound must not reach the next one (a2a_worker.py:88-131).
RunsAsCaller ==
    \A w \in Workers : pc[w] \in {"invoke", "save"} =>
        /\ tokVar[w] = caller[job[w]]
        /\ ridVar[w] = job[w]

\* An agent is invoked at most once for a task, whatever crashes, restarts and
\* failed updates do to its record: agents have side effects.
AtMostOneRun == \A t \in Tasks : runs[t] <= 1

\* The stations of a task, in their order: accepted, scheduled, taken from the
\* queue, the agent invoked, the agent back, done with (or lost with a process).
On(t, places) == \E w \in Workers : job[w] = t /\ pc[w] \in places

Accepted  == {t \in Tasks : caller[t] # NotBound}
Scheduled == {t \in Accepted : ~Pending(t)}
Taken     == {t \in Scheduled : ~Queued(t)}
Begun     == {t \in Taken : ~On(t, {"start"})}
Returned  == {t \in Begun : ~On(t, {"invoke"})}
Done      == {t \in Returned : ~On(t, {"save"})}

\* No step, a crash and a restart included, takes a task back to a station it
\* passed, and no call is overtaken in the queue: nothing re-submits, retries or
\* re-opens a task (a2a_worker.py:57-72, main.py:264-283), which is the part of
\* EventuallyTerminal that a single step could break.
NoStepBack ==
    [][ /\ Accepted \subseteq Accepted'
        /\ Scheduled \subseteq Scheduled'
        /\ Taken \subseteq Taken'
        /\ Begun \subseteq Begun'
        /\ Returned \subseteq Returned'
        /\ Done \subseteq Done'
        /\ \A i \in 1..Len(queue), j \in 1..Len(queue') :
            queue'[j].task = queue[i].task => j <= i ]_vars

\* A final status, whether in the store or polled earlier, comes from exactly one
\* run of the agent, and nothing works on the task any more: the agent has no
\* effects after the answer (a2a_worker.py:104-126).
FinalMeansOver ==
    \A t \in Tasks :
        store[t] \in Terminal \/ seen[t] \in Terminal => t \in Done /\ runs[t] = 1

\* While its process lives, a task that is running in the store is on its way:
\* between accept and schedule, in the queue, or on a thread.  Neither a graceful
\* shutdown nor a full pool strands one, nor what happened to earlier processes;
\* only a raising get_task or update_task may (a2a_worker.py:48-63).
NothingStranded ==
    faults = 0 =>
        \A t \in mine : store[t] = "running" =>
            \/ Pending(t)
            \/ Queued(t)
            \/ \E w \in Workers : Active(w) /\ job[w] = t

\* The record of a task in the file, whether or not this process uses the file.
FileRecord(t) == IF fellBack THEN hidden[t] ELSE store[t]

\* With the file store configured, a final status once polled is never revised: a
\* later poll gives the same or a 404.  What was accepted into the file stays there
\* with the status that was polled, so that the 404 is left to tasks accepted, or
\* polled, while a process had fallen back to memory (main.py:264-274).
PolledAnswerStands ==
    Durable => \A t \in Tasks :
        /\ seen[t] \in Terminal => store[t] \in {seen[t], "absent"}
        /\ t \in filed => FileRecord(t) # "absent"
        /\ t \in filed /\ seen[t] \in Terminal => FileRecord(t) = seen[t]

\* The pool and the store keep the contract's promise: accepted once, running,
\* then one outcome that no later step revises; records are forgotten only with a
\* memory store's process, and hidden only while the file is not in use
\* (a2a_worker.py:75-131, main.py:264-274).
Promise == INSTANCE TaskPromise WITH status <- store

ImplementsPromise == Promise!Spec

\* The worker "updates the task store to completed / input_needed / error"
\* (a2a_worker.py:4-5): a task whose id a client has is not left running for as
\* long as the process that accepted it lives.
FinishesInItsProcess ==
    \A t \in Tasks :
        (t \in acked \cap mine /\ store[t] = "running")
            ~> (store[t] \in Terminal \/ t \notin mine)

\* "Poll an async A2A task until completed / input_needed / error"
\* (routes.py:425): a task whose id a client polls while it is running reaches
\* a final status.
EventuallyTerminal ==
    \A t \in Tasks :
        (t \in acked /\ store[t] = "running") ~> (store[t] \in Terminal)
==============================================================================================
