---------------------------- MODULE A2ATasksProofs ----------------------------
(***************************************************************************)
(* Theorems about A2ATasks for every set of tasks, pool size, set of       *)
(* tokens, store kind and bound on crashes and raising updates.            *)
(***************************************************************************)
EXTENDS A2ATasks, TLAPS

\* A well-typed thread that moves and well-typed records it writes stay typed.
LEMMA InitTyped == Init => TypeOK
<1> SUFFICES ASSUME Init PROVE TypeOK
  OBVIOUS
<1>1. NoRecords \in [Tasks -> Statuses \cup {"absent"}]
  BY DEF NoRecords
<1>2. /\ store \in [Tasks -> Statuses \cup {"absent"}]
      /\ hidden \in [Tasks -> Statuses \cup {"absent"}]
  BY <1>1 DEF Init
<1>3. /\ server = "down" /\ loop \subseteq Calls /\ queue \in Seq(Calls)
      /\ acked \subseteq Tasks /\ mine \subseteq Tasks /\ filed \subseteq Tasks
      /\ crashes \in 0..MaxCrashes /\ faults \in 0..MaxFaults /\ fallbacks \in 0..MaxFallbacks
  BY BoundsAssumption DEF Init
<1>4. fellBack \in BOOLEAN
  BY Zenon DEF Init
<1> QED
  BY <1>2, <1>3, <1>4 DEF Init, TypeOK, RidValues, TokenArgs, Statuses, Terminal

\* The event loop's steps keep the types.
LEMMA EventLoopTyped == TypeOK /\ EventLoop => TypeOK'
<1> SUFFICES ASSUME TypeOK, EventLoop PROVE TypeOK'
  OBVIOUS
<1> USE DEF TypeOK, threads, binding, history, origin, reserve, limits
<1>1. ASSUME NEW t \in Tasks, NEW tok \in TokenArgs, AcceptTask(t, tok)
      PROVE  TypeOK'
  <2>1. [task |-> t, token |-> tok] \in Calls
    BY DEF Calls
  <2> QED
    BY <1>1, <2>1 DEF AcceptTask, Statuses
<1>2. ASSUME ScheduleAgentTask PROVE TypeOK'
  <2> PICK call \in loop :
        /\ queue' = Append(queue, call)
        /\ acked' = acked \cup {call.task}
        /\ loop' = {}
        /\ UNCHANGED <<store, server, threads, caller, runs, seen, origin, reserve, limits>>
    BY <1>2 DEF ScheduleAgentTask
  <2>1. call \in Calls /\ call.task \in Tasks
    BY DEF Calls
  <2> QED
    BY <2>1
<1>3. ASSUME ShutdownA2AWorkers PROVE TypeOK'
  BY <1>3 DEF ShutdownA2AWorkers
<1> QED
  BY <1>1, <1>2, <1>3 DEF EventLoop

\* So do the steps of a pool thread,
LEMMA RunAgentTaskTyped ==
  ASSUME TypeOK, NEW w \in Workers, RunAgentTask(w) \/ StoreRaises(w),
         Active(w) => job[w] \in Tasks
  PROVE  TypeOK'
<1> USE DEF TypeOK, threads, binding, history, origin, reserve, limits, Active
<1>1. ASSUME PickTask(w) PROVE TypeOK'
  <2> DEFINE call == Head(queue)
  <2>1. queue # << >> /\ call \in Calls /\ Tail(queue) \in Seq(Calls)
    BY <1>1 DEF PickTask
  <2>2. call.task \in Tasks /\ call.token \in TokenArgs
    BY <2>1 DEF Calls
  <2> HIDE DEF call
  <2>3. job' \in [Workers -> RidValues] /\ arg' \in [Workers -> TokenArgs]
    BY <1>1, <2>2 DEF PickTask, call, RidValues, TokenArgs
  <2>4. pc' \in [Workers -> {"idle", "start", "invoke", "save", "finally"}]
    BY <1>1 DEF PickTask
  <2> QED
    BY <1>1, <2>1, <2>3, <2>4 DEF PickTask
<1>2. ASSUME StartTask(w) PROVE TypeOK'
  <2>1. tokVar' \in [Workers -> TokenArgs] /\ tokCtx' \in [Workers -> TokenArgs \cup {NotBound}]
    BY <1>2, ZenonT(40) DEF StartTask, BindToken
  <2>2. ridVar' \in [Workers -> RidValues] /\ ridCtx' \in [Workers -> RidValues \cup {NotBound}]
    BY <1>2 DEF StartTask, BindRequestId
  <2>3. store' \in [Tasks -> Statuses \cup {"absent"}] /\ runs' \in [Tasks -> Nat]
    BY <1>2 DEF StartTask, Statuses
  <2>4. pc' \in [Workers -> {"idle", "start", "invoke", "save", "finally"}]
    BY <1>2 DEF StartTask
  <2> QED
    BY <1>2, <2>1, <2>2, <2>3, <2>4 DEF StartTask
<1>3. ASSUME StartTaskRaises(w) PROVE TypeOK'
  BY <1>3, BoundsAssumption DEF StartTaskRaises, RidValues, TokenArgs
<1>4. ASSUME AgentReturns(w) PROVE TypeOK'
  BY <1>4 DEF AgentReturns, Outcomes, Statuses
<1>5. ASSUME SaveOutcome(w) PROVE TypeOK'
  BY <1>5 DEF SaveOutcome
<1>6. ASSUME SaveOutcomeRaises(w) PROVE TypeOK'
  <2>1. outcome' \in [Workers -> Statuses]
    BY <1>6 DEF SaveOutcomeRaises, Statuses, Terminal
  <2>2. pc' \in [Workers -> {"idle", "start", "invoke", "save", "finally"}]
    <3>1. pc' = pc \/ pc' = [pc EXCEPT ![w] = "finally"]
      BY <1>6 DEF SaveOutcomeRaises
    <3> QED
      BY <3>1
  <2>3. faults' \in 0..MaxFaults
    BY <1>6, BoundsAssumption DEF SaveOutcomeRaises
  <2> QED
    BY <1>6, <2>1, <2>2, <2>3 DEF SaveOutcomeRaises
<1>7. ASSUME FinishCall(w) PROVE TypeOK'
  <2>1. tokVar' \in [Workers -> TokenArgs] /\ tokCtx' \in [Workers -> TokenArgs \cup {NotBound}]
    BY <1>7 DEF FinishCall, ResetToken
  <2>2. ridVar' \in [Workers -> RidValues] /\ ridCtx' \in [Workers -> RidValues \cup {NotBound}]
    BY <1>7 DEF FinishCall, ResetRequestId
  <2>3. job' \in [Workers -> RidValues] /\ arg' \in [Workers -> TokenArgs]
    BY <1>7 DEF FinishCall, RidValues, TokenArgs
  <2>4. outcome' \in [Workers -> Statuses]
    BY <1>7 DEF FinishCall, Statuses
  <2>5. pc' \in [Workers -> {"idle", "start", "invoke", "save", "finally"}]
    BY <1>7 DEF FinishCall
  <2> QED
    BY <1>7, <2>1, <2>2, <2>3, <2>4, <2>5 DEF FinishCall
<1>8. ASSUME PickTaskRaises(w) PROVE TypeOK'
  <2>1. Tail(queue) \in Seq(Calls)
    BY <1>8 DEF PickTaskRaises
  <2> QED
    BY <1>8, <2>1, BoundsAssumption DEF PickTaskRaises
<1> QED
  BY <1>1, <1>2, <1>3, <1>4, <1>5, <1>6, <1>7, <1>8 DEF RunAgentTask, StoreRaises

\* and the end, crash and restart of the process.
LEMMA ProcessTyped ==
  TypeOK /\ (ProcessStep \/ \E t \in Tasks : GetA2ATask(t)) => TypeOK'
<1> SUFFICES ASSUME TypeOK, ProcessStep \/ \E t \in Tasks : GetA2ATask(t)
             PROVE  TypeOK'
  OBVIOUS
<1> USE DEF TypeOK, threads, binding, history, origin, reserve, limits
<1>1. ASSUME ProcessEnds, crashes' \in 0..MaxCrashes, UNCHANGED <<faults, fallbacks>>
      PROVE  TypeOK'
  <2>1. NoRecords \in [Tasks -> Statuses \cup {"absent"}]
    BY DEF NoRecords
  <2>2. /\ store' \in [Tasks -> Statuses \cup {"absent"}]
        /\ hidden' \in [Tasks -> Statuses \cup {"absent"}]
    BY <1>1, <2>1 DEF ProcessEnds
  <2>3. /\ pc' \in [Workers -> {"idle", "start", "invoke", "save", "finally"}]
        /\ job' \in [Workers -> RidValues]
        /\ arg' \in [Workers -> TokenArgs]
        /\ outcome' \in [Workers -> Statuses]
    BY <1>1 DEF ProcessEnds, FreshThreads, RidValues, TokenArgs, Statuses
  <2>4. /\ tokVar' \in [Workers -> TokenArgs]
        /\ tokCtx' \in [Workers -> TokenArgs \cup {NotBound}]
        /\ ridVar' \in [Workers -> RidValues]
        /\ ridCtx' \in [Workers -> RidValues \cup {NotBound}]
    BY <1>1 DEF ProcessEnds, FreshThreads, RidValues, TokenArgs
  <2>5. /\ server' = "down" /\ loop' \subseteq Calls
        /\ queue' \in Seq(Calls) /\ mine' \subseteq Tasks
        /\ UNCHANGED <<caller, runs, acked, seen, filed>>
    BY <1>1 DEF ProcessEnds
  <2>6. fellBack' \in BOOLEAN
    BY <1>1, Zenon DEF ProcessEnds
  <2> QED
    BY <1>1, <2>2, <2>3, <2>4, <2>5, <2>6
<1>2. ASSUME Exit PROVE TypeOK'
  BY <1>1, <1>2 DEF Exit
<1>3. ASSUME Crash PROVE TypeOK'
  BY <1>1, <1>3, BoundsAssumption DEF Crash
<1>4. ASSUME Restart PROVE TypeOK'
  BY <1>4 DEF Restart
<1>5. ASSUME RestartInMemory PROVE TypeOK'
  BY <1>5, BoundsAssumption DEF RestartInMemory, NoRecords
<1>6. ASSUME NEW t \in Tasks, GetA2ATask(t) PROVE TypeOK'
  BY <1>6 DEF GetA2ATask, Statuses
<1> QED
  BY <1>2, <1>3, <1>4, <1>5, <1>6 DEF ProcessStep

-------------------------------------------------------------------------------
(* Between two processes, and while the file is not in use. *)

\* A process that is down has nothing in memory; records are hidden only while
\* a process does without the file, and are those of accepted tasks.
Standby ==
    /\ server = "down" => loop = {} /\ queue = << >> /\ AllIdle /\ ~fellBack
    /\ fellBack => Durable
    /\ ~fellBack => hidden = NoRecords
    /\ \A t \in Tasks : caller[t] = NotBound => hidden[t] = "absent"

\* The first process has not started yet.
LEMMA InitStandby == Init => Standby
  BY DEF Init, Standby, AllIdle, NoRecords

\* A step keeps that: only the end of a process empties it, and only the start of
\* one hides records.
LEMMA StandbyStep ==
  TypeOK /\ Standby /\ OnePlace /\ [Next]_vars => Standby'
<1> SUFFICES ASSUME TypeOK, Standby, OnePlace, [Next]_vars PROVE Standby'
  OBVIOUS
<1> USE DEF Standby, AllIdle, threads, history, origin, reserve, limits
<1>1. CASE EventLoop
  <2>1. server' # "down" \/ server' = server
    BY <1>1 DEF EventLoop, AcceptTask, ScheduleAgentTask, ShutdownA2AWorkers
  <2>2. UNCHANGED <<hidden, fellBack>>
    BY <1>1 DEF EventLoop, AcceptTask, ScheduleAgentTask, ShutdownA2AWorkers
  <2>3. \A t \in Tasks : caller'[t] = NotBound => caller[t] = NotBound
    BY <1>1 DEF EventLoop, AcceptTask, ScheduleAgentTask, ShutdownA2AWorkers, TypeOK
  <2>4. ScheduleAgentTask => loop # {}
    BY DEF ScheduleAgentTask
  <2>5. server' = "down" => loop' = {} /\ queue' = << >> /\ AllIdle'
    BY <1>1, <2>4 DEF EventLoop, AcceptTask, ShutdownA2AWorkers, ScheduleAgentTask
  <2> QED
    BY <2>1, <2>2, <2>3, <2>5
<1>2. ASSUME NEW w \in Workers, RunAgentTask(w) \/ StoreRaises(w) PROVE Standby'
  <2>1. server # "down" /\ UNCHANGED <<server, hidden, fellBack, caller>>
    BY <1>2 DEF RunAgentTask, StoreRaises, PickTask, StartTask, PickTaskRaises,
                StartTaskRaises, AgentReturns, SaveOutcome, SaveOutcomeRaises, FinishCall
  <2> QED
    BY <2>1
<1>3. ASSUME ProcessEnds PROVE Standby'
  BY <1>3 DEF ProcessEnds, FreshThreads, NoRecords
<1>4. CASE Restart \/ \E t \in Tasks : GetA2ATask(t)
  BY <1>4 DEF Restart, GetA2ATask
<1>5. CASE RestartInMemory
  BY <1>5 DEF RestartInMemory, OnePlace
<1>6. CASE UNCHANGED vars
  BY <1>6 DEF vars
<1> QED
  BY <1>1, <1>2, <1>3, <1>4, <1>5, <1>6 DEF Next, ProcessStep, Exit, Crash
-------------------------------------------------------------------------------
(* One place per task. *)

\* No task exists at first.
LEMMA InitOnePlace == Init => OnePlace
  BY DEF Init, NoRecords, OnePlace, Pending, Queued, Active

\* What appending to, and taking from, a queue does to its indices.
LEMMA AppendIndices ==
  ASSUME NEW S, NEW q \in Seq(S), NEW e \in S
  PROVE  /\ Len(Append(q, e)) = Len(q) + 1
         /\ Len(q) \in Nat
         /\ \A i \in 1..Len(q) : Append(q, e)[i] = q[i]
         /\ Append(q, e)[Len(q) + 1] = e
  OBVIOUS

\* The tail holds what the queue held from its second place on.
LEMMA TailIndices ==
  ASSUME NEW S, NEW q \in Seq(S), q # << >>
  PROVE  /\ Len(q) \in Nat /\ Len(q) >= 1
         /\ q[1] \in S /\ Head(q) = q[1]
         /\ Len(Tail(q)) = Len(q) - 1
         /\ \A i \in 1..Len(Tail(q)) : i + 1 \in 1..Len(q) /\ Tail(q)[i] = q[i + 1]
         /\ \A i \in 2..Len(q) : i - 1 \in 1..Len(Tail(q)) /\ Tail(q)[i - 1] = q[i]
  OBVIOUS

\* A call that is taken from the queue has a running record, so a thread starts it.
LEMMA PickedIsKnown ==
  ASSUME TypeOK, OnePlace, NEW w \in Workers, PickTask(w)
  PROVE  /\ queue \in Seq(Calls) /\ queue # << >>
         /\ queue[1].task \in Tasks /\ Queued(queue[1].task)
         /\ queue' = Tail(queue)
         /\ pc[w] = "idle" /\ pc' = [pc EXCEPT ![w] = "start"]
         /\ job' = [job EXCEPT ![w] = queue[1].task]
         /\ arg' = [arg EXCEPT ![w] = queue[1].token]
         /\ UNCHANGED <<store, loop, caller, runs, mine>>
<1>1. queue \in Seq(Calls) /\ queue # << >> /\ queue' = Tail(queue) /\ pc[w] = "idle"
  BY DEF PickTask, TypeOK
<1>2. queue[1] \in Calls /\ Head(queue) = queue[1] /\ 1 \in 1..Len(queue)
  BY <1>1, TailIndices
<1>3. queue[1].task \in Tasks
  BY <1>2 DEF Calls
<1>4. Queued(queue[1].task)
  BY <1>2 DEF Queued
<1>5. store[queue[1].task] # "absent"
  BY <1>3, <1>4 DEF OnePlace
<1> QED
  BY <1>1, <1>2, <1>3, <1>4, <1>5 DEF PickTask, history, origin

\* Accepting fills a place, scheduling moves it to the end of the queue.
LEMMA EventLoopOnePlace == TypeOK /\ OnePlace /\ EventLoop => OnePlace'
<1> SUFFICES ASSUME TypeOK, OnePlace, EventLoop PROVE OnePlace'
  OBVIOUS
<1> USE DEF TypeOK, OnePlace, Pending, Queued, Active, threads, history
<1>1. ASSUME NEW t \in Tasks, NEW tok \in TokenArgs, AcceptTask(t, tok)
      PROVE  OnePlace'
  <2>1. /\ tok # NotBound /\ caller[t] = NotBound /\ loop = {}
        /\ store' = [store EXCEPT ![t] = "running"]
        /\ loop' = {[task |-> t, token |-> tok]}
        /\ caller' = [caller EXCEPT ![t] = tok]
        /\ UNCHANGED <<queue, pc, job, runs>>
    BY <1>1, SentinelAssumption DEF AcceptTask, TokenArgs
  <2>2. store[t] = "absent" /\ runs[t] = 0
    BY <2>1
  <2> QED
    BY <2>1, <2>2
<1>2. ASSUME ScheduleAgentTask PROVE OnePlace'
  <2> PICK call \in loop :
        /\ queue' = Append(queue, call)
        /\ acked' = acked \cup {call.task}
        /\ loop' = {}
        /\ UNCHANGED <<store, server, threads, caller, runs, seen, origin, reserve, limits>>
    BY <1>2 DEF ScheduleAgentTask
  <2>1. call \in Calls /\ call.task \in Tasks /\ Pending(call.task)
    BY DEF Calls
  <2>2. /\ Len(queue') = Len(queue) + 1 /\ Len(queue) \in Nat
        /\ \A i \in 1..Len(queue) : queue'[i] = queue[i]
        /\ queue'[Len(queue) + 1] = call
    BY <2>1, AppendIndices
  <2>3. \A i \in 1..Len(queue) : queue[i].task # call.task
    BY <2>1, ZenonT(40)
  <2>4. \A i, j \in 1..Len(queue') : queue'[i].task = queue'[j].task => i = j
    BY <2>2, <2>3
  <2>5. \A t \in Tasks : Queued(t)' => Queued(t) \/ Pending(t)
    BY <2>1, <2>2
  <2>6. \A t \in Tasks : ~Pending(t)'
    OBVIOUS
  <2>7. \A v \in Workers : Active(v)' <=> Active(v)
    OBVIOUS
  <2>8. UNCHANGED <<store, caller, runs, job, pc>> /\ loop' = {}
    OBVIOUS
  <2> HIDE DEF TypeOK, Active, Pending, Queued
  <2> QED
    BY <2>4, <2>5, <2>6, <2>7, <2>8
<1>3. ASSUME ShutdownA2AWorkers PROVE OnePlace'
  BY <1>3 DEF ShutdownA2AWorkers
<1> QED
  BY <1>1, <1>2, <1>3 DEF EventLoop

\* A thread takes what the queue's head gives up.
LEMMA RunAgentTaskOnePlace ==
  ASSUME TypeOK, OnePlace, NEW w \in Workers, RunAgentTask(w) \/ StoreRaises(w)
  PROVE  OnePlace'
<1> USE DEF TypeOK, OnePlace, Pending, Queued, Active, threads, history
<1>1. ASSUME PickTask(w) PROVE OnePlace'
  <2> DEFINE call == queue[1]
  <2>1. /\ queue \in Seq(Calls) /\ queue # << >> /\ queue' = Tail(queue)
        /\ call.task \in Tasks /\ Queued(call.task)
        /\ pc' = [pc EXCEPT ![w] = "start"]
        /\ job' = [job EXCEPT ![w] = call.task]
        /\ UNCHANGED <<store, loop, caller, runs>>
    BY <1>1, PickedIsKnown
  <2>2. /\ call = queue[1]
        /\ Len(queue) \in Nat /\ Len(queue) >= 1 /\ Len(queue') = Len(queue) - 1
        /\ \A i \in 1..Len(queue') : i + 1 \in 1..Len(queue) /\ queue'[i] = queue[i + 1]
    BY <2>1, TailIndices
  <2> HIDE DEF call
  <2>3. \A t \in Tasks : Queued(t)' => Queued(t) /\ t # call.task
    <3> SUFFICES ASSUME NEW t \in Tasks, NEW i \in 1..Len(queue'), queue'[i].task = t
                 PROVE  Queued(t) /\ t # call.task
      BY DEF Queued
    <3>1. i + 1 \in 1..Len(queue) /\ queue[i + 1].task = t /\ 1 \in 1..Len(queue) /\ i + 1 # 1
      BY <2>2
    <3> QED
      BY <2>2, <3>1
  <2>4. \A i, j \in 1..Len(queue') : queue'[i].task = queue'[j].task => i = j
    BY <2>1, <2>2
  <2>5. \A v \in Workers : Active(v) => job[v] # call.task
    BY <2>1
  <2>6. \A u, v \in Workers : Active(u)' /\ Active(v)' /\ job'[u] = job'[v] => u = v
    BY <2>1, <2>5
  <2>7. \A t \in Tasks : ~(Pending(t) /\ Queued(t))'
    BY <2>1, <2>3
  <2>8. \A t \in Tasks : Pending(t)' \/ Queued(t)' =>
            /\ store'[t] = "running"
            /\ runs'[t] = 0
            /\ \A v \in Workers : Active(v)' => job'[v] # t
    <3> SUFFICES ASSUME NEW t \in Tasks, Pending(t)' \/ Queued(t)'
                 PROVE  /\ store'[t] = "running"
                        /\ runs'[t] = 0
                        /\ \A v \in Workers : Active(v)' => job'[v] # t
      OBVIOUS
    <3>1. Pending(t)' => Pending(t)
      BY <2>1
    <3>2. Pending(t) \/ Queued(t)
      BY <2>3, <3>1
    <3>3. Pending(t) => t # call.task
      BY <2>1
    <3>4. t # call.task
      BY <2>3, <3>1, <3>3
    <3> QED
      BY <2>1, <3>2, <3>4
  <2>9. \A v \in Workers : Active(v)' => job'[v] \in Tasks /\ store'[job'[v]] = "running"
    BY <2>1
  <2>10. \A v \in Workers : pc'[v] = "start" => runs'[job'[v]] = 0
    BY <2>1
  <2> QED
    BY <2>1, <2>4, <2>6, <2>7, <2>8, <2>9, <2>10
<1>2. ASSUME StartTask(w) PROVE OnePlace'
  <2>1. /\ pc[w] = "start" /\ pc' = [pc EXCEPT ![w] = "invoke"]
        /\ runs' = [runs EXCEPT ![job[w]] = @ + 1]
        /\ UNCHANGED <<loop, queue, job, caller>>
    BY <1>2 DEF StartTask
  <2>2. job[w] \in Tasks /\ store[job[w]] = "running"
    BY <2>1
  <2>3. store' = store
    BY <1>2, <2>2 DEF StartTask
  <2>4. \A v \in Workers : Active(v)' <=> Active(v)
    BY <2>1
  <2>5. \A t \in Tasks : (Pending(t) \/ Queued(t) \/ caller[t] = NotBound) => runs'[t] = runs[t]
    <3>1. \A t \in Tasks : (Pending(t) \/ Queued(t)) => job[w] # t
      BY <2>1
    <3>2. \A t \in Tasks : caller[t] = NotBound => job[w] # t
      BY <2>2
    <3>3. \A t \in Tasks : job[w] # t => runs'[t] = runs[t]
      BY <2>1
    <3> QED
      BY <3>1, <3>2, <3>3
  <2>6. \A v \in Workers : pc'[v] = "start" => pc[v] = "start" /\ job[v] # job[w]
    BY <2>1
  <2>7. \A v \in Workers : pc'[v] = "start" => runs'[job[v]] = 0
    BY <2>1, <2>6
  <2> HIDE DEF TypeOK, Active, Pending, Queued
  <2> QED
    BY <2>1, <2>3, <2>4, <2>5, <2>7 DEF Pending, Queued
<1>3. ASSUME StartTaskRaises(w) PROVE OnePlace'
  BY <1>3 DEF StartTaskRaises
<1>4. ASSUME AgentReturns(w) PROVE OnePlace'
  BY <1>4 DEF AgentReturns
<1>5. ASSUME SaveOutcome(w) PROVE OnePlace'
  BY <1>5 DEF SaveOutcome
<1>6. ASSUME SaveOutcomeRaises(w) PROVE OnePlace'
  <2>1. UNCHANGED <<store, loop, queue, job, caller, runs>>
    BY <1>6 DEF SaveOutcomeRaises
  <2>2. pc[w] = "save" /\ (pc' = pc \/ pc' = [pc EXCEPT ![w] = "finally"])
    BY <1>6 DEF SaveOutcomeRaises
  <2>3. \A v \in Workers : (Active(v)' => Active(v)) /\ (pc'[v] = "start" => pc[v] = "start")
    BY <2>2
  <2> HIDE DEF Active, TypeOK
  <2> QED
    BY <2>1, <2>3
<1>7. ASSUME FinishCall(w) PROVE OnePlace'
  BY <1>7 DEF FinishCall
<1>8. ASSUME PickTaskRaises(w) PROVE OnePlace'
  <2>1. /\ queue \in Seq(Calls) /\ queue # << >> /\ queue' = Tail(queue)
        /\ UNCHANGED <<store, loop, caller, runs, pc, job>>
    BY <1>8 DEF PickTaskRaises
  <2>2. /\ Len(queue) \in Nat /\ Len(queue) >= 1 /\ Len(queue') = Len(queue) - 1
        /\ \A i \in 1..Len(queue') : i + 1 \in 1..Len(queue) /\ queue'[i] = queue[i + 1]
    BY <2>1, TailIndices
  <2>3. \A t \in Tasks : Queued(t)' => Queued(t)
    <3> SUFFICES ASSUME NEW t \in Tasks, NEW i \in 1..Len(queue'), queue'[i].task = t
                 PROVE  Queued(t)
      BY DEF Queued
    <3>1. i + 1 \in 1..Len(queue) /\ queue[i + 1].task = t
      BY <2>2
    <3> QED
      BY <3>1
  <2>4. \A i, j \in 1..Len(queue') : queue'[i].task = queue'[j].task => i = j
    BY <2>1, <2>2
  <2>5. \A t \in Tasks : Pending(t)' <=> Pending(t)
    BY <2>1
  <2>6. \A v \in Workers : Active(v)' <=> Active(v)
    BY <2>1
  <2> HIDE DEF Active, Pending, Queued, TypeOK
  <2> QED
    BY <2>1, <2>3, <2>4, <2>5, <2>6
<1> QED
  BY <1>1, <1>2, <1>3, <1>4, <1>5, <1>6, <1>7, <1>8 DEF RunAgentTask, StoreRaises

\* The end of a process empties every place.
LEMMA ProcessOnePlace ==
  TypeOK /\ Standby /\ OnePlace /\ (ProcessStep \/ \E t \in Tasks : GetA2ATask(t))
    => OnePlace'
<1> SUFFICES ASSUME TypeOK, Standby, OnePlace,
                    ProcessStep \/ \E t \in Tasks : GetA2ATask(t)
             PROVE  OnePlace'
  OBVIOUS
<1> USE DEF TypeOK, OnePlace, Pending, Queued, Active, threads, history
<1>1. ASSUME ProcessEnds PROVE OnePlace'
  <2>1. \A t \in Tasks : caller[t] = NotBound => store'[t] = "absent"
    BY <1>1 DEF ProcessEnds, NoRecords, Standby
  <2> QED
    BY <1>1, <2>1 DEF ProcessEnds, FreshThreads
<1>2. ASSUME Restart PROVE OnePlace'
  BY <1>2 DEF Restart
<1>3. ASSUME RestartInMemory PROVE OnePlace'
  <2>1. /\ loop = {} /\ queue = << >> /\ AllIdle
        /\ UNCHANGED <<loop, queue, pc, job, caller, runs>>
        /\ \A t \in Tasks : store'[t] = "absent"
    BY <1>3 DEF RestartInMemory, Standby, NoRecords
  <2> QED
    BY <2>1 DEF AllIdle
<1>4. ASSUME NEW t \in Tasks, GetA2ATask(t) PROVE OnePlace'
  <2>1. UNCHANGED <<store, loop, queue, pc, job, caller, runs>>
    BY <1>4 DEF GetA2ATask
  <2> HIDE DEF TypeOK
  <2> QED
    BY <2>1
<1> QED
  BY <1>1, <1>2, <1>3, <1>4 DEF ProcessStep, Exit, Crash
-------------------------------------------------------------------------------
(* The token travels with the call, and pool threads are left clean. *)

\* No thread runs at first.
LEMMA InitIdentity == Init => Identity
  BY DEF Init, Identity, Active

\* The event loop binds nothing on a thread.
LEMMA EventLoopIdentity ==
  TypeOK /\ OnePlace /\ Identity /\ EventLoop => Identity'
<1> SUFFICES ASSUME TypeOK, OnePlace, Identity, EventLoop PROVE Identity'
  OBVIOUS
<1> USE DEF Identity, Active, threads, binding, history, origin, reserve, limits
<1>1. ASSUME NEW t \in Tasks, NEW tok \in TokenArgs, AcceptTask(t, tok)
      PROVE  Identity'
  <2>1. store[t] = "absent" /\ store[t] # "running"
    BY <1>1 DEF AcceptTask, OnePlace
  <2>2. caller' = [caller EXCEPT ![t] = tok] /\ caller \in [Tasks -> TokenArgs \cup {NotBound}]
    BY <1>1 DEF AcceptTask, TypeOK
  <2>3. \A i \in 1..Len(queue) : queue[i] \in Calls /\ queue[i].task \in Tasks
    <3>1. \A i \in 1..Len(queue) : queue[i] \in Calls
      BY DEF TypeOK
    <3>2. \A c \in Calls : c.task \in Tasks
      BY DEF Calls
    <3> QED
      BY <3>1, <3>2
  <2>4. \A i \in 1..Len(queue) : queue[i].task # t
    BY <2>1, <2>3 DEF OnePlace, Queued
  <2>5. \A w \in Workers : Active(w) => job[w] # t
    BY <2>1 DEF OnePlace
  <2>6. \A c \in loop' : c.token = caller'[c.task]
    BY <1>1, <2>2 DEF AcceptTask
  <2>7. \A i \in 1..Len(queue') : queue'[i].token = caller'[queue'[i].task]
    BY <1>1, <2>2, <2>3, <2>4 DEF AcceptTask
  <2>8. \A w \in Workers : Active(w)' => arg'[w] = caller'[job'[w]]
    BY <1>1, <2>2, <2>5 DEF AcceptTask, OnePlace
  <2>9. UNCHANGED <<pc, job, arg, tokVar, tokCtx, ridVar, ridCtx>>
    BY <1>1 DEF AcceptTask
  <2> QED
    BY <2>6, <2>7, <2>8, <2>9
<1>2. ASSUME ScheduleAgentTask PROVE Identity'
  <2> PICK call \in loop :
        /\ queue' = Append(queue, call)
        /\ acked' = acked \cup {call.task}
        /\ loop' = {}
        /\ UNCHANGED <<store, server, threads, caller, runs, seen, origin, reserve, limits>>
    BY <1>2 DEF ScheduleAgentTask
  <2>1. call \in Calls /\ queue \in Seq(Calls)
    BY DEF TypeOK
  <2>2. /\ Len(queue') = Len(queue) + 1 /\ Len(queue) \in Nat
        /\ \A i \in 1..Len(queue) : queue'[i] = queue[i]
        /\ queue'[Len(queue) + 1] = call
    BY <2>1, AppendIndices
  <2>3. \A i \in 1..Len(queue') : queue'[i].token = caller'[queue'[i].task]
    BY <2>1, <2>2
  <2> QED
    BY <2>3
<1>3. ASSUME ShutdownA2AWorkers PROVE Identity'
  BY <1>3 DEF ShutdownA2AWorkers
<1> QED
  BY <1>1, <1>2, <1>3 DEF EventLoop

\* A thread binds what its call says, and unbinds it before it is free again.
LEMMA RunAgentTaskIdentity ==
  ASSUME TypeOK, OnePlace, Identity, NEW w \in Workers,
         RunAgentTask(w) \/ StoreRaises(w)
  PROVE  Identity'
<1> USE DEF TypeOK, Identity, Active, threads, binding, history, origin, reserve, limits
<1>1. ASSUME PickTask(w) PROVE Identity'
  <2>1. /\ queue \in Seq(Calls) /\ queue # << >> /\ queue' = Tail(queue)
        /\ UNCHANGED <<loop, caller>>
        /\ pc[w] = "idle" /\ pc' = [pc EXCEPT ![w] = "start"]
        /\ job' = [job EXCEPT ![w] = queue[1].task]
        /\ arg' = [arg EXCEPT ![w] = queue[1].token]
    BY <1>1, PickedIsKnown
  <2>2. /\ Len(queue) \in Nat /\ Len(queue) >= 1
        /\ \A i \in 1..Len(queue') : i + 1 \in 1..Len(queue) /\ queue'[i] = queue[i + 1]
    BY <2>1, TailIndices
  <2>3. queue[1].token = caller[queue[1].task]
    <3>1. 1 \in 1..Len(queue)
      BY <2>2
    <3> QED
      BY <3>1
  <2>4. UNCHANGED <<tokVar, tokCtx, ridVar, ridCtx>>
    BY <1>1 DEF PickTask
  <2>5. \A i \in 1..Len(queue') : queue'[i].token = caller'[queue'[i].task]
    BY <2>1, <2>2
  <2>6. \A v \in Workers : Active(v)' => arg'[v] = caller'[job'[v]]
    BY <2>1, <2>3
  <2> QED
    BY <2>1, <2>4, <2>5, <2>6
<1>2. ASSUME StartTask(w) PROVE Identity'
  <2>1. /\ pc[w] = "start" /\ pc' = [pc EXCEPT ![w] = "invoke"]
        /\ UNCHANGED <<loop, queue, job, arg, caller>>
    BY <1>2 DEF StartTask
  <2>2. /\ tokVar'[w] = arg[w]
        /\ tokCtx'[w] = IF arg[w] = NoToken THEN NotBound ELSE NoToken
        /\ \A v \in Workers : v # w => tokVar'[v] = tokVar[v] /\ tokCtx'[v] = tokCtx[v]
    BY <1>2, <2>1 DEF StartTask, BindToken
  <2>3. /\ ridVar'[w] = job[w] /\ ridCtx'[w] = NoTask
        /\ \A v \in Workers : v # w => ridVar'[v] = ridVar[v] /\ ridCtx'[v] = ridCtx[v]
    BY <1>2, <2>1 DEF StartTask, BindRequestId
  <2> QED
    BY <2>1, <2>2, <2>3
<1>3. ASSUME StartTaskRaises(w) PROVE Identity'
  BY <1>3 DEF StartTaskRaises
<1>4. ASSUME AgentReturns(w) PROVE Identity'
  BY <1>4 DEF AgentReturns
<1>5. ASSUME SaveOutcome(w) PROVE Identity'
  BY <1>5 DEF SaveOutcome
<1>6. ASSUME SaveOutcomeRaises(w) PROVE Identity'
  BY <1>6 DEF SaveOutcomeRaises
<1>7. ASSUME FinishCall(w) PROVE Identity'
  <2>1. /\ pc[w] = "finally" /\ pc' = [pc EXCEPT ![w] = "idle"]
        /\ job' = [job EXCEPT ![w] = NoTask] /\ arg' = [arg EXCEPT ![w] = NoToken]
        /\ UNCHANGED <<loop, queue, caller>>
    BY <1>7 DEF FinishCall
  <2>2. /\ tokVar'[w] = NoToken /\ tokCtx'[w] = NotBound
        /\ \A v \in Workers : v # w => tokVar'[v] = tokVar[v] /\ tokCtx'[v] = tokCtx[v]
    BY <1>7, <2>1, SentinelAssumption DEF FinishCall, ResetToken
  <2>3. /\ ridVar'[w] = NoTask /\ ridCtx'[w] = NotBound
        /\ \A v \in Workers : v # w => ridVar'[v] = ridVar[v] /\ ridCtx'[v] = ridCtx[v]
    BY <1>7, <2>1, SentinelAssumption DEF FinishCall, ResetRequestId
  <2> QED
    BY <2>1, <2>2, <2>3
<1>8. ASSUME PickTaskRaises(w) PROVE Identity'
  <2>1. /\ queue \in Seq(Calls) /\ queue # << >> /\ queue' = Tail(queue)
        /\ UNCHANGED <<loop, caller, pc, job, arg, tokVar, tokCtx, ridVar, ridCtx>>
    BY <1>8 DEF PickTaskRaises
  <2>2. \A i \in 1..Len(queue') : i + 1 \in 1..Len(queue) /\ queue'[i] = queue[i + 1]
    BY <2>1, TailIndices
  <2>3. \A i \in 1..Len(queue') : queue'[i].token = caller'[queue'[i].task]
    BY <2>1, <2>2
  <2> QED
    BY <2>1, <2>3
<1> QED
  BY <1>1, <1>2, <1>3, <1>4, <1>5, <1>6, <1>7, <1>8 DEF RunAgentTask, StoreRaises

\* A new process has fresh threads.
LEMMA ProcessIdentity ==
  Identity /\ (ProcessStep \/ \E t \in Tasks : GetA2ATask(t)) => Identity'
<1> SUFFICES ASSUME Identity, ProcessStep \/ \E t \in Tasks : GetA2ATask(t)
             PROVE  Identity'
  OBVIOUS
<1> USE DEF Identity, Active, threads, binding, history, origin, reserve, limits
<1>1. ASSUME ProcessEnds PROVE Identity'
  BY <1>1 DEF ProcessEnds, FreshThreads
<1>2. ASSUME Restart PROVE Identity'
  BY <1>2 DEF Restart
<1>3. ASSUME RestartInMemory PROVE Identity'
  BY <1>3 DEF RestartInMemory
<1>4. ASSUME NEW t \in Tasks, GetA2ATask(t) PROVE Identity'
  BY <1>4 DEF GetA2ATask
<1> QED
  BY <1>1, <1>2, <1>3, <1>4 DEF ProcessStep, Exit, Crash
-------------------------------------------------------------------------------
(* The inductive invariant and what follows from it. *)

IInv == TypeOK /\ Standby /\ OnePlace /\ Identity

\* Every reachable state is well typed, has each task in one place, and each
\* thread bound as its call says.
THEOREM Inductive == Spec => []IInv
<1>1. Init => IInv
  BY InitTyped, InitStandby, InitOnePlace, InitIdentity DEF IInv
<1>2. IInv /\ [Next]_vars => IInv'
  <2> SUFFICES ASSUME IInv, [Next]_vars PROVE TypeOK' /\ OnePlace' /\ Identity'
    BY StandbyStep DEF IInv
  <2>1. CASE EventLoop
    BY <2>1, EventLoopTyped, EventLoopOnePlace, EventLoopIdentity DEF IInv
  <2>2. ASSUME NEW w \in Workers, RunAgentTask(w) \/ StoreRaises(w)
        PROVE  TypeOK' /\ OnePlace' /\ Identity'
    <3>1. Active(w) => job[w] \in Tasks
      BY DEF IInv, OnePlace
    <3> QED
      BY <2>2, <3>1, RunAgentTaskTyped, RunAgentTaskOnePlace, RunAgentTaskIdentity DEF IInv
  <2>3. CASE ProcessStep \/ \E t \in Tasks : GetA2ATask(t)
    BY <2>3, ProcessTyped, ProcessOnePlace, ProcessIdentity DEF IInv
  <2>4. CASE UNCHANGED vars
    <3>1. UNCHANGED <<store, reserve, server, loop, queue, pc, job, arg, outcome,
                      tokVar, tokCtx, ridVar, ridCtx>>
      BY <2>4 DEF vars, threads, binding
    <3>2. UNCHANGED <<caller, runs, acked, seen, mine, filed, crashes, faults, fallbacks>>
      BY <2>4 DEF vars, history, origin, limits
    <3>3. TypeOK'
      BY <3>1, <3>2 DEF IInv, TypeOK, reserve
    <3>4. OnePlace'
      BY <3>1, <3>2 DEF IInv, OnePlace, Pending, Queued, Active
    <3>5. Identity'
      BY <3>1, <3>2 DEF IInv, Identity, Active
    <3> QED
      BY <3>3, <3>4, <3>5
  <2> QED
    BY <2>1, <2>2, <2>3, <2>4 DEF Next
<1> QED
  BY <1>1, <1>2, PTL DEF Spec

\* Every variable keeps its type.
THEOREM TypeCorrect == Spec => []TypeOK
<1>1. IInv => TypeOK
  BY DEF IInv
<1> QED
  BY <1>1, Inductive, PTL

\* An accepted task is in one place at a time.
THEOREM TasksInOnePlace == Spec => []OnePlace
<1>1. IInv => OnePlace
  BY DEF IInv
<1> QED
  BY <1>1, Inductive, PTL

\* The agent runs with the token and request id of the request that asked.
THEOREM AgentRunsAsCaller == Spec => []RunsAsCaller
<1>1. IInv => RunsAsCaller
  BY DEF IInv, Identity, Active, RunsAsCaller
<1> QED
  BY <1>1, Inductive, PTL
-------------------------------------------------------------------------------
(* One run per task. *)

\* Only StartTask counts a run, and the task it starts has none yet.
LEMMA RunStep == IInv /\ AtMostOneRun /\ [Next]_vars => AtMostOneRun'
<1> SUFFICES ASSUME IInv, AtMostOneRun, [Next]_vars PROVE AtMostOneRun'
  OBVIOUS
<1>1. ASSUME NEW w \in Workers, StartTask(w) PROVE AtMostOneRun'
  <2>1. runs[job[w]] = 0 /\ job[w] \in Tasks /\ runs \in [Tasks -> Nat]
    BY <1>1 DEF StartTask, IInv, OnePlace, Active, TypeOK
  <2>2. runs' = [runs EXCEPT ![job[w]] = runs[job[w]] + 1]
    BY <1>1 DEF StartTask
  <2> QED
    BY <2>1, <2>2 DEF AtMostOneRun
<1>2. CASE \A w \in Workers : ~StartTask(w)
  <2>1. runs' = runs
    <3> USE DEF history, origin
    <3>1. CASE EventLoop
      BY <3>1 DEF EventLoop, AcceptTask, ScheduleAgentTask, ShutdownA2AWorkers
    <3>2. ASSUME NEW w \in Workers, RunAgentTask(w) \/ StoreRaises(w) PROVE runs' = runs
      BY <1>2, <3>2 DEF RunAgentTask, StoreRaises, PickTask, PickTaskRaises, StartTaskRaises,
                        AgentReturns, SaveOutcome, SaveOutcomeRaises, FinishCall
    <3>3. CASE ProcessStep \/ \E t \in Tasks : GetA2ATask(t)
      BY <3>3 DEF ProcessStep, Exit, Crash, ProcessEnds, Restart, RestartInMemory, GetA2ATask
    <3>4. CASE UNCHANGED vars
      BY <3>4 DEF vars
    <3> QED
      BY <3>1, <3>2, <3>3, <3>4 DEF Next
  <2> QED
    BY <2>1 DEF AtMostOneRun
<1> QED
  BY <1>1, <1>2

\* No crash, restart or raising update makes an agent run twice for a task.
THEOREM AgentRunsAtMostOnce == Spec => []AtMostOneRun
<1>1. Init => AtMostOneRun
  BY DEF Init, AtMostOneRun
<1> QED
  BY <1>1, RunStep, Inductive, PTL DEF Spec
-------------------------------------------------------------------------------
(* No step back. *)

\* A step that takes no task back: whoever is at a station after it was there or
\* at an earlier one before it.
Arrivals ==
    /\ Accepted \subseteq Accepted'
    /\ \A t \in Accepted :
        /\ Pending(t)' => Pending(t)
        /\ Queued(t)' => Pending(t) \/ Queued(t)
        /\ On(t, {"start"})' => Queued(t) \/ On(t, {"start"})
        /\ On(t, {"invoke"})' => On(t, {"start"}) \/ On(t, {"invoke"})
        /\ On(t, {"save"})' => On(t, {"invoke"}) \/ On(t, {"save"})

InOrder ==
    \A i \in 1..Len(queue), j \in 1..Len(queue') :
        queue'[j].task = queue[i].task => j <= i

\* Such a step leaves every task beyond the stations it passed.
LEMMA ArrivalsSuffice ==
  ASSUME Arrivals
  PROVE  /\ Accepted \subseteq Accepted'
         /\ Scheduled \subseteq Scheduled'
         /\ Taken \subseteq Taken'
         /\ Begun \subseteq Begun'
         /\ Returned \subseteq Returned'
         /\ Done \subseteq Done'
<1>1. Accepted \subseteq Accepted'
  BY DEF Arrivals
<1>2. Scheduled \subseteq Scheduled'
  BY <1>1, Zenon DEF Arrivals, Scheduled, Accepted
<1>3. Taken \subseteq Taken'
  BY <1>2, Zenon DEF Arrivals, Scheduled, Taken, Accepted
<1>4. Begun \subseteq Begun'
  BY <1>3, Zenon DEF Arrivals, Scheduled, Taken, Begun, Accepted
<1>5. Returned \subseteq Returned'
  BY <1>4, Zenon DEF Arrivals, Scheduled, Taken, Begun, Returned, Accepted
<1>6. Done \subseteq Done'
  BY <1>5, Zenon DEF Arrivals, Scheduled, Taken, Begun, Returned, Done, Accepted
<1> QED
  BY <1>1, <1>2, <1>3, <1>4, <1>5, <1>6

\* A queue that keeps its calls keeps their order.
LEMMA SameQueueInOrder ==
  ASSUME TypeOK, OnePlace, queue' = queue
  PROVE  InOrder
<1> SUFFICES ASSUME NEW i \in 1..Len(queue), NEW j \in 1..Len(queue),
                    queue[j].task = queue[i].task
             PROVE  j <= i
  BY DEF InOrder
<1>1. i = j
  BY DEF OnePlace
<1>2. Len(queue) \in Nat
  BY DEF TypeOK
<1> QED
  BY <1>1, <1>2

\* So does one that loses its head.
LEMMA TailInOrder ==
  ASSUME OnePlace, Len(queue) \in Nat,
         \A i \in 1..Len(queue') : i + 1 \in 1..Len(queue) /\ queue'[i] = queue[i + 1]
  PROVE  InOrder
<1> SUFFICES ASSUME NEW i \in 1..Len(queue), NEW j \in 1..Len(queue'),
                    queue'[j].task = queue[i].task
             PROVE  j <= i
  BY DEF InOrder
<1>1. j + 1 \in 1..Len(queue) /\ queue[j + 1].task = queue[i].task
  OBVIOUS
<1>2. j + 1 = i
  BY <1>1 DEF OnePlace
<1> QED
  BY <1>2

\* The event loop moves a task only to the end of the queue.
LEMMA EventLoopForward == IInv /\ EventLoop => Arrivals /\ InOrder
<1> SUFFICES ASSUME IInv, EventLoop PROVE Arrivals /\ InOrder
  OBVIOUS
<1> USE DEF threads, binding, history, origin, reserve, limits
<1>1. ASSUME NEW t \in Tasks, NEW tok \in TokenArgs, AcceptTask(t, tok)
      PROVE  Arrivals /\ InOrder
  <2>1. /\ caller[t] = NotBound /\ caller' = [caller EXCEPT ![t] = tok]
        /\ loop' = {[task |-> t, token |-> tok]}
        /\ UNCHANGED <<queue, pc, job>>
    BY <1>1 DEF AcceptTask
  <2>2. caller \in [Tasks -> TokenArgs \cup {NotBound}] /\ tok # NotBound
    BY SentinelAssumption DEF IInv, TypeOK, TokenArgs
  <2>3. Accepted \subseteq Accepted' /\ \A u \in Accepted : u # t
    BY <2>1, <2>2 DEF Accepted
  <2>4. \A u \in Accepted : ~Pending(u)'
    BY <2>1, <2>3 DEF Pending
  <2>5. /\ \A u \in Accepted : Queued(u)' = Queued(u)
        /\ \A u \in Accepted : \A P : On(u, P)' = On(u, P)
    BY <2>1 DEF Queued, On
  <2>6. Arrivals
    BY <2>3, <2>4, <2>5 DEF Arrivals
  <2>7. InOrder
    BY <2>1, SameQueueInOrder DEF IInv
  <2> QED
    BY <2>6, <2>7
<1>2. ASSUME ScheduleAgentTask PROVE Arrivals /\ InOrder
  <2> PICK call \in loop :
        /\ queue' = Append(queue, call)
        /\ acked' = acked \cup {call.task}
        /\ loop' = {}
        /\ UNCHANGED <<store, server, threads, caller, runs, seen, origin, reserve, limits>>
    BY <1>2 DEF ScheduleAgentTask
  <2>1. call \in Calls /\ call.task \in Tasks /\ queue \in Seq(Calls)
    BY DEF IInv, TypeOK, Calls
  <2>2. /\ Len(queue') = Len(queue) + 1 /\ Len(queue) \in Nat
        /\ \A i \in 1..Len(queue) : queue'[i] = queue[i]
        /\ queue'[Len(queue) + 1] = call
    BY <2>1, AppendIndices
  <2>3. \A t \in Tasks : Queued(t)' => Pending(t) \/ Queued(t)
    BY <2>2 DEF Queued, Pending
  <2>4. /\ Accepted' = Accepted /\ \A t \in Tasks : ~Pending(t)'
        /\ \A t \in Tasks : \A P : On(t, P)' = On(t, P)
    BY DEF Accepted, Pending, On
  <2>5. Arrivals
    BY <2>3, <2>4 DEF Arrivals, Accepted
  <2>6. InOrder
    <3> SUFFICES ASSUME NEW i \in 1..Len(queue), NEW j \in 1..Len(queue'),
                        queue'[j].task = queue[i].task
                 PROVE  j <= i
      BY DEF InOrder
    <3>1. Pending(call.task) /\ Queued(queue[i].task)
      BY DEF Pending, Queued
    <3>2. queue[i].task # call.task
      BY <2>1, <3>1 DEF IInv, OnePlace
    <3>3. j # Len(queue) + 1
      BY <2>2, <3>2
    <3>4. j \in 1..Len(queue) /\ queue[j].task = queue[i].task
      BY <2>2, <3>3
    <3>5. i = j
      BY <3>4 DEF IInv, OnePlace
    <3> QED
      BY <2>2, <3>5
  <2> QED
    BY <2>5, <2>6
<1>3. ASSUME ShutdownA2AWorkers PROVE Arrivals /\ InOrder
  <2>1. UNCHANGED <<loop, queue, pc, job, caller>>
    BY <1>3 DEF ShutdownA2AWorkers
  <2>2. Arrivals
    BY <2>1 DEF Arrivals, Accepted, Pending, Queued, On
  <2> QED
    BY <2>1, <2>2, SameQueueInOrder DEF IInv
<1> QED
  BY <1>1, <1>2, <1>3 DEF EventLoop

\* A thread takes the head of the queue and carries it forward.
LEMMA RunAgentTaskForward ==
  ASSUME IInv, NEW w \in Workers, RunAgentTask(w) \/ StoreRaises(w)
  PROVE  Arrivals /\ InOrder
<1> USE DEF threads, binding, history, origin, reserve, limits
<1>1. ASSUME PickTask(w) PROVE Arrivals /\ InOrder
  <2> DEFINE call == queue[1]
  <2>1. /\ queue \in Seq(Calls) /\ queue # << >> /\ queue' = Tail(queue)
        /\ Queued(call.task)
        /\ pc[w] = "idle" /\ pc' = [pc EXCEPT ![w] = "start"]
        /\ job' = [job EXCEPT ![w] = call.task]
        /\ UNCHANGED <<loop, caller>>
    BY <1>1, PickedIsKnown DEF IInv
  <2>2. /\ Len(queue) \in Nat
        /\ \A i \in 1..Len(queue') : i + 1 \in 1..Len(queue) /\ queue'[i] = queue[i + 1]
    BY <2>1, TailIndices
  <2> HIDE DEF call
  <2>3. /\ pc \in [Workers -> {"idle", "start", "invoke", "save", "finally"}]
        /\ job \in [Workers -> RidValues]
    BY DEF IInv, TypeOK
  <2>4. \A t \in Tasks : Queued(t)' => Queued(t)
    <3> SUFFICES ASSUME NEW t \in Tasks, NEW i \in 1..Len(queue'), queue'[i].task = t
                 PROVE  Queued(t)
      BY DEF Queued
    <3>1. i + 1 \in 1..Len(queue) /\ queue[i + 1].task = t
      BY <2>2
    <3> QED
      BY <3>1 DEF Queued
  <2>5. \A t \in Tasks : On(t, {"start"})' => Queued(t) \/ On(t, {"start"})
    BY <2>1, <2>3 DEF On
  <2>6. \A t \in Tasks : /\ On(t, {"invoke"})' => On(t, {"invoke"})
                         /\ On(t, {"save"})' => On(t, {"save"})
    BY <2>1, <2>3 DEF On
  <2>7. Arrivals
    BY <2>1, <2>4, <2>5, <2>6 DEF Arrivals, Accepted, Pending
  <2>8. InOrder
    BY <2>2, TailInOrder DEF IInv
  <2> QED
    BY <2>7, <2>8
<1>2. ASSUME pc[w] # "idle", UNCHANGED <<loop, queue, caller>>,
             NEW next \in {"idle", "invoke", "save", "finally"},
             pc' = [pc EXCEPT ![w] = next],
             next = "invoke" => pc[w] = "start",
             next = "save" => pc[w] \in {"invoke", "save"},
             job' = job \/ (next = "idle" /\ job' = [job EXCEPT ![w] = NoTask])
      PROVE  Arrivals /\ InOrder
  <2>1. /\ pc \in [Workers -> {"idle", "start", "invoke", "save", "finally"}]
        /\ job \in [Workers -> RidValues]
    BY DEF IInv, TypeOK
  <2>2. \A v \in Workers : v # w => pc'[v] = pc[v] /\ job'[v] = job[v]
    BY <1>2, <2>1
  <2>3. pc'[w] = next /\ (next # "idle" => job'[w] = job[w])
    BY <1>2, <2>1
  <2>4. \A t \in Tasks : /\ On(t, {"start"})' => On(t, {"start"})
                         /\ On(t, {"invoke"})' => On(t, {"start"}) \/ On(t, {"invoke"})
                         /\ On(t, {"save"})' => On(t, {"invoke"}) \/ On(t, {"save"})
    BY <1>2, <2>2, <2>3 DEF On
  <2>5. Arrivals
    BY <1>2, <2>4 DEF Arrivals, Accepted, Pending, Queued
  <2> QED
    BY <1>2, <2>5, SameQueueInOrder DEF IInv
<1>3. ASSUME StartTask(w) PROVE Arrivals /\ InOrder
  BY <1>2, <1>3 DEF StartTask
<1>4. ASSUME StartTaskRaises(w) PROVE Arrivals /\ InOrder
  BY <1>2, <1>4 DEF StartTaskRaises
<1>5. ASSUME AgentReturns(w) PROVE Arrivals /\ InOrder
  BY <1>2, <1>5 DEF AgentReturns
<1>6. ASSUME SaveOutcome(w) PROVE Arrivals /\ InOrder
  BY <1>2, <1>6 DEF SaveOutcome
<1>7. ASSUME SaveOutcomeRaises(w) PROVE Arrivals /\ InOrder
  <2>1. \E next \in {"save", "finally"} : pc' = [pc EXCEPT ![w] = next]
    BY <1>7 DEF SaveOutcomeRaises, IInv, TypeOK
  <2> QED
    BY <1>2, <1>7, <2>1 DEF SaveOutcomeRaises
<1>8. ASSUME FinishCall(w) PROVE Arrivals /\ InOrder
  BY <1>2, <1>8 DEF FinishCall
<1>9. ASSUME PickTaskRaises(w) PROVE Arrivals /\ InOrder
  <2>1. /\ queue \in Seq(Calls) /\ queue # << >> /\ queue' = Tail(queue)
        /\ UNCHANGED <<loop, caller, pc, job>>
    BY <1>9 DEF PickTaskRaises, IInv, TypeOK
  <2>2. /\ Len(queue) \in Nat
        /\ \A i \in 1..Len(queue') : i + 1 \in 1..Len(queue) /\ queue'[i] = queue[i + 1]
    BY <2>1, TailIndices
  <2>3. \A t \in Tasks : Queued(t)' => Queued(t)
    BY <2>2 DEF Queued
  <2>4. Arrivals
    BY <2>1, <2>3 DEF Arrivals, Accepted, Pending, On
  <2>5. InOrder
    BY <2>2, TailInOrder DEF IInv
  <2> QED
    BY <2>4, <2>5
<1> QED
  BY <1>1, <1>3, <1>4, <1>5, <1>6, <1>7, <1>8, <1>9 DEF RunAgentTask, StoreRaises

\* The end of a process loses its tasks, and no later process takes them up.
LEMMA ProcessForward ==
  ASSUME IInv, ProcessStep \/ (\E t \in Tasks : GetA2ATask(t)) \/ UNCHANGED vars
  PROVE  Arrivals /\ InOrder
<1> USE DEF threads, binding, history, origin, reserve, limits
<1>1. ASSUME ProcessEnds PROVE Arrivals /\ InOrder
  BY <1>1 DEF ProcessEnds, FreshThreads, Arrivals, InOrder, Accepted, Pending, Queued, On
<1>2. ASSUME UNCHANGED <<loop, queue, pc, job, caller>> PROVE Arrivals /\ InOrder
  <2>1. Arrivals
    BY <1>2 DEF Arrivals, Accepted, Pending, Queued, On
  <2> QED
    BY <1>2, <2>1, SameQueueInOrder DEF IInv
<1> QED
  BY <1>1, <1>2 DEF ProcessStep, Exit, Crash, Restart, RestartInMemory, GetA2ATask, vars

\* Every step moves tasks forward only.
LEMMA ForwardStep == IInv /\ [Next]_vars => Arrivals /\ InOrder
  BY EventLoopForward, RunAgentTaskForward, ProcessForward DEF Next

\* No crash, restart, shutdown or raising update takes a task back to a station
\* it passed, and the queue serves its calls in their order.
THEOREM NoTaskStepsBack == Spec => NoStepBack
<1> DEFINE Forward ==
        /\ Accepted \subseteq Accepted'
        /\ Scheduled \subseteq Scheduled'
        /\ Taken \subseteq Taken'
        /\ Begun \subseteq Begun'
        /\ Returned \subseteq Returned'
        /\ Done \subseteq Done'
        /\ \A i \in 1..Len(queue), j \in 1..Len(queue') :
            queue'[j].task = queue[i].task => j <= i
<1>1. IInv /\ [Next]_vars => Forward
  BY ForwardStep, ArrivalsSuffice DEF InOrder
<1> QED
  BY <1>1, Inductive, PTL DEF Spec, NoStepBack
-------------------------------------------------------------------------------
(* A final status means that the work is over. *)

\* A thread with the agent, or back from it, has run it once for its task.
RunsCounted == \A w \in Workers : pc[w] \in {"invoke", "save"} => runs[job[w]] = 1

\* What a step may do to the count of runs, the records and the answers of a task:
\* only the start of its own run counts, and only its own thread, which has run
\* the agent once, may close its record.
LEMMA CountStep ==
  ASSUME IInv, RunsCounted, [Next]_vars
  PROVE  /\ RunsCounted'
         /\ \A t \in Tasks : store[t] \in Terminal \/ t \in Done => runs'[t] = runs[t]
         /\ \A t \in Tasks : store'[t] \in Terminal =>
                store[t] \in Terminal \/ hidden[t] \in Terminal \/ runs'[t] = 1
         /\ \A t \in Tasks : hidden'[t] \in Terminal =>
                store[t] \in Terminal \/ hidden[t] \in Terminal
         /\ \A t \in Tasks : seen'[t] \in Terminal =>
                seen[t] \in Terminal \/ store[t] \in Terminal
<1> DEFINE Goal ==
        /\ RunsCounted'
        /\ \A t \in Tasks : store[t] \in Terminal \/ t \in Done => runs'[t] = runs[t]
        /\ \A t \in Tasks : store'[t] \in Terminal =>
                store[t] \in Terminal \/ hidden[t] \in Terminal \/ runs'[t] = 1
        /\ \A t \in Tasks : hidden'[t] \in Terminal =>
                store[t] \in Terminal \/ hidden[t] \in Terminal
        /\ \A t \in Tasks : seen'[t] \in Terminal =>
                seen[t] \in Terminal \/ store[t] \in Terminal
<1> USE DEF threads, binding, history, origin, reserve, limits
<1>1. TypeOK /\ OnePlace
  BY DEF IInv
<1>2. "running" \notin Terminal /\ "absent" \notin Terminal
  BY DEF Terminal
<1>3. CASE EventLoop
  <2>1. /\ UNCHANGED <<pc, job, runs, seen, hidden>>
        /\ \A t \in Tasks : store'[t] \in Terminal => store[t] \in Terminal
    BY <1>1, <1>2, <1>3 DEF EventLoop, AcceptTask, ScheduleAgentTask, ShutdownA2AWorkers,
                            TypeOK
  <2> QED
    BY <2>1 DEF RunsCounted
<1>4. ASSUME NEW w \in Workers, StartTask(w) PROVE Goal
  <2>1. /\ job[w] \in Tasks /\ runs[job[w]] = 0 /\ UNCHANGED <<store, seen, hidden>>
        /\ job' = job /\ pc' = [pc EXCEPT ![w] = "invoke"]
        /\ runs' = [runs EXCEPT ![job[w]] = runs[job[w]] + 1]
        /\ pc[w] = "start" /\ store[job[w]] = "running"
    BY <1>1, <1>4 DEF StartTask, OnePlace, Active, TypeOK
  <2>2. /\ pc \in [Workers -> {"idle", "start", "invoke", "save", "finally"}]
        /\ runs \in [Tasks -> Nat]
    BY <1>1 DEF TypeOK
  <2>3. \A v \in Workers : v # w /\ pc[v] \in {"invoke", "save"} => job[v] # job[w]
    BY <1>1, <2>1 DEF OnePlace, Active
  <2>4. RunsCounted'
    BY <2>1, <2>2, <2>3 DEF RunsCounted
  <2>5. job[w] \notin Done
    BY <2>1 DEF Done, Returned, Begun, On
  <2>6. \A t \in Tasks : t # job[w] => runs'[t] = runs[t]
    BY <2>1, <2>2
  <2> QED
    BY <1>2, <2>1, <2>4, <2>5, <2>6
<1>5. ASSUME NEW w \in Workers, SaveOutcome(w) PROVE Goal
  <2>1. /\ job[w] \in Tasks /\ runs[job[w]] = 1 /\ UNCHANGED <<runs, job, seen, hidden>>
        /\ pc' = [pc EXCEPT ![w] = "finally"]
        /\ store' = [store EXCEPT ![job[w]] = outcome[w]]
    BY <1>1, <1>5 DEF SaveOutcome, OnePlace, Active, RunsCounted
  <2>2. /\ pc \in [Workers -> {"idle", "start", "invoke", "save", "finally"}]
        /\ store \in [Tasks -> Statuses \cup {"absent"}]
    BY <1>1 DEF TypeOK
  <2>3. RunsCounted'
    BY <2>1, <2>2 DEF RunsCounted
  <2> QED
    BY <2>1, <2>2, <2>3
<1>6. ASSUME NEW w \in Workers,
             \/ PickTask(w) \/ StartTaskRaises(w) \/ AgentReturns(w)
             \/ SaveOutcomeRaises(w) \/ FinishCall(w) \/ PickTaskRaises(w)
      PROVE  Goal
  <2>1. UNCHANGED <<store, runs, seen, hidden>>
    BY <1>6 DEF PickTask, PickTaskRaises, StartTaskRaises, AgentReturns, SaveOutcomeRaises, FinishCall
  <2>2. \A v \in Workers : pc'[v] \in {"invoke", "save"} =>
            pc[v] \in {"invoke", "save"} /\ job'[v] = job[v]
    BY <1>1, <1>6 DEF PickTask, PickTaskRaises, StartTaskRaises, AgentReturns, SaveOutcomeRaises,
                      FinishCall, TypeOK
  <2> QED
    BY <2>1, <2>2 DEF RunsCounted
<1>7. ASSUME ProcessEnds PROVE Goal
  <2>1. /\ \A t \in Tasks : store'[t] \in {store[t], hidden[t], "absent"}
        /\ \A t \in Tasks : hidden'[t] = "absent"
        /\ UNCHANGED <<runs, seen>> /\ \A v \in Workers : pc'[v] = "idle"
    BY <1>7 DEF ProcessEnds, FreshThreads, NoRecords
  <2> QED
    BY <1>2, <2>1 DEF RunsCounted
<1>8. CASE RestartInMemory
  <2>1. /\ \A t \in Tasks : store'[t] = "absent" /\ hidden'[t] = store[t]
        /\ UNCHANGED <<runs, seen, pc, job>>
    BY <1>8 DEF RestartInMemory, NoRecords
  <2> QED
    BY <1>2, <2>1 DEF RunsCounted
<1>9. CASE Restart \/ UNCHANGED vars
  BY <1>9 DEF Restart, vars, RunsCounted
<1>10. ASSUME NEW u \in Tasks, GetA2ATask(u) PROVE Goal
  <2>1. /\ UNCHANGED <<store, runs, pc, job, hidden>>
        /\ \A t \in Tasks : seen'[t] = seen[t] \/ seen'[t] = store[t]
    BY <1>1, <1>10 DEF GetA2ATask, TypeOK
  <2> QED
    BY <2>1 DEF RunsCounted
<1>11. Goal
  BY <1>3, <1>4, <1>5, <1>6, <1>7, <1>8, <1>9, <1>10
     DEF Next, RunAgentTask, StoreRaises, ProcessStep, Exit, Crash
<1> QED
  BY <1>11

\* A record that is hidden was finished by a run too: it comes back as it was.
HiddenOver == \A t \in Tasks : hidden[t] \in Terminal => t \in Done /\ runs[t] = 1

\* A final status, stored or polled, comes from the one run of the agent, and
\* nothing works on the task any more.
THEOREM FinalStatusMeansOver == Spec => []FinalMeansOver
<1>1. Init => RunsCounted /\ HiddenOver /\ FinalMeansOver
  BY DEF Init, NoRecords, RunsCounted, HiddenOver, FinalMeansOver, Terminal
<1>2. IInv /\ IInv' /\ RunsCounted /\ HiddenOver /\ FinalMeansOver /\ [Next]_vars
        => RunsCounted' /\ HiddenOver' /\ FinalMeansOver'
  <2> SUFFICES ASSUME IInv, IInv', RunsCounted, HiddenOver, FinalMeansOver, [Next]_vars
               PROVE  RunsCounted' /\ HiddenOver' /\ FinalMeansOver'
    OBVIOUS
  <2>1. /\ RunsCounted'
        /\ \A t \in Tasks : store[t] \in Terminal \/ t \in Done => runs'[t] = runs[t]
        /\ \A t \in Tasks : store'[t] \in Terminal =>
                store[t] \in Terminal \/ hidden[t] \in Terminal \/ runs'[t] = 1
        /\ \A t \in Tasks : hidden'[t] \in Terminal =>
                store[t] \in Terminal \/ hidden[t] \in Terminal
        /\ \A t \in Tasks : seen'[t] \in Terminal =>
                seen[t] \in Terminal \/ store[t] \in Terminal
    BY CountStep
  <2>2. Done \subseteq Done'
    BY ForwardStep, ArrivalsSuffice
  \* A task with a final record is at no station any more.
  <2>3. \A t \in Tasks : store'[t] \in Terminal => t \in Done'
    <3> SUFFICES ASSUME NEW t \in Tasks, store'[t] \in Terminal PROVE t \in Done'
      OBVIOUS
    <3>1. store'[t] # "absent" /\ store'[t] # "running"
      BY DEF Terminal
    <3>2. t \in Taken'
      BY <3>1 DEF IInv, OnePlace, Taken, Scheduled, Accepted
    <3>3. ~On(t, {"start"})' /\ ~On(t, {"invoke"})' /\ ~On(t, {"save"})'
      BY <3>1 DEF IInv, OnePlace, On, Active
    <3> QED
      BY <3>2, <3>3 DEF Done, Returned, Begun
  <2>4. \A t \in Tasks : store[t] \in Terminal \/ seen[t] \in Terminal \/ hidden[t] \in Terminal
            => t \in Done' /\ runs'[t] = 1
    <3>1. \A t \in Tasks : store[t] \in Terminal \/ seen[t] \in Terminal \/ hidden[t] \in Terminal
            => t \in Done /\ runs[t] = 1
      BY DEF FinalMeansOver, HiddenOver
    <3> QED
      BY <2>1, <2>2, <3>1
  <2>5. HiddenOver'
    BY <2>1, <2>4 DEF HiddenOver
  <2>6. FinalMeansOver'
    BY <2>1, <2>3, <2>4 DEF FinalMeansOver
  <2> QED
    BY <2>1, <2>5, <2>6
<1> QED
  BY <1>1, <1>2, Inductive, PTL DEF Spec
-------------------------------------------------------------------------------
(* What a step does to the records. *)

\* Records change when a task is accepted, when an outcome is saved, and when one
\* process takes the place of another.
LEMMA RecordStep ==
  IInv /\ [Next]_vars =>
    \/ UNCHANGED <<store, hidden, fellBack, filed>>
    \/ \E t \in Tasks, tok \in TokenArgs : AcceptTask(t, tok)
    \/ \E w \in Workers : SaveOutcome(w)
    \/ ProcessEnds
    \/ RestartInMemory
<1> SUFFICES ASSUME IInv, [Next]_vars,
                    ~\E t \in Tasks, tok \in TokenArgs : AcceptTask(t, tok),
                    ~\E w \in Workers : SaveOutcome(w), ~ProcessEnds, ~RestartInMemory
             PROVE  UNCHANGED <<store, hidden, fellBack, filed>>
  OBVIOUS
<1> USE DEF history, origin, reserve
<1>1. CASE EventLoop
  BY <1>1 DEF EventLoop, ScheduleAgentTask, ShutdownA2AWorkers
<1>2. ASSUME NEW w \in Workers, RunAgentTask(w) \/ StoreRaises(w)
      PROVE  UNCHANGED <<store, hidden, fellBack, filed>>
  <2>1. CASE StartTask(w)
    BY <2>1 DEF StartTask, IInv, OnePlace, Active, TypeOK
  <2>2. CASE \/ PickTask(w) \/ AgentReturns(w) \/ FinishCall(w) \/ StoreRaises(w)
    BY <2>2 DEF PickTask, AgentReturns, FinishCall, StoreRaises, PickTaskRaises,
                StartTaskRaises, SaveOutcomeRaises
  <2> QED
    BY <1>2, <2>1, <2>2 DEF RunAgentTask
<1>3. CASE ProcessStep \/ (\E t \in Tasks : GetA2ATask(t)) \/ UNCHANGED vars
  BY <1>3 DEF ProcessStep, Exit, Crash, Restart, GetA2ATask, vars
<1> QED
  BY <1>1, <1>2, <1>3 DEF Next

\* An accepted id had no record, neither in use nor hidden.
LEMMA AcceptedIsNew ==
  ASSUME IInv, NEW t \in Tasks, NEW tok \in TokenArgs, AcceptTask(t, tok)
  PROVE  /\ caller[t] = NotBound /\ store[t] = "absent" /\ hidden[t] = "absent"
         /\ store' = [store EXCEPT ![t] = "running"]
         /\ UNCHANGED <<hidden, fellBack, seen>>
         /\ filed' = IF Durable /\ ~fellBack THEN filed \cup {t} ELSE filed
  BY DEF AcceptTask, IInv, OnePlace, Standby, reserve

\* A saved outcome closes a running record.
LEMMA SavedWasRunning ==
  ASSUME IInv, NEW w \in Workers, SaveOutcome(w)
  PROVE  /\ job[w] \in Tasks /\ store[job[w]] = "running" /\ outcome[w] \in Statuses
         /\ store' = [store EXCEPT ![job[w]] = outcome[w]]
         /\ UNCHANGED <<hidden, fellBack, filed, seen>>
  BY DEF SaveOutcome, IInv, OnePlace, Active, TypeOK, history, origin, reserve
-------------------------------------------------------------------------------
(* The pool implements the task contract. *)

\* Every step of the pool is an accept, a finish, a forgetting, a hiding, a return
\* or no step of the contract.
LEMMA PromiseStep == IInv /\ [Next]_vars => [Promise!Next]_(Promise!vars)
<1> SUFFICES ASSUME IInv, [Next]_vars PROVE [Promise!Next]_(Promise!vars)
  OBVIOUS
<1>1. ASSUME NEW t \in Tasks, NEW tok \in TokenArgs, AcceptTask(t, tok)
      PROVE  Promise!Next
  <2>1. Promise!Accept(t)
    BY <1>1, AcceptedIsNew DEF Promise!Accept
  <2> QED
    BY <2>1 DEF Promise!Next
<1>2. ASSUME NEW w \in Workers, SaveOutcome(w) PROVE [Promise!Next]_(Promise!vars)
  <2>1. /\ job[w] \in Tasks /\ store[job[w]] = "running" /\ outcome[w] \in Statuses
        /\ store' = [store EXCEPT ![job[w]] = outcome[w]]
        /\ UNCHANGED <<hidden, fellBack>>
    BY <1>2, SavedWasRunning
  <2>2. CASE outcome[w] = "running"
    <3>1. store' = store
      BY <2>1, <2>2 DEF IInv, TypeOK
    <3> QED
      BY <2>1, <3>1 DEF Promise!vars
  <2>3. CASE outcome[w] \in Promise!Terminal
    <3>1. Promise!Finish(job[w])
      BY <2>1, <2>3 DEF Promise!Finish
    <3> QED
      BY <2>1, <3>1 DEF Promise!Next
  <2> QED
    BY <2>1, <2>2, <2>3 DEF Statuses, Terminal, Promise!Terminal
<1>3. ASSUME ProcessEnds PROVE [Promise!Next]_(Promise!vars)
  <2>1. fellBack => Durable
    BY DEF IInv, Standby
  <2>2. ~fellBack => hidden = NoRecords
    BY DEF IInv, Standby
  <2>3. CASE fellBack
    <3>1. Promise!Return
      BY <1>3, <2>1, <2>3 DEF ProcessEnds, Promise!Return, NoRecords, Promise!NoRecords
    <3> QED
      BY <3>1 DEF Promise!Next
  <2>4. CASE ~fellBack
    <3>1. UNCHANGED <<hidden, fellBack>>
      <4>1. hidden' = hidden
        BY <1>3, <2>2, <2>4 DEF ProcessEnds
      <4>2. fellBack \in BOOLEAN
        BY DEF IInv, TypeOK
      <4>3. fellBack' = fellBack
        BY <1>3, <2>4, <4>2, Zenon DEF ProcessEnds
      <4> QED
        BY <4>1, <4>3
    <3>2. CASE Durable
      BY <1>3, <2>4, <3>1, <3>2 DEF ProcessEnds, Promise!vars
    <3>3. CASE ~Durable
      <4>1. Promise!Forget
        BY <1>3, <3>1, <3>3 DEF ProcessEnds, Promise!Forget, NoRecords, Promise!NoRecords
      <4> QED
        BY <4>1 DEF Promise!Next
    <3> QED
      BY <3>2, <3>3
  <2> QED
    BY <2>3, <2>4
<1>4. ASSUME RestartInMemory PROVE Promise!Next
  <2>1. Promise!Hide
    BY <1>4 DEF RestartInMemory, IInv, Standby, Promise!Hide, NoRecords, Promise!NoRecords
  <2> QED
    BY <2>1 DEF Promise!Next
<1>5. CASE UNCHANGED <<store, hidden, fellBack, filed>>
  BY <1>5 DEF Promise!vars
<1> QED
  BY <1>1, <1>2, <1>3, <1>4, <1>5, RecordStep

\* Accepted once, running, then one outcome that no later step revises; with a
\* file, records are hidden while it is not in use, and never lost.
THEOREM PoolImplementsPromise == Spec => ImplementsPromise
<1>1. Init => Promise!Init
  BY DEF Init, Promise!Init, NoRecords, Promise!NoRecords
<1> QED
  BY <1>1, PromiseStep, Inductive, PTL DEF Spec, ImplementsPromise, Promise!Spec
-------------------------------------------------------------------------------
(* A polled answer stands. *)

\* The file holds the tasks accepted into it, and a process that does without the
\* file has no records of them.
Filing ==
    Durable => \A t \in Tasks :
        /\ t \in filed <=> FileRecord(t) # "absent"
        /\ t \in filed /\ fellBack => store[t] = "absent"

\* A poll reports what is there and changes nothing.
LEMMA SeenStep ==
  ASSUME IInv, [Next]_vars, NEW t \in Tasks
  PROVE  \/ seen'[t] = seen[t]
         \/ seen'[t] = store[t] /\ UNCHANGED <<store, hidden, fellBack, filed>>
<1> USE DEF history, origin, reserve
<1>1. ASSUME NEW u \in Tasks, GetA2ATask(u)
      PROVE  \/ seen'[t] = seen[t]
             \/ seen'[t] = store[t] /\ UNCHANGED <<store, hidden, fellBack, filed>>
  BY <1>1 DEF GetA2ATask, IInv, TypeOK
<1>2. CASE EventLoop
  BY <1>2 DEF EventLoop, AcceptTask, ScheduleAgentTask, ShutdownA2AWorkers
<1>3. ASSUME NEW w \in Workers, RunAgentTask(w) \/ StoreRaises(w) PROVE seen' = seen
  BY <1>3 DEF RunAgentTask, StoreRaises, PickTask, StartTask, PickTaskRaises, StartTaskRaises,
              AgentReturns, SaveOutcome, SaveOutcomeRaises, FinishCall
<1>4. CASE ProcessStep \/ UNCHANGED vars
  BY <1>4 DEF ProcessStep, Exit, Crash, ProcessEnds, Restart, RestartInMemory, vars
<1> QED
  BY <1>1, <1>2, <1>3, <1>4 DEF Next

\* With the file store every step keeps both.
LEMMA PolledStep ==
  IInv /\ FinalMeansOver /\ Filing /\ PolledAnswerStands /\ [Next]_vars
    => Filing' /\ PolledAnswerStands'
<1> SUFFICES ASSUME IInv, FinalMeansOver, Filing, PolledAnswerStands, [Next]_vars, Durable,
                    NEW t \in Tasks
             PROVE  /\ t \in filed' <=> FileRecord(t)' # "absent"
                    /\ t \in filed' /\ fellBack' => store'[t] = "absent"
                    /\ seen'[t] \in Terminal => store'[t] \in {seen'[t], "absent"}
                    /\ t \in filed' /\ seen'[t] \in Terminal => FileRecord(t)' = seen'[t]
  BY DEF Filing, PolledAnswerStands
<1> DEFINE Stands ==
        /\ t \in filed' <=> FileRecord(t)' # "absent"
        /\ t \in filed' /\ fellBack' => store'[t] = "absent"
        /\ seen'[t] \in Terminal => store'[t] \in {seen'[t], "absent"}
        /\ t \in filed' /\ seen'[t] \in Terminal => FileRecord(t)' = seen'[t]
<1>1. /\ t \in filed <=> FileRecord(t) # "absent"
      /\ t \in filed /\ fellBack => store[t] = "absent"
      /\ seen[t] \in Terminal => store[t] \in {seen[t], "absent"}
      /\ t \in filed /\ seen[t] \in Terminal => FileRecord(t) = seen[t]
  BY DEF Filing, PolledAnswerStands
<1>2. "running" \notin Terminal /\ "absent" \notin Terminal /\ "absent" \notin Statuses
  BY DEF Terminal, Statuses
<1>3. /\ store \in [Tasks -> Statuses \cup {"absent"}]
      /\ hidden \in [Tasks -> Statuses \cup {"absent"}]
  BY DEF IInv, TypeOK
<1>4. \/ seen'[t] = seen[t]
      \/ seen'[t] = store[t] /\ UNCHANGED <<store, hidden, fellBack, filed>>
  BY SeenStep
<1>5. CASE UNCHANGED <<store, hidden, fellBack, filed>>
  BY <1>1, <1>2, <1>4, <1>5 DEF FileRecord
<1>6. ASSUME NEW u \in Tasks, NEW tok \in TokenArgs, AcceptTask(u, tok) PROVE Stands
  <2>1. /\ caller[u] = NotBound /\ store[u] = "absent" /\ hidden[u] = "absent"
        /\ store' = [store EXCEPT ![u] = "running"]
        /\ UNCHANGED <<hidden, fellBack, seen>>
        /\ filed' = IF Durable /\ ~fellBack THEN filed \cup {u} ELSE filed
    BY <1>6, AcceptedIsNew
  <2>2. seen[u] \notin Terminal
    BY <2>1 DEF FinalMeansOver, Done, Returned, Begun, Taken, Scheduled, Accepted
  <2>3. CASE t = u
    BY <1>1, <1>3, <2>1, <2>2, <2>3 DEF FileRecord
  <2>4. CASE t # u
    BY <1>1, <1>3, <2>1, <2>4 DEF FileRecord
  <2> QED
    BY <2>3, <2>4
<1>7. ASSUME NEW w \in Workers, SaveOutcome(w) PROVE Stands
  <2>1. /\ job[w] \in Tasks /\ store[job[w]] = "running" /\ outcome[w] \in Statuses
        /\ store' = [store EXCEPT ![job[w]] = outcome[w]]
        /\ UNCHANGED <<hidden, fellBack, filed, seen>>
    BY <1>7, SavedWasRunning
  <2>2. CASE t = job[w]
    BY <1>1, <1>2, <1>3, <2>1, <2>2 DEF FileRecord
  <2>3. CASE t # job[w]
    BY <1>1, <1>3, <2>1, <2>3 DEF FileRecord
  <2> QED
    BY <2>2, <2>3
<1>8. ASSUME ProcessEnds PROVE Stands
  <2>1. /\ ~fellBack' /\ UNCHANGED <<filed, seen>>
        /\ store'[t] = FileRecord(t)
    BY <1>8 DEF ProcessEnds, FileRecord
  <2> QED
    BY <1>1, <2>1 DEF FileRecord
<1>9. ASSUME RestartInMemory PROVE Stands
  <2>1. ~fellBack
    BY <1>9 DEF RestartInMemory, IInv, Standby
  <2>2. /\ fellBack' /\ hidden' = store /\ store'[t] = "absent"
        /\ UNCHANGED <<filed, seen>>
    BY <1>9 DEF RestartInMemory, NoRecords, history, origin
  <2> QED
    BY <1>1, <2>1, <2>2 DEF FileRecord
<1> QED
  BY <1>5, <1>6, <1>7, <1>8, <1>9, RecordStep

\* With the file store a final status once polled is never revised, and what was
\* accepted into the file stays there, whatever crashes, raises or falls back.
THEOREM PolledAnswersStand == Spec => []PolledAnswerStands
<1>1. Init => Filing /\ PolledAnswerStands
  BY DEF Init, NoRecords, Filing, FileRecord, PolledAnswerStands, Terminal
<1> QED
  BY <1>1, PolledStep, FinalStatusMeansOver, Inductive, PTL DEF Spec
-------------------------------------------------------------------------------
(* Nothing is stranded unless a get_task or an update_task raises. *)

Home(t) == Pending(t) \/ Queued(t) \/ \E w \in Workers : Active(w) /\ job[w] = t

\* A thread about to save has an outcome to save.
OutcomeChosen == \A w \in Workers : pc[w] = "save" => outcome[w] \in Terminal

\* A thread that is past the agent has chosen the outcome it saves.
LEMMA ChosenStep == TypeOK /\ OutcomeChosen /\ [Next]_vars => OutcomeChosen'
<1> SUFFICES ASSUME TypeOK, OutcomeChosen, [Next]_vars PROVE OutcomeChosen'
  OBVIOUS
<1> USE DEF OutcomeChosen, TypeOK, threads
<1>1. CASE EventLoop
  BY <1>1 DEF EventLoop, AcceptTask, ScheduleAgentTask, ShutdownA2AWorkers
<1>2. ASSUME NEW w \in Workers, RunAgentTask(w) \/ StoreRaises(w) PROVE OutcomeChosen'
  <2>1. CASE PickTask(w) \/ StartTask(w) \/ StartTaskRaises(w) \/ PickTaskRaises(w)
    BY <2>1 DEF PickTask, PickTaskRaises, StartTask, StartTaskRaises
  <2>2. CASE AgentReturns(w)
    BY <2>2 DEF AgentReturns, Outcomes
  <2>3. CASE SaveOutcome(w) \/ FinishCall(w)
    BY <2>3 DEF SaveOutcome, FinishCall
  <2>4. CASE SaveOutcomeRaises(w)
    BY <2>4 DEF SaveOutcomeRaises, Terminal
  <2> QED
    BY <1>2, <2>1, <2>2, <2>3, <2>4 DEF RunAgentTask, StoreRaises
<1>3. CASE ProcessStep \/ \E t \in Tasks : GetA2ATask(t)
  BY <1>3 DEF ProcessStep, Exit, Crash, ProcessEnds, FreshThreads, Restart, RestartInMemory, GetA2ATask
<1>4. CASE UNCHANGED vars
  BY <1>4 DEF vars
<1> QED
  BY <1>1, <1>2, <1>3, <1>4 DEF Next

\* What the event loop moves, it moves to another place.
LEMMA EventLoopKeepsHome ==
  ASSUME IInv, EventLoop, \A t \in mine : store[t] = "running" => Home(t)
  PROVE  \A t \in mine' : store'[t] = "running" => Home(t)'
<1> USE DEF Home, Pending, Queued, Active, threads, history, origin, reserve, limits
<1>1. ASSUME NEW t \in Tasks, NEW tok \in TokenArgs, AcceptTask(t, tok)
      PROVE  \A u \in mine' : store'[u] = "running" => Home(u)'
  <2>1. store' = [store EXCEPT ![t] = "running"] /\ store \in [Tasks -> Statuses \cup {"absent"}]
    BY <1>1 DEF AcceptTask, IInv, TypeOK
  <2>2. loop = {} /\ loop' = {[task |-> t, token |-> tok]} /\ mine' = mine \cup {t}
        /\ mine \subseteq Tasks /\ UNCHANGED <<queue, pc, job>>
    BY <1>1 DEF AcceptTask, IInv, TypeOK
  <2>3. Pending(t)'
    BY <2>2
  <2> QED
    BY <2>1, <2>2, <2>3
<1>2. ASSUME ScheduleAgentTask
      PROVE  \A u \in mine' : store'[u] = "running" => Home(u)'
  <2> PICK call \in loop :
        /\ queue' = Append(queue, call)
        /\ acked' = acked \cup {call.task}
        /\ loop' = {}
        /\ UNCHANGED <<store, server, threads, caller, runs, seen, origin, reserve, limits>>
    BY <1>2 DEF ScheduleAgentTask
  <2>1. call \in Calls /\ queue \in Seq(Calls) /\ \A c \in loop : c = call
    BY DEF IInv, TypeOK, OnePlace
  <2>2. /\ Len(queue') = Len(queue) + 1 /\ Len(queue) \in Nat
        /\ \A i \in 1..Len(queue) : queue'[i] = queue[i]
        /\ queue'[Len(queue) + 1] = call
    BY <2>1, AppendIndices
  <2>3. \A t \in Tasks : Pending(t) \/ Queued(t) => Queued(t)'
    BY <2>1, <2>2
  <2>4. UNCHANGED <<store, mine, pc, job>> /\ mine \subseteq Tasks
    BY DEF IInv, TypeOK
  <2> QED
    BY <2>3, <2>4
<1>3. ASSUME ShutdownA2AWorkers
      PROVE  \A u \in mine' : store'[u] = "running" => Home(u)'
  BY <1>3 DEF ShutdownA2AWorkers
<1> QED
  BY <1>1, <1>2, <1>3 DEF EventLoop

\* A thread lets go of a task only with its outcome recorded.
LEMMA RunAgentTaskKeepsHome ==
  ASSUME IInv, OutcomeChosen, NEW w \in Workers, RunAgentTask(w) \/ StoreRaises(w),
         faults' = faults, \A t \in mine : store[t] = "running" => Home(t)
  PROVE  \A t \in mine' : store'[t] = "running" => Home(t)'
<1> USE DEF Home, Pending, Queued, Active, threads, history, origin, reserve, limits
<1>1. ASSUME PickTask(w)
      PROVE  \A t \in mine' : store'[t] = "running" => Home(t)'
  <2>1. /\ queue \in Seq(Calls) /\ queue # << >> /\ queue' = Tail(queue)
        /\ pc[w] = "idle" /\ pc' = [pc EXCEPT ![w] = "start"]
        /\ job' = [job EXCEPT ![w] = queue[1].task]
        /\ UNCHANGED <<store, loop, mine>> /\ mine \subseteq Tasks
    BY <1>1, PickedIsKnown DEF IInv, TypeOK
  <2>2. /\ Len(queue) \in Nat /\ Len(queue) >= 1
        /\ \A i \in 2..Len(queue) : i - 1 \in 1..Len(queue') /\ queue'[i - 1] = queue[i]
    BY <2>1, TailIndices
  <2>3. pc \in [Workers -> {"idle", "start", "invoke", "save", "finally"}]
        /\ job \in [Workers -> RidValues]
    BY DEF IInv, TypeOK
  <2>4. \A t \in Tasks : Queued(t) => Queued(t)' \/ t = queue[1].task
    <3> SUFFICES ASSUME NEW i \in 1..Len(queue), queue[i].task # queue[1].task
                 PROVE  \E j \in 1..Len(queue') : queue'[j].task = queue[i].task
      OBVIOUS
    <3>1. i \in 2..Len(queue)
      BY <2>2
    <3>2. i - 1 \in 1..Len(queue') /\ queue'[i - 1].task = queue[i].task
      BY <2>2, <3>1
    <3> QED
      BY <3>2
  <2>5. Active(w)' /\ job'[w] = queue[1].task
    BY <2>1, <2>3
  <2>6. \A v \in Workers : Active(v) => Active(v)' /\ job'[v] = job[v]
    BY <2>1, <2>3
  <2> SUFFICES ASSUME NEW t \in mine', store'[t] = "running" PROVE Home(t)'
    OBVIOUS
  <2> HIDE DEF Active, Queued, Pending
  <2>7. Pending(t) \/ Queued(t) \/ \E v \in Workers : Active(v) /\ job[v] = t
    BY <2>1
  <2>8. CASE Pending(t)
    BY <2>1, <2>8 DEF Pending
  <2>9. CASE Queued(t)
    <3>1. CASE Queued(t)'
      BY <3>1
    <3>2. CASE t = queue[1].task
      BY <2>5, <3>2
    <3> QED
      BY <2>1, <2>4, <2>9, <3>1, <3>2
  <2>10. CASE \E v \in Workers : Active(v) /\ job[v] = t
    BY <2>6, <2>10
  <2> QED
    BY <2>7, <2>8, <2>9, <2>10
<1>2. ASSUME StartTask(w)
      PROVE  \A t \in mine' : store'[t] = "running" => Home(t)'
  <2>1. store' = store
    BY <1>2 DEF StartTask, IInv, OnePlace, TypeOK
  <2>2. UNCHANGED <<loop, queue, job, mine>> /\ \A v \in Workers : Active(v) => Active(v)'
    BY <1>2 DEF StartTask, IInv, TypeOK
  <2> QED
    BY <2>1, <2>2
<1>3. ASSUME AgentReturns(w)
      PROVE  \A t \in mine' : store'[t] = "running" => Home(t)'
  <2>1. UNCHANGED <<store, loop, queue, job, mine>> /\ \A v \in Workers : Active(v) => Active(v)'
    BY <1>3 DEF AgentReturns, IInv, TypeOK
  <2> QED
    BY <2>1
<1>4. ASSUME FinishCall(w)
      PROVE  \A t \in mine' : store'[t] = "running" => Home(t)'
  <2>1. UNCHANGED <<store, loop, queue, mine>>
        /\ \A v \in Workers : Active(v) => Active(v)' /\ job'[v] = job[v]
    BY <1>4 DEF FinishCall, IInv, TypeOK
  <2> QED
    BY <2>1
<1>5. faults \in Nat
  BY BoundsAssumption DEF IInv, TypeOK
<1>6. ~StoreRaises(w)
  BY <1>5 DEF StoreRaises, PickTaskRaises, StartTaskRaises, SaveOutcomeRaises
<1>7. ASSUME SaveOutcome(w), outcome[w] \in Terminal
      PROVE  \A t \in mine' : store'[t] = "running" => Home(t)'
  <2>1. store' = [store EXCEPT ![job[w]] = outcome[w]] /\ outcome[w] # "running"
        /\ job[w] \in Tasks
    BY <1>7 DEF SaveOutcome, Terminal, IInv, OnePlace
  <2>2. UNCHANGED <<loop, queue, job, mine>> /\ mine \subseteq Tasks
        /\ \A v \in Workers : Active(v) /\ v # w => Active(v)'
    BY <1>7 DEF SaveOutcome, IInv, TypeOK
  <2>3. \A t \in Tasks : store'[t] = "running" => store[t] = "running" /\ t # job[w]
    BY <2>1 DEF IInv, TypeOK
  <2> QED
    BY <2>2, <2>3
<1>8. SaveOutcome(w) => outcome[w] \in Terminal
  BY DEF SaveOutcome, OutcomeChosen
<1> QED
  BY <1>1, <1>2, <1>3, <1>4, <1>6, <1>7, <1>8 DEF RunAgentTask

\* Hence no step strands a task.
LEMMA StrandedStep ==
  IInv /\ OutcomeChosen /\ NothingStranded /\ [Next]_vars => NothingStranded'
<1> SUFFICES ASSUME IInv, OutcomeChosen, NothingStranded, [Next]_vars, faults' = 0
             PROVE  \A t \in mine' : store'[t] = "running" => Home(t)'
  BY DEF NothingStranded, Home
<1>1. faults \in Nat
  BY BoundsAssumption DEF IInv, TypeOK
<1>2. faults = 0
  <2> USE DEF limits
  <2>1. CASE EventLoop
    BY <2>1 DEF EventLoop, AcceptTask, ScheduleAgentTask, ShutdownA2AWorkers
  <2>2. ASSUME NEW w \in Workers, RunAgentTask(w) \/ StoreRaises(w) PROVE faults = 0
    BY <1>1, <2>2 DEF RunAgentTask, StoreRaises, PickTask, StartTask, PickTaskRaises, StartTaskRaises,
                      AgentReturns, SaveOutcome, SaveOutcomeRaises, FinishCall
  <2>3. CASE ProcessStep \/ (\E t \in Tasks : GetA2ATask(t)) \/ UNCHANGED vars
    BY <2>3 DEF ProcessStep, Exit, Crash, Restart, RestartInMemory, GetA2ATask, vars
  <2> QED
    BY <2>1, <2>2, <2>3 DEF Next
<1>3. \A t \in mine : store[t] = "running" => Home(t)
  BY <1>2 DEF NothingStranded, Home
<1>4. CASE EventLoop
  BY <1>3, <1>4, EventLoopKeepsHome
<1>5. ASSUME NEW w \in Workers, RunAgentTask(w) \/ StoreRaises(w)
      PROVE  \A t \in mine' : store'[t] = "running" => Home(t)'
  BY <1>2, <1>3, <1>5, RunAgentTaskKeepsHome
<1>6. ASSUME ProcessEnds
      PROVE  \A t \in mine' : store'[t] = "running" => Home(t)'
  BY <1>6 DEF ProcessEnds
<1>7. ASSUME RestartInMemory
      PROVE  \A t \in mine' : store'[t] = "running" => Home(t)'
  <2>1. \A t \in Tasks : store'[t] # "running"
    BY <1>7 DEF RestartInMemory, NoRecords
  <2>2. mine' \subseteq Tasks
    BY <1>7 DEF RestartInMemory, history, origin, IInv, TypeOK
  <2> QED
    BY <2>1, <2>2
<1>8. CASE Restart \/ (\E t \in Tasks : GetA2ATask(t)) \/ UNCHANGED vars
  <2>1. UNCHANGED <<store, loop, queue, pc, job, mine>>
    BY <1>8 DEF Restart, GetA2ATask, vars, threads, history, origin
  <2> QED
    BY <1>3, <2>1 DEF Home, Pending, Queued, Active
<1> QED
  BY <1>4, <1>5, <1>6, <1>7, <1>8 DEF Next, ProcessStep, Exit, Crash

\* While its process lives a running task is on its way, whatever shutdowns, full
\* pools and earlier processes did, unless a get_task or an update_task raised.
THEOREM NoTaskStranded == Spec => []NothingStranded
<1>1. Init => OutcomeChosen /\ NothingStranded
  BY DEF Init, OutcomeChosen, NothingStranded
<1>2. IInv => TypeOK
  BY DEF IInv
<1> QED
  BY <1>1, <1>2, ChosenStep, StrandedStep, Inductive, PTL DEF Spec
===============================================================================
