----------------------------- MODULE HitlSessions -----------------------------
(***************************************************************************)
(* Human-in-the-loop runs: an analyze, recommend or session request        *)
(* invokes an agent that may pause at a gate; a person resumes the waiting *)
(* session with a decision; an approved result becomes a recommendation.   *)
(*                                                                         *)
(* resume_session reads the session, answers 404 or 409, and only then     *)
(* awaits the thread that calls resume_hitl_session, so several resumes of *)
(* one session pass that check together.  The record is written after the  *)
(* await, in a step of its own.                                            *)
(*                                                                         *)
(* A run and the session it pauses in share an id.  The decision stands    *)
(* for comment, patch and actor too: "bad" is a decision or patch the gate *)
(* refuses.  The state store keeps sessions across a crash.                *)
(*                                                                         *)
(* Two things decide whether there is anywhere to store a result: the      *)
(* recommendation store of the process, which may be named none, and the   *)
(* run's agent, which may have registered no persist adapter.              *)
(***************************************************************************)
EXTENDS Naturals, FiniteSets

CONSTANTS
    Runs,           \* agent runs, each with the id of its session
    Clients,        \* requests that may be in flight at once
    NoRun,          \* the request of an idle client
    MaxCrashes,     \* bound on crashes
    MaxFaults       \* bound on raising saves and resumes

ASSUME HitlAssumption ==
    /\ MaxCrashes \in Nat /\ MaxFaults \in Nat
    /\ NoRun \notin Runs

Decisions == {"approved", "rejected", "modified", "bad"}

VARIABLES
    session,    \* per run: "none", "waiting", "closed"; "ungated": ran through
    outcome,    \* per run: hitl_outcome, "none" before a decision
    recs,       \* per run: recommendations stored for it
    store,      \* the process's recommendation store: "kept" or "none"
    adapted,    \* runs of an agent with a persist adapter
    pc,         \* per client: "idle", "checked" (route check passed), "persist"
    run,        \* per client: the run its request is about
    decision,   \* per client: the decision of its resume request
    answer,     \* per client: last HTTP status, 0 before any
    crashes, faults

client == <<pc, run, decision, answer>>
limits == <<crashes, faults>>
places == <<store, adapted>>
vars   == <<session, outcome, recs, places, client, limits>>

Init ==
    /\ session  = [r \in Runs |-> "none"]
    /\ outcome  = [r \in Runs |-> "none"]
    /\ recs     = [r \in Runs |-> 0]
    /\ store \in {"kept", "none"}
    /\ adapted  = {}
    /\ pc       = [c \in Clients |-> "idle"]
    /\ run      = [c \in Clients |-> NoRun]
    /\ decision = [c \in Clients |-> "none"]
    /\ answer   = [c \in Clients |-> 0]
    /\ crashes  = 0
    /\ faults   = 0

Reply(c, code) ==
    /\ answer' = [answer EXCEPT ![c] = code]
    /\ pc' = [pc EXCEPT ![c] = "idle"]
    /\ run' = [run EXCEPT ![c] = NoRun]

\* A request about run r goes on, unanswered so far.
GoOn(c, r, step) ==
    /\ answer' = [answer EXCEPT ![c] = 0]
    /\ pc' = [pc EXCEPT ![c] = step]
    /\ run' = [run EXCEPT ![c] = r]

\* Variant: a paused run is stored at once.
PersistablePaused(status, result) == result # "rejected"

\* Variant: of the decisions only a plain approval counts.
PersistableApproved(status, result) ==
    status # "waiting" /\ result \in {"none", "approved"}

\* is_hitl_waiting, then should_persist_after_hitl: a paused run is not stored
\* yet, a rejected one never.
Persistable(status, result) == status # "waiting" /\ result # "rejected"

-------------------------------------------------------------------------------
\* analyze_rca, recommend_cluster: the invocation pauses (the gate created the
\* session), or runs through and is stored.
InvokeProduct(c, r) ==
    /\ pc[c] = "idle"
    /\ session[r] = "none"
    /\ \E status \in {"waiting", "ungated"} :
        /\ session' = [session EXCEPT ![r] = status]
        /\ IF Persistable(status, "none") THEN GoOn(c, r, "persist") ELSE Reply(c, 200)
    /\ adapted' = adapted \cup {r}
    /\ decision' = [decision EXCEPT ![c] = "none"]
    /\ UNCHANGED <<outcome, recs, store, limits>>

\* start_session: the same invocation for any agent, whose result is never stored
\* here.
StartSession(c, r) ==
    /\ pc[c] = "idle"
    /\ session[r] = "none"
    /\ \E status \in {"waiting", "ungated"} : session' = [session EXCEPT ![r] = status]
    /\ adapted' \in {adapted, adapted \cup {r}}
    /\ Reply(c, 200)
    /\ decision' = [decision EXCEPT ![c] = "none"]
    /\ UNCHANGED <<outcome, recs, store, limits>>

\* resume_session up to its await: 404, 409, or on to the thread.
CheckResume(c, r, d) ==
    /\ pc[c] = "idle"
    /\ decision' = [decision EXCEPT ![c] = d]
    /\ \/ session[r] \in {"none", "ungated"} /\ Reply(c, 404)
       \/ session[r] = "closed" /\ Reply(c, 409)
       \/ session[r] = "waiting" /\ GoOn(c, r, "checked")
    /\ UNCHANGED <<session, outcome, recs, places, limits>>

\* Variant: the route's check is not repeated in the thread.
ResumableUnclaimed(r, d) == d # "bad"

\* Variant: the decision is not looked at.
ResumableAnyDecision(r, d) == session[r] = "waiting"

\* What resume_hitl_session accepts: a good decision for a waiting session.
Resumable(r, d) == session[r] = "waiting" /\ d # "bad"

\* resume_hitl_session in its thread, and the route's answer to a HitlError.
\* The graph pauses again in the same session, or closes it.
ResumeHitlSession(c) ==
    /\ pc[c] = "checked"
    /\ LET r == run[c] IN
       IF Resumable(r, decision[c])
       THEN \E status \in {"waiting", "closed"} :
            /\ session' = [session EXCEPT ![r] = status]
            /\ outcome' = [outcome EXCEPT ![r] = decision[c]]
            /\ IF Persistable(status, decision[c])
               THEN GoOn(c, r, "persist")
               ELSE Reply(c, 200)
       ELSE Reply(c, 400) /\ UNCHANGED <<session, outcome>>
    /\ UNCHANGED <<recs, places, decision, limits>>

\* The continued graph, or the state store, raises something else: 5xx, with the
\* decision taken or not.
ResumeHitlSessionRaises(c) ==
    /\ pc[c] = "checked"
    /\ faults < MaxFaults
    /\ faults' = faults + 1
    /\ \/ UNCHANGED <<session, outcome>>
       \/ /\ Resumable(run[c], decision[c])
          /\ \E status \in {"waiting", "closed"} :
                session' = [session EXCEPT ![run[c]] = status]
          /\ outcome' = [outcome EXCEPT ![run[c]] = decision[c]]
    /\ Reply(c, 500)
    /\ UNCHANGED <<recs, places, decision, crashes>>

\* There is somewhere to store the result of run r.
Storable(r) == store # "none" /\ r \in adapted

\* persist_after_hitl_if_needed and the product routes' own persist: a new
\* record under a new id.
PersistRecommendation(c) ==
    /\ pc[c] = "persist"
    /\ Storable(run[c])
    /\ recs' = [recs EXCEPT ![run[c]] = @ + 1]
    /\ Reply(c, 200)
    /\ UNCHANGED <<session, outcome, places, decision, limits>>

\* A store named none, or an agent without adapter: nothing is stored, nothing is
\* raised, and the answer is 200.
PersistNowhere(c) ==
    /\ pc[c] = "persist"
    /\ ~Storable(run[c])
    /\ Reply(c, 200)
    /\ UNCHANGED <<session, outcome, recs, places, decision, limits>>

\* Best effort: a raising save, or a state the request schema refuses, is logged
\* and the answer is 200 all the same.
PersistRaises(c) ==
    /\ pc[c] = "persist"
    /\ faults < MaxFaults
    /\ faults' = faults + 1
    /\ Reply(c, 200)
    /\ UNCHANGED <<session, outcome, recs, places, decision, crashes>>

\* The process dies: no request in flight is answered or goes on.  The next one
\* configures its recommendation store anew, and may end up with none.
Crash ==
    /\ crashes < MaxCrashes
    /\ crashes' = crashes + 1
    /\ pc' = [c \in Clients |-> "idle"]
    /\ run' = [c \in Clients |-> NoRun]
    /\ answer' = [c \in Clients |-> 0]
    /\ store' \in {"kept", "none"}
    /\ UNCHANGED <<session, outcome, recs, adapted, decision, faults>>

Next ==
    \/ \E c \in Clients :
        \/ \E r \in Runs : InvokeProduct(c, r) \/ StartSession(c, r)
        \/ \E r \in Runs, d \in Decisions : CheckResume(c, r, d)
        \/ ResumeHitlSession(c)
        \/ ResumeHitlSessionRaises(c)
        \/ PersistRecommendation(c)
        \/ PersistNowhere(c)
        \/ PersistRaises(c)
    \/ Crash

Spec == Init /\ [][Next]_vars
-------------------------------------------------------------------------------
(* Properties. *)

\* Every variable has its type.
TypeOK ==
    /\ session \in [Runs -> {"none", "waiting", "closed", "ungated"}]
    /\ outcome \in [Runs -> {"none", "approved", "rejected", "modified"}]
    /\ recs \in [Runs -> Nat]
    /\ store \in {"kept", "none"}
    /\ adapted \subseteq Runs
    /\ pc \in [Clients -> {"idle", "checked", "persist"}]
    /\ run \in [Clients -> Runs \cup {NoRun}]
    /\ decision \in [Clients -> Decisions \cup {"none"}]
    /\ answer \in [Clients -> {0, 200, 400, 404, 409, 500}]
    /\ crashes \in 0..MaxCrashes
    /\ faults \in 0..MaxFaults

\* A run whose last gate a person let pass, or that met none.
Passed(r) ==
    \/ session[r] = "ungated"
    \/ session[r] = "closed" /\ outcome[r] \in {"approved", "modified"}

\* A run that met a gate is in the store only after a person let its last gate
\* pass: never while it waits, never after a rejection (routes.py:731-735).
RecordedOnlyApproved == \A r \in Runs : recs[r] > 0 => Passed(r)

\* However many resumes of one session overlap, its result is stored once.  The
\* route's check alone does not ensure it: resume_hitl_session must claim the
\* session itself.
RecordedOnce == \A r \in Runs : recs[r] <= 1

\* An approved result of an agent with an adapter reaches the store, or a request
\* is on its way there, unless the store is named none, a crash or a raising call
\* came in between; the session can then not be resumed again (409), so nothing
\* else would store it.
ApprovalRecorded ==
    (store = "kept" /\ crashes = 0 /\ faults = 0) =>
        \A r \in adapted :
            session[r] = "closed" /\ outcome[r] \in {"approved", "modified"} =>
                recs[r] = 1 \/ \E c \in Clients : pc[c] = "persist" /\ run[c] = r

\* The routes keep the contract's promise, whatever overlaps, crashes or raises
\* between the check, the resume and the save: a decision is taken once and never
\* revised, no closed session opens again, and what passed is stored at most once
\* (routes.py:536-621, 995-1100).
Gate == [r \in Runs |->
            IF Passed(r) THEN "passed"
            ELSE IF session[r] = "closed" THEN "rejected" ELSE session[r]]

Promise == INSTANCE GatePromise WITH gate <- Gate, stored <- recs

ImplementsGate == Promise!Spec

\* "400 bad decision, ... 409 not waiting" (routes.py:536): a resume is answered
\* 400 only for a decision the gate refuses.
Only400ForBadDecision == \A c \in Clients : answer[c] = 400 => decision[c] = "bad"
===============================================================================
