-------------------------- MODULE HitlSessionsProofs --------------------------
(***************************************************************************)
(* Theorems about HitlSessions: what is recorded, and how often, for any   *)
(* number of runs and of overlapping requests, crashes and failures.       *)
(***************************************************************************)
EXTENDS HitlSessions, TLAPS

\* Nothing is stored for a run before it has passed.
UnrecordedUntilPassed == \A r \in Runs : recs[r] > 0 => Passed(r)

\* A request about to store a run is the only one, and the first: the session is
\* no longer waiting, so no other resume gets through.
SoleWriter ==
    \A c \in Clients : pc[c] = "persist" =>
        /\ run[c] \in Runs
        /\ Passed(run[c])
        /\ recs[run[c]] = 0
        /\ \A d \in Clients : pc[d] = "persist" /\ run[d] = run[c] => d = c

\* A request past the route's check has a session.
CheckedHasRun ==
    \A c \in Clients : pc[c] = "checked" => run[c] \in Runs /\ decision[c] \in Decisions

Inv == TypeOK /\ RecordedOnce /\ UnrecordedUntilPassed /\ SoleWriter /\ CheckedHasRun

\* Nothing is stored at first.
LEMMA InitInv == Init => Inv
  BY HitlAssumption
  DEF Init, Inv, TypeOK, RecordedOnce, UnrecordedUntilPassed, SoleWriter, CheckedHasRun, Decisions

\* Answering moves one request only, to idle.
LEMMA ReplyMoves ==
  ASSUME TypeOK, NEW c \in Clients, NEW code \in {200, 400, 404, 409, 500}, Reply(c, code)
  PROVE  /\ answer' \in [Clients -> {0, 200, 400, 404, 409, 500}]
         /\ pc' \in [Clients -> {"idle", "checked", "persist"}]
         /\ run' \in [Clients -> Runs \cup {NoRun}]
         /\ \A d \in Clients : pc'[d] # "idle" =>
                d # c /\ pc'[d] = pc[d] /\ run'[d] = run[d]
  BY DEF TypeOK, Reply

\* Going on moves one request only, to the given step.
LEMMA GoOnMoves ==
  ASSUME TypeOK, NEW c \in Clients, NEW r \in Runs, NEW step \in {"checked", "persist"},
         GoOn(c, r, step)
  PROVE  /\ answer' \in [Clients -> {0, 200, 400, 404, 409, 500}]
         /\ pc' \in [Clients -> {"idle", "checked", "persist"}]
         /\ run' \in [Clients -> Runs \cup {NoRun}]
         /\ pc'[c] = step /\ run'[c] = r
         /\ \A d \in Clients : d # c => pc'[d] = pc[d] /\ run'[d] = run[d]
  BY DEF TypeOK, GoOn

\* A new run is not stored before, and only its own request stores it.
LEMMA InvokeInv ==
  ASSUME Inv, NEW c \in Clients, NEW r \in Runs, InvokeProduct(c, r) \/ StartSession(c, r)
  PROVE  Inv'
<1> USE DEF Inv
<1>1. PICK status \in {"waiting", "ungated"} :
        /\ session' = [session EXCEPT ![r] = status]
        /\ \/ status = "ungated" /\ GoOn(c, r, "persist")
           \/ Reply(c, 200)
  BY DEF InvokeProduct, StartSession, Persistable
<1>2. /\ session[r] = "none" /\ pc[c] = "idle"
      /\ decision' = [decision EXCEPT ![c] = "none"]
      /\ adapted' \in {adapted, adapted \cup {r}}
      /\ UNCHANGED <<outcome, recs, store, crashes, faults>>
  BY DEF InvokeProduct, StartSession, limits
<1>3. recs[r] = 0
  BY <1>2 DEF UnrecordedUntilPassed, Passed, TypeOK
<1>4. \A d \in Clients : pc[d] = "persist" => run[d] # r
  BY <1>2 DEF SoleWriter, Passed
<1>5. \A q \in Runs : q # r => (Passed(q)' <=> Passed(q))
  BY <1>1, <1>2 DEF Passed, TypeOK
<1>6. RecordedOnce' /\ UnrecordedUntilPassed'
  BY <1>2, <1>3, <1>5 DEF RecordedOnce, UnrecordedUntilPassed
<1>7. CASE Reply(c, 200)
  <2>1. TypeOK'
    BY <1>1, <1>2, <1>7, ReplyMoves DEF TypeOK
  <2>2. SoleWriter'
    BY <1>2, <1>4, <1>5, <1>7, ReplyMoves DEF SoleWriter
  <2>3. CheckedHasRun'
    BY <1>2, <1>7, ReplyMoves DEF CheckedHasRun, TypeOK
  <2> QED
    BY <1>6, <2>1, <2>2, <2>3
<1>8. CASE status = "ungated" /\ GoOn(c, r, "persist")
  <2>1. TypeOK'
    BY <1>1, <1>2, <1>8, GoOnMoves DEF TypeOK
  <2>2. Passed(r)'
    BY <1>1, <1>8 DEF Passed, TypeOK
  <2>3. SoleWriter'
    BY <1>2, <1>3, <1>4, <1>5, <1>8, <2>2, GoOnMoves DEF SoleWriter
  <2>4. CheckedHasRun'
    BY <1>2, <1>8, GoOnMoves DEF CheckedHasRun, TypeOK
  <2> QED
    BY <1>6, <2>1, <2>3, <2>4
<1> QED
  BY <1>1, <1>7, <1>8

\* The route's check stores nothing.
LEMMA CheckInv ==
  ASSUME Inv, NEW c \in Clients, NEW r \in Runs, NEW d \in Decisions, CheckResume(c, r, d)
  PROVE  Inv'
<1> USE DEF Inv
<1>1. /\ pc[c] = "idle"
      /\ decision' = [decision EXCEPT ![c] = d]
      /\ UNCHANGED <<session, outcome, recs, store, adapted, crashes, faults>>
      /\ \/ Reply(c, 404)
         \/ Reply(c, 409)
         \/ GoOn(c, r, "checked")
  BY DEF CheckResume, TypeOK, limits, places
<1>2. decision' \in [Clients -> Decisions \cup {"none"}]
  BY <1>1 DEF TypeOK
<1>3. RecordedOnce' /\ UnrecordedUntilPassed' /\ \A q \in Runs : Passed(q)' <=> Passed(q)
  BY <1>1 DEF RecordedOnce, UnrecordedUntilPassed, Passed
<1>4. ASSUME NEW code \in {404, 409}, Reply(c, code) PROVE Inv'
  BY <1>1, <1>2, <1>3, <1>4, ReplyMoves DEF TypeOK, SoleWriter, CheckedHasRun
<1>5. CASE GoOn(c, r, "checked")
  BY <1>1, <1>2, <1>3, <1>5, GoOnMoves DEF TypeOK, SoleWriter, CheckedHasRun
<1> QED
  BY <1>1, <1>4, <1>5

\* The resume that closes a session claims it: nobody else stores its run.
LEMMA ResumeInv ==
  ASSUME Inv, NEW c \in Clients, ResumeHitlSession(c) \/ ResumeHitlSessionRaises(c)
  PROVE  Inv'
<1> USE DEF Inv
<1>0. PICK r \in Runs : r = run[c]
  BY DEF ResumeHitlSession, ResumeHitlSessionRaises, CheckedHasRun
<1>1. /\ pc[c] = "checked" /\ r = run[c] /\ r \in Runs
      /\ UNCHANGED <<recs, store, adapted, decision, crashes>>
  BY <1>0 DEF ResumeHitlSession, ResumeHitlSessionRaises, limits, places
<1>2. faults' \in 0..MaxFaults
  BY HitlAssumption DEF ResumeHitlSession, ResumeHitlSessionRaises, TypeOK, limits
<1>3. ASSUME NEW code \in {400, 500}, Reply(c, code), UNCHANGED <<session, outcome>>
      PROVE  Inv'
  BY <1>1, <1>2, <1>3, ReplyMoves
  DEF TypeOK, SoleWriter, CheckedHasRun, RecordedOnce, UnrecordedUntilPassed, Passed
<1>4. ASSUME Resumable(r, decision[c]),
             NEW status \in {"waiting", "closed"},
             session' = [session EXCEPT ![r] = status],
             outcome' = [outcome EXCEPT ![r] = decision[c]],
             \/ Persistable(status, decision[c]) /\ GoOn(c, r, "persist")
             \/ \E code \in {200, 500} : Reply(c, code)
      PROVE  Inv'
  <2>1. session[r] = "waiting" /\ decision[c] \in {"approved", "rejected", "modified"}
    BY <1>1, <1>4 DEF Resumable, CheckedHasRun, Decisions
  <2>2. recs[r] = 0
    BY <1>1, <2>1 DEF UnrecordedUntilPassed, Passed, TypeOK
  <2>3. \A d \in Clients : pc[d] = "persist" => run[d] # r
    BY <2>1 DEF SoleWriter, Passed
  <2>4. \A q \in Runs : q # r => (Passed(q)' <=> Passed(q))
    BY <1>4 DEF Passed, TypeOK
  <2>5. RecordedOnce' /\ UnrecordedUntilPassed'
    BY <1>1, <2>2, <2>4 DEF RecordedOnce, UnrecordedUntilPassed
  <2>6. /\ session' \in [Runs -> {"none", "waiting", "closed", "ungated"}]
        /\ outcome' \in [Runs -> {"none", "approved", "rejected", "modified"}]
    BY <1>1, <1>4, <2>1 DEF TypeOK
  <2>7. CASE \E code \in {200, 500} : Reply(c, code)
    <3>1. PICK code \in {200, 500} : Reply(c, code)
      BY <2>7
    <3> QED
      BY <1>1, <1>2, <2>3, <2>4, <2>5, <2>6, <3>1, ReplyMoves
      DEF TypeOK, SoleWriter, CheckedHasRun
  <2>8. CASE Persistable(status, decision[c]) /\ GoOn(c, r, "persist")
    <3>1. Passed(r)'
      BY <1>1, <1>4, <2>1, <2>8 DEF Persistable, Passed, TypeOK
    <3>2. TypeOK'
      BY <1>1, <1>2, <2>6, <2>8, GoOnMoves DEF TypeOK
    <3>3. SoleWriter'
      BY <1>1, <2>2, <2>3, <2>4, <2>8, <3>1, GoOnMoves DEF SoleWriter
    <3>4. CheckedHasRun'
      BY <1>1, <2>8, GoOnMoves DEF CheckedHasRun
    <3> QED
      BY <2>5, <3>2, <3>3, <3>4
  <2> QED
    BY <1>4, <2>7, <2>8
<1> QED
  BY <1>0, <1>3, <1>4 DEF ResumeHitlSession, ResumeHitlSessionRaises

\* Storing happens once: the request that does it was the only one.
LEMMA PersistInv ==
  ASSUME Inv, NEW c \in Clients,
         PersistRecommendation(c) \/ PersistNowhere(c) \/ PersistRaises(c)
  PROVE  Inv'
<1> USE DEF Inv
<1>1. /\ pc[c] = "persist" /\ Reply(c, 200)
      /\ UNCHANGED <<session, outcome, store, adapted, decision, crashes>>
      /\ recs' = recs \/ recs' = [recs EXCEPT ![run[c]] = @ + 1]
  BY DEF PersistRecommendation, PersistNowhere, PersistRaises, limits, places
<1>2. faults' \in 0..MaxFaults
  BY HitlAssumption DEF PersistRecommendation, PersistNowhere, PersistRaises, TypeOK, limits
<1>3. run[c] \in Runs /\ Passed(run[c]) /\ recs[run[c]] = 0
  BY <1>1 DEF SoleWriter
<1>4. \A q \in Runs : Passed(q)' <=> Passed(q)
  BY <1>1 DEF Passed
<1>5. recs' \in [Runs -> Nat] /\ \A q \in Runs : q # run[c] => recs'[q] = recs[q]
  BY <1>1, <1>3 DEF TypeOK
<1>6. TypeOK'
  BY <1>1, <1>2, <1>5, ReplyMoves DEF TypeOK
<1>7. RecordedOnce' /\ UnrecordedUntilPassed'
  BY <1>1, <1>3, <1>4, <1>5 DEF RecordedOnce, UnrecordedUntilPassed, TypeOK
<1>8. SoleWriter'
  <2> SUFFICES ASSUME NEW d \in Clients, pc'[d] = "persist"
               PROVE  /\ run'[d] \in Runs /\ Passed(run[d])' /\ recs'[run'[d]] = 0
                      /\ \A e \in Clients : pc'[e] = "persist" /\ run'[e] = run'[d] => e = d
    BY DEF SoleWriter
  <2>1. d # c /\ pc[d] = "persist" /\ run'[d] = run[d]
    BY <1>1, ReplyMoves
  <2>2. run[d] \in Runs /\ Passed(run[d]) /\ recs[run[d]] = 0 /\ run[d] # run[c]
    BY <1>1, <2>1 DEF SoleWriter
  <2>3. Passed(run[d])' /\ recs'[run'[d]] = 0
    BY <1>1, <1>5, <2>1, <2>2 DEF Passed
  <2>4. \A e \in Clients : pc'[e] = "persist" /\ run'[e] = run'[d] => e = d
    BY <1>1, <2>1, ReplyMoves DEF SoleWriter
  <2> QED
    BY <2>1, <2>2, <2>3, <2>4
<1>9. CheckedHasRun'
  BY <1>1, ReplyMoves DEF CheckedHasRun
<1> QED
  BY <1>6, <1>7, <1>8, <1>9

\* Every step keeps the invariant; a crash only forgets requests.
LEMMA InvStep == Inv /\ [Next]_vars => Inv'
<1> SUFFICES ASSUME Inv, [Next]_vars PROVE Inv'
  OBVIOUS
<1>1. CASE Crash
  BY <1>1, HitlAssumption
  DEF Crash, Inv, TypeOK, RecordedOnce, UnrecordedUntilPassed, Passed, SoleWriter, CheckedHasRun
<1>2. CASE UNCHANGED vars
  BY <1>2
  DEF vars, client, limits, places, Inv, TypeOK, RecordedOnce, UnrecordedUntilPassed, Passed,
      SoleWriter, CheckedHasRun
<1> QED
  BY <1>1, <1>2, InvokeInv, CheckInv, ResumeInv, PersistInv DEF Next

\* Every variable keeps its type.
THEOREM SessionsTypeCorrect == Spec => []TypeOK
<1>1. Spec => []Inv
  BY InitInv, InvStep, PTL DEF Spec
<1>2. Inv => TypeOK
  BY DEF Inv
<1> QED
  BY <1>1, <1>2, PTL

\* However many resumes overlap, crash or fail, a run is stored at most once
\* (resume_session reads the status before its await).
THEOREM RunsRecordedOnce == Spec => []RecordedOnce
<1>1. Spec => []Inv
  BY InitInv, InvStep, PTL DEF Spec
<1>2. Inv => RecordedOnce
  BY DEF Inv
<1> QED
  BY <1>1, <1>2, PTL

\* A gated run is stored only after a person let its last gate pass
\* (is_hitl_waiting, should_persist_after_hitl).
THEOREM OnlyApprovedRecorded == Spec => []RecordedOnlyApproved
<1>1. Spec => []Inv
  BY InitInv, InvStep, PTL DEF Spec
<1>2. Inv => RecordedOnlyApproved
  BY DEF Inv, UnrecordedUntilPassed, RecordedOnlyApproved
<1> QED
  BY <1>1, <1>2, PTL

\* A request on its way to store run r.
Storing(r) == \E c \in Clients : pc[c] = "persist" /\ run[c] = r

\* With a store, and without crash and raising call, no step loses an approved
\* result of an agent with an adapter.
LEMMA ApprovalStep == Inv /\ ApprovalRecorded /\ [Next]_vars => ApprovalRecorded'
<1> SUFFICES ASSUME Inv, ApprovalRecorded, [Next]_vars,
                    store' = "kept", crashes' = 0, faults' = 0,
                    NEW r \in adapted',
                    session'[r] = "closed", outcome'[r] \in {"approved", "modified"}
             PROVE  recs'[r] = 1 \/ \E c \in Clients : pc'[c] = "persist" /\ run'[c] = r
  BY DEF ApprovalRecorded
<1>0. r \in Runs
  BY InvStep DEF Inv, TypeOK
<1> USE <1>0 DEF Inv
<1>1. ~Crash /\ \A c \in Clients : ~PersistRaises(c) /\ ~ResumeHitlSessionRaises(c)
  BY DEF Crash, PersistRaises, ResumeHitlSessionRaises, TypeOK
<1>2. store = "kept" /\ crashes = 0 /\ faults = 0
  BY <1>1 DEF Next, vars, limits, places, InvokeProduct, StartSession, CheckResume,
              ResumeHitlSession, PersistRecommendation, PersistNowhere
<1>3. ASSUME r \in adapted, session[r] = "closed", outcome[r] \in {"approved", "modified"}
      PROVE  recs[r] = 1 \/ Storing(r)
  BY <1>2, <1>3 DEF ApprovalRecorded, Storing
<1>4. ASSUME NEW c \in Clients, NEW q \in Runs, InvokeProduct(c, q) \/ StartSession(c, q)
      PROVE  recs'[r] = 1 \/ \E d \in Clients : pc'[d] = "persist" /\ run'[d] = r
  <2>1. PICK status \in {"waiting", "ungated"} :
          /\ session' = [session EXCEPT ![q] = status]
          /\ GoOn(c, q, "persist") \/ Reply(c, 200)
    BY <1>4 DEF InvokeProduct, StartSession
  <2>2. /\ pc[c] = "idle" /\ UNCHANGED <<outcome, recs>>
        /\ adapted' \in {adapted, adapted \cup {q}}
    BY <1>4 DEF InvokeProduct, StartSession
  <2>3. recs[r] = 1 \/ Storing(r)
    BY <1>3, <2>1, <2>2 DEF TypeOK
  <2> QED
    BY <2>1, <2>2, <2>3 DEF Storing, GoOn, Reply, TypeOK
<1>5. ASSUME NEW c \in Clients, NEW q \in Runs, NEW d \in Decisions, CheckResume(c, q, d)
      PROVE  recs'[r] = 1 \/ \E e \in Clients : pc'[e] = "persist" /\ run'[e] = r
  <2>1. /\ pc[c] = "idle" /\ UNCHANGED <<session, outcome, recs, adapted>>
        /\ Reply(c, 404) \/ Reply(c, 409) \/ GoOn(c, q, "checked")
    BY <1>5 DEF CheckResume, places
  <2>2. recs[r] = 1 \/ Storing(r)
    BY <1>3, <2>1
  <2> QED
    BY <2>1, <2>2 DEF Storing, GoOn, Reply, TypeOK
<1>6. ASSUME NEW c \in Clients, ResumeHitlSession(c)
      PROVE  recs'[r] = 1 \/ \E d \in Clients : pc'[d] = "persist" /\ run'[d] = r
  <2>1. pc[c] = "checked" /\ run[c] \in Runs /\ UNCHANGED <<recs, adapted>>
    BY <1>6 DEF ResumeHitlSession, CheckedHasRun, places
  <2>2. CASE ~Resumable(run[c], decision[c])
    <3>1. Reply(c, 400) /\ UNCHANGED <<session, outcome>>
      BY <1>6, <2>2 DEF ResumeHitlSession
    <3> QED
      BY <1>3, <2>1, <3>1 DEF Storing, Reply, TypeOK
  <2>3. CASE Resumable(run[c], decision[c])
    <3>1. PICK status \in {"waiting", "closed"} :
            /\ session' = [session EXCEPT ![run[c]] = status]
            /\ outcome' = [outcome EXCEPT ![run[c]] = decision[c]]
            /\ \/ Persistable(status, decision[c]) /\ GoOn(c, run[c], "persist")
               \/ ~Persistable(status, decision[c]) /\ Reply(c, 200)
      BY <1>6, <2>3 DEF ResumeHitlSession
    <3>2. CASE run[c] = r
      <4>1. status = "closed" /\ decision[c] \in {"approved", "modified"}
        BY <3>1, <3>2 DEF TypeOK
      <4>2. GoOn(c, run[c], "persist")
        BY <3>1, <4>1 DEF Persistable
      <4> QED
        BY <3>2, <4>2 DEF GoOn, TypeOK
    <3>3. CASE run[c] # r
      <4>1. session[r] = session'[r] /\ outcome[r] = outcome'[r]
        BY <2>1, <3>1, <3>3 DEF TypeOK
      <4>2. recs[r] = 1 \/ Storing(r)
        BY <1>3, <2>1, <4>1
      <4> QED
        BY <2>1, <3>1, <4>2 DEF Storing, GoOn, Reply, TypeOK
    <3> QED
      BY <3>2, <3>3
  <2> QED
    BY <2>2, <2>3
<1>7. ASSUME NEW c \in Clients, PersistRecommendation(c)
      PROVE  recs'[r] = 1 \/ \E d \in Clients : pc'[d] = "persist" /\ run'[d] = r
  <2>1. /\ pc[c] = "persist" /\ run[c] \in Runs /\ recs[run[c]] = 0
        /\ recs' = [recs EXCEPT ![run[c]] = @ + 1]
        /\ Reply(c, 200) /\ UNCHANGED <<session, outcome, adapted>>
    BY <1>7 DEF PersistRecommendation, SoleWriter, places
  <2>2. CASE run[c] = r
    BY <2>1, <2>2 DEF TypeOK
  <2>3. CASE run[c] # r
    BY <1>3, <2>1, <2>3 DEF Storing, Reply, TypeOK
  <2> QED
    BY <2>2, <2>3
<1>8. ASSUME NEW c \in Clients, PersistNowhere(c)
      PROVE  recs'[r] = 1 \/ \E d \in Clients : pc'[d] = "persist" /\ run'[d] = r
  <2>1. /\ pc[c] = "persist" /\ ~Storable(run[c])
        /\ Reply(c, 200) /\ UNCHANGED <<session, outcome, recs, adapted>>
    BY <1>8 DEF PersistNowhere, places
  <2>2. run[c] # r
    BY <1>2, <2>1 DEF Storable
  <2> QED
    BY <1>3, <2>1, <2>2 DEF Storing, Reply, TypeOK
<1>9. CASE UNCHANGED vars
  BY <1>3, <1>9 DEF vars, places, client, Storing
<1> QED
  BY <1>1, <1>4, <1>5, <1>6, <1>7, <1>8, <1>9 DEF Next

\* An approved result of an agent with an adapter is stored or about to be, as long
\* as the store is not named none, no process dies and no call raises
\* (resume_session stores after its await).
THEOREM ApprovalsReachStore == Spec => []ApprovalRecorded
<1>1. Init => Inv /\ ApprovalRecorded
  BY InitInv DEF Init, ApprovalRecorded
<1>2. Inv /\ ApprovalRecorded /\ [Next]_vars => Inv' /\ ApprovalRecorded'
  BY InvStep, ApprovalStep
<1> QED
  BY <1>1, <1>2, PTL DEF Spec
-------------------------------------------------------------------------------
(* The routes implement the gate's contract. *)

\* Writing one run's session or outcome leaves the gates of the others.
LEMMA GateMoves ==
  ASSUME TypeOK, NEW r \in Runs, NEW g,
         Gate'[r] = g,
         \A q \in Runs : q # r => session'[q] = session[q] /\ outcome'[q] = outcome[q]
  PROVE  Gate' = [Gate EXCEPT ![r] = g]
<1>1. \A q \in Runs : q # r => Gate'[q] = Gate[q]
  BY DEF Gate, Passed
<1> QED
  BY <1>1 DEF Gate

\* An invocation is the contract's Run, whatever route asked for it.
LEMMA InvokePromise ==
  ASSUME Inv, NEW c \in Clients, NEW r \in Runs, InvokeProduct(c, r) \/ StartSession(c, r)
  PROVE  Promise!Run(r)
<1>1. PICK status \in {"waiting", "ungated"} : session' = [session EXCEPT ![r] = status]
  BY DEF InvokeProduct, StartSession
<1>2. session[r] = "none" /\ UNCHANGED <<outcome, recs>>
  BY DEF InvokeProduct, StartSession
<1>3. /\ session \in [Runs -> {"none", "waiting", "closed", "ungated"}]
      /\ TypeOK
  BY DEF Inv, TypeOK
<1>4. session'[r] = status /\ \A q \in Runs : q # r => session'[q] = session[q]
  BY <1>1, <1>3
<1>5. Gate[r] = "none"
  BY <1>2 DEF Gate, Passed
<1>6. Gate'[r] = IF status = "waiting" THEN "waiting" ELSE "passed"
  BY <1>4 DEF Gate, Passed
<1>7. \E g \in {"waiting", "passed"} : Gate' = [Gate EXCEPT ![r] = g]
  BY <1>2, <1>3, <1>4, <1>6, GateMoves
<1> QED
  BY <1>2, <1>5, <1>7 DEF Promise!Run

\* A resume decides a waiting run, or leaves it at its next gate.
LEMMA ResumePromise ==
  ASSUME Inv, NEW c \in Clients, ResumeHitlSession(c) \/ ResumeHitlSessionRaises(c)
  PROVE  Promise!Decide(run[c]) \/ UNCHANGED <<Gate, recs>>
<1>1. /\ pc[c] = "checked" /\ run[c] \in Runs /\ decision[c] \in Decisions
      /\ UNCHANGED recs
  BY DEF Inv, CheckedHasRun, ResumeHitlSession, ResumeHitlSessionRaises
<1>2. \/ UNCHANGED <<session, outcome>>
      \/ /\ Resumable(run[c], decision[c])
         /\ \E status \in {"waiting", "closed"} :
                session' = [session EXCEPT ![run[c]] = status]
         /\ outcome' = [outcome EXCEPT ![run[c]] = decision[c]]
  BY DEF ResumeHitlSession, ResumeHitlSessionRaises
<1>3. CASE UNCHANGED <<session, outcome>>
  BY <1>1, <1>3 DEF Gate, Passed
<1>4. ASSUME Resumable(run[c], decision[c]),
             NEW status \in {"waiting", "closed"},
             session' = [session EXCEPT ![run[c]] = status],
             outcome' = [outcome EXCEPT ![run[c]] = decision[c]]
      PROVE  Promise!Decide(run[c]) \/ UNCHANGED <<Gate, recs>>
  <2> DEFINE r == run[c]
  <2>1. /\ session[r] = "waiting" /\ Gate[r] = "waiting"
        /\ decision[c] \in {"approved", "rejected", "modified"}
    BY <1>1, <1>4 DEF Resumable, Decisions, Gate, Passed
  <2>2. /\ session \in [Runs -> {"none", "waiting", "closed", "ungated"}]
        /\ outcome \in [Runs -> {"none", "approved", "rejected", "modified"}]
        /\ TypeOK
    BY DEF Inv, TypeOK
  <2>3. /\ session'[r] = status /\ outcome'[r] = decision[c]
        /\ \A q \in Runs : q # r => session'[q] = session[q] /\ outcome'[q] = outcome[q]
    BY <1>1, <1>4, <2>2
  <2>4. Gate'[r] = IF status = "waiting" THEN "waiting"
                   ELSE IF decision[c] = "rejected" THEN "rejected" ELSE "passed"
    BY <1>1, <2>1, <2>3 DEF Gate, Passed
  <2>5. Gate' = [Gate EXCEPT ![r] = Gate'[r]]
    BY <1>1, <2>2, <2>3, GateMoves
  <2>6. CASE status = "waiting"
    <3>1. Gate' = Gate
      BY <1>1, <2>1, <2>4, <2>5, <2>6 DEF Gate
    <3> QED
      BY <1>1, <3>1
  <2>7. CASE status = "closed"
    <3>1. \E g \in {"passed", "rejected"} : Gate' = [Gate EXCEPT ![r] = g]
      BY <2>4, <2>5, <2>7
    <3> QED
      BY <1>1, <2>1, <3>1 DEF Promise!Decide
  <2> QED
    BY <1>4, <2>6, <2>7
<1> QED
  BY <1>2, <1>3, <1>4

\* A save stores a run that passed and is not stored yet.
LEMMA PersistPromise ==
  ASSUME Inv, NEW c \in Clients, PersistRecommendation(c)
  PROVE  run[c] \in Runs /\ Promise!Store(run[c])
<1>1. /\ run[c] \in Runs /\ Passed(run[c]) /\ recs[run[c]] = 0
      /\ recs' = [recs EXCEPT ![run[c]] = recs[run[c]] + 1]
      /\ UNCHANGED <<session, outcome>>
  BY DEF Inv, SoleWriter, PersistRecommendation
<1>2. Gate[run[c]] = "passed" /\ Gate' = Gate
  BY <1>1 DEF Gate, Passed
<1>3. recs' = [recs EXCEPT ![run[c]] = 1]
  BY <1>1
<1> QED
  BY <1>1, <1>2, <1>3 DEF Promise!Store

\* A decision is taken once and never revised, no closed session opens again, and
\* what passed is stored at most once, whatever overlaps, crashes or raises.
THEOREM RoutesImplementGate == Spec => ImplementsGate
<1>1. Init => Promise!Init
  BY DEF Init, Promise!Init, Gate, Passed
<1>2. Inv /\ [Next]_vars => [Promise!Next]_(Promise!vars)
  <2> SUFFICES ASSUME Inv, [Next]_vars PROVE Promise!Next \/ UNCHANGED <<Gate, recs>>
    BY DEF Promise!vars
  <2>1. ASSUME NEW c \in Clients, NEW r \in Runs, InvokeProduct(c, r) \/ StartSession(c, r)
        PROVE  Promise!Next
    BY <2>1, InvokePromise DEF Promise!Next
  <2>2. ASSUME NEW c \in Clients, ResumeHitlSession(c) \/ ResumeHitlSessionRaises(c)
        PROVE  Promise!Next \/ UNCHANGED <<Gate, recs>>
    <3>1. run[c] \in Runs
      BY <2>2 DEF Inv, CheckedHasRun, ResumeHitlSession, ResumeHitlSessionRaises
    <3> QED
      BY <2>2, <3>1, ResumePromise DEF Promise!Next
  <2>3. ASSUME NEW c \in Clients, PersistRecommendation(c) PROVE Promise!Next
    BY <2>3, PersistPromise DEF Promise!Next
  <2>4. ASSUME UNCHANGED <<session, outcome, recs>> PROVE UNCHANGED <<Gate, recs>>
    BY <2>4 DEF Gate, Passed
  <2>5. ASSUME NEW c \in Clients, NEW r \in Runs, NEW d \in Decisions, CheckResume(c, r, d)
        PROVE  UNCHANGED <<Gate, recs>>
    BY <2>4, <2>5 DEF CheckResume
  <2>6. ASSUME NEW c \in Clients, PersistNowhere(c) \/ PersistRaises(c)
        PROVE  UNCHANGED <<Gate, recs>>
    BY <2>4, <2>6 DEF PersistNowhere, PersistRaises
  <2>7. CASE Crash \/ UNCHANGED vars
    BY <2>4, <2>7 DEF Crash, vars
  <2> QED
    BY <2>1, <2>2, <2>3, <2>5, <2>6, <2>7 DEF Next
<1>3. Spec => []Inv
  BY InitInv, InvStep, PTL DEF Spec
<1> QED
  BY <1>1, <1>2, <1>3, PTL DEF Spec, ImplementsGate, Promise!Spec
===============================================================================
