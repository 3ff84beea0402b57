------------------------- MODULE RecommendationsProofs -------------------------
(***************************************************************************)
(* Theorems about Recommendations: who writes a record, however requests   *)
(* overlap; what an overlap can do to it at worst; and that the routes     *)
(* implement the lifecycle for every record without an overlap.            *)
(***************************************************************************)
EXTENDS Recommendations, TLAPS

\* A request in flight passed the ownership check, and a record never changes
\* hands: so the check still holds when the request writes.
RequestOwns ==
    \A c \in Clients : pc[c] # "idle" =>
        /\ req[c] \in Bodies
        /\ row[req[c].id] \in Rows
        /\ row[req[c].id].owner = req[c].route

\* The record a request is about to save is its own agent's.
CopyOwned ==
    \A c \in Clients : pc[c] = "merge" =>
        copy[c] \in Rows /\ copy[c].owner = req[c].route

OwnerInv == TypeOK /\ RequestOwns /\ CopyOwned /\ OwnRouteOnly

\* No record and no request at first.
LEMMA InitOwner == Init => OwnerInv
  BY LifecycleAssumption
  DEF Init, OwnerInv, TypeOK, RequestOwns, CopyOwned, OwnRouteOnly, Bodies, NoBody

\* A new record has written nobody but its owner, and no request is about it yet.
LEMMA PersistOwner ==
  ASSUME OwnerInv, NEW i \in Ids, NEW a \in Agents, PersistRecommendation(i, a)
  PROVE  OwnerInv'
<1> DEFINE new == [owner |-> a, status |-> "proposed", labels |-> {}]
<1> USE DEF OwnerInv, PersistRecommendation, client
<1>1. new \in Rows /\ row[i] = NoRow /\ NoRow \notin Rows
  BY LifecycleAssumption DEF Rows
<1>2. TypeOK'
  <2>1. row' = [row EXCEPT ![i] = new] /\ past' = [past EXCEPT ![i] = {new}]
    BY Zenon
  <2> QED
    BY <1>1, <2>1 DEF TypeOK
<1>3. \A c \in Clients : pc[c] # "idle" => req[c].id # i
  BY <1>1 DEF RequestOwns
<1>4. RequestOwns'
  BY <1>3 DEF RequestOwns, TypeOK, Bodies
<1>5. CopyOwned'
  BY DEF CopyOwned
<1>6. OwnRouteOnly'
  BY <1>1 DEF OwnRouteOnly, TypeOK
<1> QED
  BY <1>2, <1>4, <1>5, <1>6

\* A refused or answered request leaves nothing behind.
LEMMA ReplyTyped ==
  ASSUME TypeOK, NEW c \in Clients, NEW code \in {200, 400, 404, 500}, Reply(c, code)
  PROVE  /\ answer' \in [Clients -> {0, 200, 400, 404, 500}]
         /\ pc' \in [Clients -> {"idle", "owned", "merge"}]
         /\ req' \in [Clients -> Bodies \cup {NoBody}]
         /\ copy' \in [Clients -> Rows \cup {NoRow}]
         /\ \A d \in Clients : pc'[d] # "idle" =>
                d # c /\ pc'[d] = pc[d] /\ req'[d] = req[d] /\ copy'[d] = copy[d]
  BY DEF TypeOK, Reply

\* A request enters only with the ownership it needs.
LEMMA RecordForAgentOwner ==
  ASSUME OwnerInv, NEW c \in Clients, NEW body \in Bodies, RecordForAgent(c, body)
  PROVE  OwnerInv'
<1> USE DEF OwnerInv
<1>0. patches' \in 0..MaxPatches
  BY LifecycleAssumption DEF RecordForAgent, TypeOK
<1>1. CASE Owned(body.id, body.route)
  <2>1. row[body.id] \in Rows /\ row[body.id].owner = body.route
    BY <1>1 DEF Owned, TypeOK, Bodies
  <2>2. TypeOK'
    <3>1. overlapped' \subseteq Ids
      BY <1>1 DEF RecordForAgent, TypeOK, Bodies
    <3> QED
      BY <1>0, <1>1, <3>1 DEF RecordForAgent, TypeOK
  <2>3. RequestOwns'
    BY <1>1, <2>1 DEF RecordForAgent, RequestOwns, TypeOK
  <2>4. CopyOwned'
    BY <1>1 DEF RecordForAgent, CopyOwned, TypeOK
  <2>5. OwnRouteOnly'
    BY DEF RecordForAgent, OwnRouteOnly
  <2> QED
    BY <2>2, <2>3, <2>4, <2>5
<1>2. CASE ~Owned(body.id, body.route)
  <2>1. Reply(c, 404) /\ UNCHANGED <<row, promised, writers, past, overlapped, faults>>
    BY <1>2 DEF RecordForAgent
  <2>2. TypeOK'
    BY <1>0, <2>1, ReplyTyped DEF TypeOK
  <2>3. RequestOwns' /\ CopyOwned'
    BY <2>1, ReplyTyped DEF RequestOwns, CopyOwned
  <2>4. OwnRouteOnly'
    BY <2>1 DEF OwnRouteOnly
  <2> QED
    BY <2>2, <2>3, <2>4
<1> QED
  BY <1>1, <1>2

\* A move keeps the owner.
LEMMA UpdateStatusOwner ==
  ASSUME OwnerInv, NEW c \in Clients, UpdateStatus(c)
  PROVE  OwnerInv'
<1> USE DEF OwnerInv
<1> DEFINE i == req[c].id
           next == [row[i] EXCEPT !.status = req[c].status]
<1>1. req[c] \in Bodies /\ i \in Ids /\ row[i] \in Rows /\ row[i].owner = req[c].route
  BY DEF UpdateStatus, RequestOwns, Bodies
<1>2. next \in Rows /\ next.owner = row[i].owner
  BY <1>1 DEF Rows, Bodies
<1> HIDE DEF next
<1>3. CASE LegalMove(i, req[c].status)
  <2>1. /\ row' = [row EXCEPT ![i] = next]
        /\ writers' = [writers EXCEPT ![i] = @ \cup {req[c].route}]
        /\ past' = [past EXCEPT ![i] = @ \cup {next}]
        /\ UNCHANGED <<promised, overlapped, patches, faults>>
        /\ \/ Reply(c, 200)
           \/ /\ copy' = [copy EXCEPT ![c] = next]
              /\ pc' = [pc EXCEPT ![c] = "merge"]
              /\ UNCHANGED <<req, answer>>
    BY <1>3 DEF UpdateStatus, next
  <2>2. /\ row' \in [Ids -> Rows \cup {NoRow}]
        /\ writers' \in [Ids -> SUBSET Agents]
        /\ past' \in [Ids -> SUBSET Rows]
    BY <1>1, <1>2, <2>1 DEF TypeOK, Bodies
  <2>3. \A j \in Ids : row[j] \in Rows => row'[j] \in Rows /\ row'[j].owner = row[j].owner
    BY <1>1, <1>2, <2>1 DEF TypeOK
  <2>4. \A j \in Ids : row'[j] # NoRow => row[j] # NoRow
    BY <1>1, <2>1, LifecycleAssumption DEF TypeOK, Rows
  <2>5. OwnRouteOnly'
    BY <1>1, <2>1, <2>3, <2>4 DEF OwnRouteOnly, TypeOK
  <2>6. CASE Reply(c, 200)
    <3>1. TypeOK'
      BY <2>1, <2>2, <2>6, ReplyTyped DEF TypeOK
    <3>2. RequestOwns' /\ CopyOwned'
      BY <2>3, <2>6, ReplyTyped DEF RequestOwns, CopyOwned, Bodies
    <3> QED
      BY <2>5, <3>1, <3>2
  <2>7. CASE /\ copy' = [copy EXCEPT ![c] = next]
             /\ pc' = [pc EXCEPT ![c] = "merge"]
             /\ UNCHANGED <<req, answer>>
    <3>1. TypeOK'
      BY <1>2, <2>1, <2>2, <2>7 DEF TypeOK
    <3>2. RequestOwns'
      BY <1>1, <2>3, <2>7 DEF RequestOwns, TypeOK, Bodies
    <3>3. CopyOwned'
      BY <1>1, <1>2, <2>7 DEF CopyOwned, TypeOK
    <3> QED
      BY <2>5, <3>1, <3>2, <3>3
  <2> QED
    BY <2>1, <2>6, <2>7
<1>4. CASE ~LegalMove(i, req[c].status)
  <2>1. Reply(c, 400) /\ UNCHANGED <<row, writers, past, promised, overlapped, patches, faults>>
    BY <1>4 DEF UpdateStatus
  <2> QED
    BY <2>1, ReplyTyped DEF TypeOK, RequestOwns, CopyOwned, OwnRouteOnly
<1> QED
  BY <1>3, <1>4

\* The whole record a request saves still names its own agent.
LEMMA SaveOutcomeOwner ==
  ASSUME OwnerInv, NEW c \in Clients, SaveOutcome(c)
  PROVE  OwnerInv'
<1> USE DEF OwnerInv
<1> DEFINE i == req[c].id
           saved == [copy[c] EXCEPT !.labels = MergeOutcome(c)]
<1>1. req[c] \in Bodies /\ i \in Ids /\ row[i] \in Rows /\ row[i].owner = req[c].route
  BY DEF SaveOutcome, RequestOwns, Bodies
<1>2. saved \in Rows /\ saved.owner = row[i].owner
  BY <1>1 DEF SaveOutcome, CopyOwned, MergeOutcome, Rows, Bodies
<1>3. /\ row' = [row EXCEPT ![i] = saved]
      /\ past' = [past EXCEPT ![i] = @ \cup {saved}]
      /\ writers' = [writers EXCEPT ![i] = @ \cup {req[c].route}]
      /\ promised' = [promised EXCEPT ![i] = @ \cup req[c].labels]
      /\ Reply(c, 200)
      /\ UNCHANGED <<overlapped, patches, faults>>
  BY DEF SaveOutcome
<1> HIDE DEF saved
<1>4. \A j \in Ids : row[j] \in Rows => row'[j] \in Rows /\ row'[j].owner = row[j].owner
  BY <1>1, <1>2, <1>3 DEF TypeOK
<1>5. \A j \in Ids : row'[j] # NoRow => row[j] # NoRow
  BY <1>1, <1>3, LifecycleAssumption DEF TypeOK, Rows
<1>6. TypeOK'
  <2>1. row' \in [Ids -> Rows \cup {NoRow}] /\ writers' \in [Ids -> SUBSET Agents]
    BY <1>1, <1>2, <1>3 DEF TypeOK, Bodies
  <2>2. promised' \in [Ids -> SUBSET Labels]
    BY <1>1, <1>3 DEF TypeOK, Bodies
  <2>3. past' \in [Ids -> SUBSET Rows]
    BY <1>1, <1>2, <1>3 DEF TypeOK
  <2> QED
    BY <1>3, <2>1, <2>2, <2>3, ReplyTyped DEF TypeOK
<1>7. RequestOwns' /\ CopyOwned'
  BY <1>3, <1>4, ReplyTyped DEF RequestOwns, CopyOwned, Bodies
<1>8. OwnRouteOnly'
  BY <1>1, <1>3, <1>4, <1>5 DEF OwnRouteOnly, TypeOK
<1> QED
  BY <1>6, <1>7, <1>8

\* A raising store call changes no record.
LEMMA RaisesOwner ==
  ASSUME OwnerInv, NEW c \in Clients, UpdateStatusRaises(c) \/ SaveOutcomeRaises(c)
  PROVE  OwnerInv'
<1> USE DEF OwnerInv
<1>1. PICK code \in {400, 500} : Reply(c, code)
  BY DEF UpdateStatusRaises, SaveOutcomeRaises
<1>2. faults' \in 0..MaxFaults /\ UNCHANGED <<row, promised, writers, past, overlapped, patches>>
  BY LifecycleAssumption DEF UpdateStatusRaises, SaveOutcomeRaises, TypeOK, history
<1>3. TypeOK'
  BY <1>1, <1>2, ReplyTyped DEF TypeOK
<1> QED
  BY <1>1, <1>2, <1>3, ReplyTyped DEF RequestOwns, CopyOwned, OwnRouteOnly

\* Every step keeps records with their owners.
LEMMA OwnerStep == OwnerInv /\ [Next]_vars => OwnerInv'
<1> SUFFICES ASSUME OwnerInv, [Next]_vars PROVE OwnerInv'
  OBVIOUS
<1>1. CASE UNCHANGED vars
  BY <1>1 DEF vars, client, history, OwnerInv, TypeOK, RequestOwns, CopyOwned, OwnRouteOnly
<1>2. CASE Next
  BY <1>2, PersistOwner, RecordForAgentOwner, UpdateStatusOwner, SaveOutcomeOwner,
     RaisesOwner DEF Next
<1> QED
  BY <1>1, <1>2

\* The ownership read of a PATCH and its writes are separate store calls; a record
\* is written through its own agent's routes all the same (_record_for_agent).
THEOREM OwnersKept == Spec => []OwnRouteOnly
<1>1. Spec => []OwnerInv
  BY InitOwner, OwnerStep, PTL DEF Spec
<1>2. OwnerInv => OwnRouteOnly
  BY DEF OwnerInv
<1> QED
  BY <1>1, <1>2, PTL

\* Every variable keeps its type.
THEOREM RowsTypeCorrect == Spec => []TypeOK
<1>1. Spec => []OwnerInv
  BY InitOwner, OwnerStep, PTL DEF Spec
<1>2. OwnerInv => TypeOK
  BY DEF OwnerInv
<1> QED
  BY <1>1, <1>2, PTL
-------------------------------------------------------------------------------
(* What overlapping requests can do at worst. *)

\* The present version of a record is one it has had, and so is the copy a
\* request is about to save.
Versions ==
    /\ \A i \in Ids : row[i] # NoRow => row[i] \in past[i]
    /\ \A c \in Clients : pc[c] = "merge" => copy[c] \in past[req[c].id]

\* What each action does to the record and its versions, and to the requests that
\* are about to save.
LEMMA WriteStep ==
  ASSUME OwnerInv, [Next]_vars
  PROVE  \/ \E i \in Ids, a \in Agents : PersistRecommendation(i, a)
         \/ \E c \in Clients : UpdateStatus(c) \/ SaveOutcome(c)
         \/ /\ UNCHANGED <<row, past, promised>>
            /\ \A c \in Clients : pc'[c] = "merge" =>
                    pc[c] = "merge" /\ copy'[c] = copy[c] /\ req'[c] = req[c]
<1> SUFFICES ASSUME ~\E i \in Ids, a \in Agents : PersistRecommendation(i, a),
                    ~\E c \in Clients : UpdateStatus(c) \/ SaveOutcome(c)
             PROVE  /\ UNCHANGED <<row, past, promised>>
                    /\ \A c \in Clients : pc'[c] = "merge" =>
                            pc[c] = "merge" /\ copy'[c] = copy[c] /\ req'[c] = req[c]
  OBVIOUS
<1> USE DEF OwnerInv
<1>1. ASSUME NEW d \in Clients, NEW body \in Bodies, RecordForAgent(d, body)
      PROVE  /\ UNCHANGED <<row, past, promised>>
             /\ \A c \in Clients : pc'[c] = "merge" =>
                    pc[c] = "merge" /\ copy'[c] = copy[c] /\ req'[c] = req[c]
  <2>1. UNCHANGED <<row, past, promised>>
    BY <1>1 DEF RecordForAgent
  <2>2. CASE Owned(body.id, body.route)
    BY <1>1, <2>1, <2>2 DEF RecordForAgent, TypeOK
  <2>3. CASE ~Owned(body.id, body.route)
    <3>1. Reply(d, 404)
      BY <1>1, <2>3 DEF RecordForAgent
    <3> QED
      BY <2>1, <3>1, ReplyTyped
  <2> QED
    BY <2>2, <2>3
<1>2. ASSUME NEW d \in Clients, UpdateStatusRaises(d) \/ SaveOutcomeRaises(d)
      PROVE  /\ UNCHANGED <<row, past, promised>>
             /\ \A c \in Clients : pc'[c] = "merge" =>
                    pc[c] = "merge" /\ copy'[c] = copy[c] /\ req'[c] = req[c]
  <2>1. PICK code \in {400, 500} : Reply(d, code)
    BY <1>2 DEF UpdateStatusRaises, SaveOutcomeRaises
  <2> QED
    BY <1>2, <2>1, ReplyTyped DEF UpdateStatusRaises, SaveOutcomeRaises, history
<1>3. CASE UNCHANGED vars
  BY <1>3 DEF vars, client, history
<1> QED
  BY <1>1, <1>2, <1>3 DEF Next

\* What update_status does when the move is allowed.
LEMMA MoveStep ==
  ASSUME OwnerInv, NEW c \in Clients, UpdateStatus(c),
         LegalMove(req[c].id, req[c].status)
  PROVE  LET i == req[c].id
             next == [row[i] EXCEPT !.status = req[c].status]
         IN  /\ pc[c] = "owned" /\ req[c] \in Bodies /\ i \in Ids /\ row[i] \in Rows
             /\ next \in Rows /\ next.labels = row[i].labels /\ next.owner = row[i].owner
             /\ <<row[i].status, req[c].status>> \in Allowed /\ req[c].status \in Statuses
             /\ row' = [row EXCEPT ![i] = next]
             /\ past' = [past EXCEPT ![i] = past[i] \cup {next}]
             /\ UNCHANGED <<promised, overlapped>>
             /\ \/ Reply(c, 200)
                \/ /\ copy' = [copy EXCEPT ![c] = next]
                   /\ pc' = [pc EXCEPT ![c] = "merge"]
                   /\ UNCHANGED req
<1> DEFINE i == req[c].id
           next == [row[i] EXCEPT !.status = req[c].status]
<1>1. pc[c] = "owned" /\ req[c] \in Bodies /\ i \in Ids /\ row[i] \in Rows
  BY DEF UpdateStatus, OwnerInv, RequestOwns, Bodies
<1>2. next \in Rows /\ next.labels = row[i].labels /\ next.owner = row[i].owner
  BY <1>1 DEF Rows, Bodies
<1>3. <<row[i].status, req[c].status>> \in Allowed /\ req[c].status \in Statuses
  BY <1>1 DEF LegalMove, Bodies
<1>4. /\ row' = [row EXCEPT ![i] = next]
      /\ past' = [past EXCEPT ![i] = past[i] \cup {next}]
      /\ UNCHANGED <<promised, overlapped>>
      /\ \/ Reply(c, 200)
         \/ /\ copy' = [copy EXCEPT ![c] = next]
            /\ pc' = [pc EXCEPT ![c] = "merge"]
            /\ UNCHANGED req
  BY DEF UpdateStatus
<1> HIDE DEF i, next
<1>5. QED
  BY <1>1, <1>2, <1>3, <1>4 DEF i, next

\* A move that is not allowed is answered 400 and writes nothing.
LEMMA RefusedStep ==
  ASSUME OwnerInv, NEW c \in Clients, UpdateStatus(c),
         ~LegalMove(req[c].id, req[c].status)
  PROVE  Reply(c, 400) /\ UNCHANGED <<row, past, promised, overlapped>>
  BY DEF UpdateStatus

\* What a save does.
LEMMA SaveStep ==
  ASSUME OwnerInv, NEW c \in Clients, SaveOutcome(c)
  PROVE  LET i == req[c].id
             saved == [copy[c] EXCEPT !.labels = copy[c].labels \cup req[c].labels]
         IN  /\ pc[c] = "merge" /\ req[c] \in Bodies /\ i \in Ids /\ row[i] \in Rows
             /\ copy[c] \in Rows /\ copy[c].owner = row[i].owner
             /\ saved \in Rows /\ saved.labels = copy[c].labels \cup req[c].labels
             /\ saved.owner = row[i].owner
             /\ row' = [row EXCEPT ![i] = saved]
             /\ past' = [past EXCEPT ![i] = past[i] \cup {saved}]
             /\ promised' = [promised EXCEPT ![i] = promised[i] \cup req[c].labels]
             /\ Reply(c, 200) /\ UNCHANGED overlapped
<1> DEFINE i == req[c].id
           saved == [copy[c] EXCEPT !.labels = copy[c].labels \cup req[c].labels]
<1>1. /\ pc[c] = "merge" /\ req[c] \in Bodies /\ i \in Ids /\ row[i] \in Rows
      /\ copy[c] \in Rows /\ copy[c].owner = row[i].owner
  BY DEF SaveOutcome, OwnerInv, RequestOwns, CopyOwned, Bodies
<1>2. /\ saved \in Rows /\ saved.labels = copy[c].labels \cup req[c].labels
      /\ saved.owner = row[i].owner
  BY <1>1 DEF Rows, Bodies
<1>3. /\ row' = [row EXCEPT ![i] = saved]
      /\ past' = [past EXCEPT ![i] = past[i] \cup {saved}]
      /\ promised' = [promised EXCEPT ![i] = promised[i] \cup req[c].labels]
      /\ Reply(c, 200) /\ UNCHANGED overlapped
  BY DEF SaveOutcome, MergeOutcome
<1> HIDE DEF i, saved
<1>4. QED
  BY <1>1, <1>2, <1>3 DEF i, saved

\* Every write adds the version it writes.
LEMMA VersionsStep ==
  ASSUME OwnerInv, Versions, [Next]_vars
  PROVE  Versions'
<1> USE DEF OwnerInv
<1>1. ASSUME NEW i \in Ids, NEW a \in Agents, PersistRecommendation(i, a)
      PROVE  Versions'
  <2> DEFINE new == [owner |-> a, status |-> "proposed", labels |-> {}]
  <2>1. /\ row[i] = NoRow /\ row' = [row EXCEPT ![i] = new]
        /\ past' = [past EXCEPT ![i] = {new}] /\ UNCHANGED <<pc, copy, req>>
    BY <1>1 DEF PersistRecommendation, client
  <2>2. \A c \in Clients : pc[c] = "merge" => req[c].id # i /\ req[c].id \in Ids
    BY <2>1, LifecycleAssumption DEF RequestOwns, Rows, Bodies
  <2> HIDE DEF new
  <2> QED
    BY <2>1, <2>2 DEF Versions, TypeOK
<1>2. ASSUME NEW c \in Clients, UpdateStatus(c)
      PROVE  Versions'
  <2> DEFINE i == req[c].id
             next == [row[i] EXCEPT !.status = req[c].status]
  <2>1. CASE LegalMove(i, req[c].status)
    <3>1. /\ i \in Ids /\ next \in Rows /\ row' = [row EXCEPT ![i] = next]
          /\ past' = [past EXCEPT ![i] = past[i] \cup {next}]
          /\ \/ Reply(c, 200)
             \/ /\ copy' = [copy EXCEPT ![c] = next]
                /\ pc' = [pc EXCEPT ![c] = "merge"]
                /\ UNCHANGED req
      BY <1>2, <2>1, MoveStep, Zenon
    <3> HIDE DEF next
    <3>2. \A d \in Clients : pc'[d] = "merge" =>
              \/ pc[d] = "merge" /\ copy'[d] = copy[d] /\ req'[d] = req[d]
              \/ copy'[d] = next /\ req'[d].id = i
      <4>1. CASE Reply(c, 200)
        BY <4>1, ReplyTyped
      <4>2. CASE /\ copy' = [copy EXCEPT ![c] = next]
                 /\ pc' = [pc EXCEPT ![c] = "merge"]
                 /\ UNCHANGED req
        BY <4>2 DEF TypeOK
      <4> QED
        BY <3>1, <4>1, <4>2
    <3>3. \A j \in Ids : past[j] \subseteq past'[j]
      BY <3>1 DEF TypeOK
    <3>4. next \in past'[i]
      BY <3>1 DEF TypeOK
    <3>5. \A j \in Ids : row'[j] # NoRow => row'[j] \in past'[j]
      BY <3>1, <3>3, <3>4 DEF TypeOK, Versions
    <3>6. \A d \in Clients : pc[d] = "merge" => req[d].id \in Ids
      BY DEF RequestOwns, Bodies
    <3> QED
      BY <3>2, <3>3, <3>4, <3>5, <3>6 DEF Versions
  <2>2. CASE ~LegalMove(i, req[c].status)
    <3>1. Reply(c, 400) /\ UNCHANGED <<row, past>>
      BY <1>2, <2>2, RefusedStep
    <3> QED
      BY <3>1, ReplyTyped DEF Versions
  <2> QED
    BY <2>1, <2>2
<1>3. ASSUME NEW c \in Clients, SaveOutcome(c)
      PROVE  Versions'
  <2> DEFINE i == req[c].id
             saved == [copy[c] EXCEPT !.labels = copy[c].labels \cup req[c].labels]
  <2>1. /\ i \in Ids /\ row' = [row EXCEPT ![i] = saved]
        /\ past' = [past EXCEPT ![i] = past[i] \cup {saved}] /\ Reply(c, 200)
    BY <1>3, SaveStep, Zenon
  <2> HIDE DEF saved
  <2>2. \A j \in Ids : row'[j] # NoRow => row'[j] \in past'[j]
    BY <2>1 DEF TypeOK, Versions
  <2>3. \A j \in Ids : past[j] \subseteq past'[j]
    BY <2>1 DEF TypeOK
  <2>4. \A d \in Clients : pc[d] = "merge" => req[d].id \in Ids
    BY DEF RequestOwns, Bodies
  <2> QED
    BY <2>1, <2>2, <2>3, <2>4, ReplyTyped DEF Versions
<1>4. CASE /\ UNCHANGED <<row, past, promised>>
           /\ \A c \in Clients : pc'[c] = "merge" =>
                pc[c] = "merge" /\ copy'[c] = copy[c] /\ req'[c] = req[c]
  BY <1>4 DEF Versions
<1> QED
  BY <1>1, <1>2, <1>3, <1>4, WriteStep

\* A record moves along the table, or an earlier version of it is put back with
\* the fields of a request on top.
LEMMA SetBackStep ==
  ASSUME OwnerInv, Versions, [Next]_vars, NEW i \in Ids, row[i] # NoRow, row'[i] # row[i]
  PROVE  \/ \E s \in Statuses : /\ <<row[i].status, s>> \in Allowed
                               /\ row'[i] = [row[i] EXCEPT !.status = s]
         \/ \E old \in past[i], added \in SUBSET Labels :
                row'[i] = [old EXCEPT !.labels = @ \cup added]
<1> USE DEF OwnerInv
<1>1. ASSUME NEW j \in Ids, NEW a \in Agents, PersistRecommendation(j, a) PROVE FALSE
  BY <1>1 DEF PersistRecommendation, TypeOK
<1>2. ASSUME NEW c \in Clients, UpdateStatus(c)
      PROVE  \E s \in Statuses : /\ <<row[i].status, s>> \in Allowed
                               /\ row'[i] = [row[i] EXCEPT !.status = s]
  <2> DEFINE j == req[c].id
             next == [row[j] EXCEPT !.status = req[c].status]
  <2>1. LegalMove(req[c].id, req[c].status)
    BY <1>2, RefusedStep
  <2>2. /\ j \in Ids /\ row' = [row EXCEPT ![j] = next]
        /\ <<row[j].status, req[c].status>> \in Allowed /\ req[c].status \in Statuses
    BY <1>2, <2>1, MoveStep, Zenon
  <2>3. i = j
    BY <2>2 DEF TypeOK
  <2> QED
    BY <2>2, <2>3 DEF TypeOK
<1>3. ASSUME NEW c \in Clients, SaveOutcome(c)
      PROVE  \E old \in past[i], added \in SUBSET Labels :
                row'[i] = [old EXCEPT !.labels = @ \cup added]
  <2> DEFINE j == req[c].id
             saved == [copy[c] EXCEPT !.labels = copy[c].labels \cup req[c].labels]
  <2>1. /\ j \in Ids /\ row' = [row EXCEPT ![j] = saved] /\ req[c] \in Bodies
        /\ pc[c] = "merge"
    BY <1>3, SaveStep, Zenon
  <2>2. i = j
    BY <2>1 DEF TypeOK
  <2>3. copy[c] \in past[i] /\ req[c].labels \in SUBSET Labels
    BY <2>1, <2>2 DEF Versions, Bodies
  <2>4. row'[i] = [copy[c] EXCEPT !.labels = @ \cup req[c].labels]
    BY <2>1, <2>2 DEF TypeOK
  <2> QED
    BY <2>3, <2>4
<1> QED
  BY <1>1, <1>2, <1>3, WriteStep

\* However many PATCH requests overlap, a record moves along the table or gets an
\* earlier version of itself back, with more outcome fields
\* (_apply_status_and_outcome).
THEOREM OverlapOnlySetsBack == Spec => SetBackOnly
<1> DEFINE Write ==
        \A i \in Ids :
            row[i] # NoRow /\ row'[i] # row[i] =>
                \/ \E s \in Statuses :
                    /\ <<row[i].status, s>> \in Allowed
                    /\ row'[i] = [row[i] EXCEPT !.status = s]
                \/ \E old \in past[i], added \in SUBSET Labels :
                    row'[i] = [old EXCEPT !.labels = @ \cup added]
<1>1. Init => OwnerInv /\ Versions
  BY InitOwner DEF Init, Versions
<1>2. OwnerInv /\ Versions /\ [Next]_vars => OwnerInv' /\ Versions'
  BY OwnerStep, VersionsStep
<1>3. OwnerInv /\ Versions /\ [Next]_vars => Write
  BY SetBackStep
<1> QED
  BY <1>1, <1>2, <1>3, PTL DEF Spec, SetBackOnly
-------------------------------------------------------------------------------
(* Records whose requests did not overlap. *)

\* Two requests in flight are about two records, or that record is marked.
OneRequestPerRow ==
    \A c, d \in Clients :
        pc[c] # "idle" /\ pc[d] # "idle" /\ req[c].id = req[d].id =>
            c = d \/ req[c].id \in overlapped

\* What a request is about to merge into is what the store still has.
CopyFresh ==
    \A c \in Clients :
        pc[c] = "merge" /\ req[c].id \notin overlapped => copy[c] = row[req[c].id]

\* Nothing is promised about a record that does not exist.
PromisedKept ==
    \A i \in Ids : /\ row[i] = NoRow => promised[i] = {} /\ i \notin overlapped
                   /\ row[i] # NoRow /\ i \notin overlapped => promised[i] \subseteq row[i].labels

SerialInv == OneRequestPerRow /\ CopyFresh /\ PromisedKept

\* No request at first.
LEMMA InitSerial == Init => SerialInv
  BY DEF Init, SerialInv, OneRequestPerRow, CopyFresh, PromisedKept

\* Answering a request, with no record changed, keeps the serial invariant.
LEMMA ReplySerial ==
  ASSUME TypeOK, SerialInv, NEW c \in Clients, NEW code \in {200, 400, 404, 500},
         Reply(c, code), UNCHANGED <<row, promised, overlapped>>
  PROVE  SerialInv'
  BY ReplyTyped DEF SerialInv, OneRequestPerRow, CopyFresh, PromisedKept

\* A request in flight finds its record as it left it, unless another one came.
LEMMA SerialStep ==
  ASSUME OwnerInv, SerialInv, [Next]_vars
  PROVE  SerialInv'
<1> USE DEF OwnerInv
<1>1. ASSUME NEW i \in Ids, NEW a \in Agents, PersistRecommendation(i, a)
      PROVE  SerialInv'
  <2> DEFINE new == [owner |-> a, status |-> "proposed", labels |-> {}]
  <2>1. /\ row[i] = NoRow /\ row' = [row EXCEPT ![i] = new]
        /\ UNCHANGED <<pc, copy, req, promised, overlapped>>
    BY <1>1 DEF PersistRecommendation, client
  <2> HIDE DEF new
  <2>2. \A c \in Clients : pc[c] # "idle" => req[c].id # i
    BY <2>1, LifecycleAssumption DEF RequestOwns, Rows
  <2>3. OneRequestPerRow' /\ CopyFresh'
    BY <2>1, <2>2 DEF SerialInv, OneRequestPerRow, CopyFresh, TypeOK, RequestOwns, Bodies
  <2>4. promised[i] = {} /\ i \notin overlapped
    BY <2>1 DEF SerialInv, PromisedKept
  <2>5. PromisedKept'
    BY <2>1, <2>4 DEF SerialInv, PromisedKept, TypeOK
  <2> QED
    BY <2>3, <2>5 DEF SerialInv
<1>2. ASSUME NEW c \in Clients, NEW body \in Bodies, RecordForAgent(c, body)
      PROVE  SerialInv'
  <2>1. CASE Owned(body.id, body.route)
    <3>1. /\ pc[c] = "idle" /\ pc' = [pc EXCEPT ![c] = "owned"]
          /\ req' = [req EXCEPT ![c] = body]
          /\ overlapped' = overlapped \cup {i \in {body.id} : InFlight(i) # {}}
          /\ UNCHANGED <<row, promised, copy>>
      BY <1>2, <2>1 DEF RecordForAgent
    <3>2. body.id \in Ids /\ row[body.id] # NoRow
      BY <2>1 DEF Bodies, Owned
    <3>3. \A d \in Clients : pc[d] # "idle" /\ req[d].id = body.id => body.id \in overlapped'
      BY <3>1 DEF InFlight
    <3>4. overlapped \subseteq overlapped' /\ \A i \in overlapped' : i \in overlapped \/ i = body.id
      BY <3>1
    <3>5. OneRequestPerRow'
      BY <3>1, <3>3, <3>4 DEF SerialInv, OneRequestPerRow, TypeOK
    <3>6. CopyFresh'
      BY <3>1, <3>4 DEF SerialInv, CopyFresh, TypeOK
    <3>7. PromisedKept'
      BY <3>1, <3>2, <3>4 DEF SerialInv, PromisedKept
    <3> QED
      BY <3>5, <3>6, <3>7 DEF SerialInv
  <2>2. CASE ~Owned(body.id, body.route)
    BY <1>2, <2>2, ReplySerial DEF RecordForAgent
  <2> QED
    BY <2>1, <2>2
<1>3. ASSUME NEW c \in Clients, UpdateStatus(c)
      PROVE  SerialInv'
  <2> DEFINE i == req[c].id
             next == [row[i] EXCEPT !.status = req[c].status]
  <2>1. CASE LegalMove(i, req[c].status)
    <3>1. /\ pc[c] = "owned" /\ i \in Ids /\ row[i] \in Rows
          /\ next \in Rows /\ next.labels = row[i].labels
          /\ row' = [row EXCEPT ![i] = next]
          /\ UNCHANGED <<promised, overlapped>>
          /\ \/ Reply(c, 200)
             \/ /\ copy' = [copy EXCEPT ![c] = next]
                /\ pc' = [pc EXCEPT ![c] = "merge"]
                /\ UNCHANGED req
      BY <1>3, <2>1, MoveStep, Zenon
    <3>2. row[i] # NoRow /\ next # NoRow
      BY <3>1, LifecycleAssumption DEF Rows
    <3> HIDE DEF next
    <3>3. \A d \in Clients : pc[d] # "idle" /\ d # c /\ req[d].id = i => i \in overlapped
      BY <3>1 DEF SerialInv, OneRequestPerRow
    <3>4. PromisedKept'
      BY <3>1, <3>2 DEF SerialInv, PromisedKept, TypeOK
    <3>5. \A j \in Ids : j # i => row'[j] = row[j]
      BY <3>1 DEF TypeOK
    <3>6. \A d \in Clients : pc[d] # "idle" => req[d].id \in Ids
      BY DEF RequestOwns, Bodies
    <3>7. CASE Reply(c, 200)
      <4>1. \A d \in Clients : pc'[d] # "idle" =>
                d # c /\ pc'[d] = pc[d] /\ req'[d] = req[d] /\ copy'[d] = copy[d]
        BY <3>7, ReplyTyped
      <4>2. OneRequestPerRow'
        BY <3>1, <4>1 DEF SerialInv, OneRequestPerRow
      <4>3. CopyFresh'
        BY <3>1, <3>3, <3>5, <3>6, <4>1 DEF SerialInv, CopyFresh
      <4> QED
        BY <3>4, <4>2, <4>3 DEF SerialInv
    <3>8. CASE /\ copy' = [copy EXCEPT ![c] = next]
               /\ pc' = [pc EXCEPT ![c] = "merge"]
               /\ UNCHANGED req
      <4>1. OneRequestPerRow'
        BY <3>1, <3>8 DEF SerialInv, OneRequestPerRow, TypeOK
      <4>2. CopyFresh'
        BY <3>1, <3>3, <3>5, <3>6, <3>8 DEF SerialInv, CopyFresh, TypeOK
      <4> QED
        BY <3>4, <4>1, <4>2 DEF SerialInv
    <3> QED
      BY <3>1, <3>7, <3>8
  <2>2. CASE ~LegalMove(i, req[c].status)
    <3>1. Reply(c, 400) /\ UNCHANGED <<row, promised, overlapped>>
      BY <1>3, <2>2, RefusedStep
    <3> QED
      BY <3>1, ReplySerial
  <2> QED
    BY <2>1, <2>2
<1>4. ASSUME NEW c \in Clients, SaveOutcome(c)
      PROVE  SerialInv'
  <2> DEFINE i == req[c].id
             saved == [copy[c] EXCEPT !.labels = copy[c].labels \cup req[c].labels]
  <2>1. /\ pc[c] = "merge" /\ i \in Ids /\ row[i] \in Rows
        /\ saved \in Rows /\ saved.labels = copy[c].labels \cup req[c].labels
        /\ row' = [row EXCEPT ![i] = saved]
        /\ promised' = [promised EXCEPT ![i] = promised[i] \cup req[c].labels]
        /\ Reply(c, 200) /\ UNCHANGED overlapped
    BY <1>4, SaveStep, Zenon
  <2>2. row[i] # NoRow /\ saved # NoRow
    BY <2>1, LifecycleAssumption DEF Rows
  <2>3. i \notin overlapped => copy[c].labels = row[i].labels
    BY <2>1 DEF SerialInv, CopyFresh
  <2> HIDE DEF saved
  <2>4. PromisedKept'
    BY <2>1, <2>2, <2>3 DEF SerialInv, PromisedKept, TypeOK
  <2>5. \A d \in Clients : pc'[d] # "idle" =>
            d # c /\ pc'[d] = pc[d] /\ req'[d] = req[d] /\ copy'[d] = copy[d]
    BY <2>1, ReplyTyped
  <2>6. \A d \in Clients : pc[d] # "idle" /\ d # c /\ req[d].id = i => i \in overlapped
    BY <2>1 DEF SerialInv, OneRequestPerRow
  <2>7. \A d \in Clients : pc[d] # "idle" => req[d].id \in Ids
    BY DEF RequestOwns, Bodies
  <2>8. \A j \in Ids : j # i => row'[j] = row[j]
    BY <2>1 DEF TypeOK
  <2>9. OneRequestPerRow'
    BY <2>1, <2>5 DEF SerialInv, OneRequestPerRow
  <2>10. CopyFresh'
    BY <2>1, <2>5, <2>6, <2>7, <2>8 DEF SerialInv, CopyFresh
  <2> QED
    BY <2>4, <2>9, <2>10 DEF SerialInv
<1>5. ASSUME NEW c \in Clients, UpdateStatusRaises(c) \/ SaveOutcomeRaises(c)
      PROVE  SerialInv'
  <2>1. PICK code \in {400, 500} : Reply(c, code)
    BY <1>5 DEF UpdateStatusRaises, SaveOutcomeRaises
  <2> QED
    BY <1>5, <2>1, ReplySerial DEF UpdateStatusRaises, SaveOutcomeRaises, history
<1>6. CASE UNCHANGED vars
  BY <1>6 DEF vars, client, history, SerialInv, OneRequestPerRow, CopyFresh, PromisedKept
<1> QED
  BY <1>1, <1>2, <1>3, <1>4, <1>5, <1>6 DEF Next

\* An outcome field answered with 200 stays, unless requests for the same record
\* overlapped (_apply_status_and_outcome).
THEOREM AnsweredLabelsStay == Spec => []AnsweredLabelsKept
<1>1. Init => OwnerInv /\ SerialInv
  BY InitOwner, InitSerial
<1>2. OwnerInv /\ SerialInv /\ [Next]_vars => OwnerInv' /\ SerialInv'
  BY OwnerStep, SerialStep
<1>3. SerialInv => AnsweredLabelsKept
  BY DEF SerialInv, PromisedKept, AnsweredLabelsKept
<1> QED
  BY <1>1, <1>2, <1>3, PTL DEF Spec

\* A step of the routes is a step of the lifecycle, or changes no record.
LEMMA LifecycleStep ==
  ASSUME OwnerInv, SerialInv, [Next]_vars
  PROVE  [Lifecycle!Next]_(Lifecycle!vars)
<1> USE DEF OwnerInv, Lifecycle!vars
<1>1. ASSUME NEW i \in Ids, NEW a \in Agents, PersistRecommendation(i, a)
      PROVE  Lifecycle!Next
  BY <1>1 DEF PersistRecommendation, Lifecycle!Next, Lifecycle!Propose
<1>2. ASSUME NEW c \in Clients, UpdateStatus(c)
      PROVE  [Lifecycle!Next]_(Lifecycle!vars)
  <2>1. CASE LegalMove(req[c].id, req[c].status)
    <3>1. /\ req[c].id \in Ids /\ row[req[c].id] \in Rows
          /\ <<row[req[c].id].status, req[c].status>> \in Allowed
          /\ req[c].status \in Statuses
          /\ row' = [row EXCEPT ![req[c].id] =
                        [row[req[c].id] EXCEPT !.status = req[c].status]]
          /\ UNCHANGED overlapped
      BY <1>2, <2>1, MoveStep, Zenon
    <3>2. Lifecycle!Move(req[c].id)
      BY <3>1, LifecycleAssumption DEF Lifecycle!Move, Rows
    <3> QED
      BY <3>1, <3>2 DEF Lifecycle!Next
  <2>2. CASE ~LegalMove(req[c].id, req[c].status)
    BY <1>2, <2>2, RefusedStep
  <2> QED
    BY <2>1, <2>2
<1>3. ASSUME NEW c \in Clients, SaveOutcome(c)
      PROVE  Lifecycle!Next
  <2> DEFINE i == req[c].id
             saved == [copy[c] EXCEPT !.labels = copy[c].labels \cup req[c].labels]
  <2>1. /\ pc[c] = "merge" /\ req[c] \in Bodies /\ i \in Ids /\ row[i] \in Rows
        /\ saved \in Rows /\ saved.owner = row[i].owner
        /\ row' = [row EXCEPT ![i] = saved]
        /\ UNCHANGED overlapped
    BY <1>3, SaveStep, Zenon
  <2>2. CASE i \in overlapped
    <3>1. saved \in Lifecycle!Rows
      BY <2>1 DEF Rows, Lifecycle!Rows
    <3> HIDE DEF saved
    <3>2. Lifecycle!Overwrite(i)
      BY <2>1, <2>2, <3>1 DEF Lifecycle!Overwrite
    <3> QED
      BY <2>1, <3>2 DEF Lifecycle!Next
  <2>3. CASE i \notin overlapped
    <3>1. copy[c] = row[i]
      BY <2>1, <2>3 DEF SerialInv, CopyFresh
    <3>2. req[c].labels \in SUBSET Labels /\ row[i] # NoRow
      BY <2>1, LifecycleAssumption DEF Bodies, Rows
    <3>3. row' = [row EXCEPT ![i].labels = @ \cup req[c].labels]
      BY <2>1, <3>1
    <3>4. Lifecycle!Label(i)
      BY <2>1, <3>2, <3>3 DEF Lifecycle!Label
    <3> QED
      BY <2>1, <3>4 DEF Lifecycle!Next
  <2> QED
    BY <2>2, <2>3
<1>4. ASSUME NEW c \in Clients, NEW body \in Bodies, RecordForAgent(c, body)
      PROVE  [Lifecycle!Next]_(Lifecycle!vars)
  <2>1. CASE Owned(body.id, body.route) /\ InFlight(body.id) # {}
    <3>1. body.id \in Ids /\ row[body.id] # NoRow
      BY <2>1 DEF Owned, Bodies
    <3>2. overlapped' = overlapped \cup {body.id} /\ UNCHANGED row
      BY <1>4, <2>1 DEF RecordForAgent
    <3>3. Lifecycle!Overlap(body.id)
      BY <3>1, <3>2 DEF Lifecycle!Overlap
    <3> QED
      BY <3>1, <3>3 DEF Lifecycle!Next
  <2>2. CASE ~(Owned(body.id, body.route) /\ InFlight(body.id) # {})
    BY <1>4, <2>2 DEF RecordForAgent
  <2> QED
    BY <2>1, <2>2
<1>5. ASSUME NEW c \in Clients, UpdateStatusRaises(c) \/ SaveOutcomeRaises(c)
      PROVE  UNCHANGED Lifecycle!vars
  BY <1>5 DEF UpdateStatusRaises, SaveOutcomeRaises, history
<1>6. CASE UNCHANGED vars
  BY <1>6 DEF vars, history
<1> QED
  BY <1>1, <1>2, <1>3, <1>4, <1>5, <1>6 DEF Next

\* The routes implement the lifecycle: an allowed move, or more outcome fields,
\* and another change only for a record whose requests have overlapped.
THEOREM RoutesImplementLifecycle == Spec => ImplementsLifecycle
<1>1. Init => OwnerInv /\ SerialInv
  BY InitOwner, InitSerial
<1>2. OwnerInv /\ SerialInv /\ [Next]_vars => OwnerInv' /\ SerialInv'
  BY OwnerStep, SerialStep
<1>3. Init => Lifecycle!Init
  BY DEF Init, Lifecycle!Init
<1>4. OwnerInv /\ SerialInv /\ [Next]_vars => [Lifecycle!Next]_(Lifecycle!vars)
  BY LifecycleStep
<1> QED
  BY <1>1, <1>2, <1>3, <1>4, PTL DEF Spec, ImplementsLifecycle, Lifecycle!Spec
===============================================================================
