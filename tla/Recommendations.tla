---------------------------- MODULE Recommendations ----------------------------
(***************************************************************************)
(* The lifecycle of stored recommendations: proposed by an analyze,        *)
(* recommend or resume request, then moved and labelled by PATCH.          *)
(*                                                                         *)
(* The PATCH handlers are plain functions, so FastAPI runs them on its     *)
(* threadpool: several PATCH requests for one record overlap.  Each makes  *)
(* three separate calls of the store: the ownership read, update_status,   *)
(* and, when the body carries outcome fields, a save of the whole record   *)
(* that update_status returned.                                            *)
(*                                                                         *)
(* A record is its owner, its status and the set of outcome fields present *)
(* in extra.outcome; their values, subjects, request and response are left *)
(* out.  Store calls are atomic, and update_status returns a copy.         *)
(***************************************************************************)
EXTENDS Naturals

CONSTANTS
    Ids,            \* recommendation ids
    Agents,         \* {"spark_rca", "cluster_tuning"}: one PATCH route each
    Statuses,       \* proposed | accepted | rejected | applied | superseded
    Labels,         \* outcome fields of the PATCH body
    Allowed,        \* the store's transition table
    Clients,        \* PATCH requests that may be in flight at once
    NoRow,          \* no record under the id
    MaxPatches,     \* bound on the PATCH requests of a behaviour
    MaxFaults       \* bound on store calls that raise

ASSUME LifecycleAssumption ==
    /\ "proposed" \in Statuses
    /\ Allowed \subseteq Statuses \X Statuses
    /\ MaxPatches \in Nat /\ MaxFaults \in Nat
    /\ NoRow \notin [owner : Agents, status : Statuses, labels : SUBSET Labels]

VARIABLES
    row,        \* the RecommendationStore
    req,        \* per client: the PATCH in flight
    pc,         \* per client: "idle", "owned" (check passed), "merge"
    copy,       \* per client: the record update_status returned
    answer,     \* per client: last HTTP status answered, 0 before any
    promised,   \* history: per id, the outcome fields answered with 200
    writers,    \* history: per id, the agent routes that wrote the record
    past,       \* history: per id, every version the record has had
    overlapped, \* history: ids that two PATCH requests were in flight for at once
    patches, faults

client  == <<req, pc, copy, answer>>
history == <<promised, writers, past, overlapped>>
vars    == <<row, client, history, patches, faults>>

Rows   == [owner : Agents, status : Statuses, labels : SUBSET Labels]
Bodies == [route : Agents, id : Ids, status : Statuses, labels : SUBSET Labels]
NoBody == [route |-> "none", id |-> "none", status |-> "none", labels |-> {}]

InFlight(i) == {c \in Clients : pc[c] # "idle" /\ req[c].id = i}

Init ==
    /\ row      = [i \in Ids |-> NoRow]
    /\ req      = [c \in Clients |-> NoBody]
    /\ pc       = [c \in Clients |-> "idle"]
    /\ copy     = [c \in Clients |-> NoRow]
    /\ answer   = [c \in Clients |-> 0]
    /\ promised = [i \in Ids |-> {}]
    /\ writers  = [i \in Ids |-> {}]
    /\ past     = [i \in Ids |-> {}]
    /\ overlapped = {}
    /\ patches  = 0
    /\ faults   = 0

Reply(c, code) ==
    /\ answer' = [answer EXCEPT ![c] = code]
    /\ pc'     = [pc EXCEPT ![c] = "idle"]
    /\ req'    = [req EXCEPT ![c] = NoBody]
    /\ copy'   = [copy EXCEPT ![c] = NoRow]
-------------------------------------------------------------------------------
\* Variant: the record is stored before its status is set.
PersistWithoutStatus(i, agent) ==
    /\ row[i] = NoRow
    /\ row' = [row EXCEPT ![i] = [owner |-> agent, status |-> "none", labels |-> {}]]
    /\ writers' = [writers EXCEPT ![i] = {agent}]
    /\ UNCHANGED <<client, promised, past, overlapped, patches, faults>>

\* _persist_rca_recommendation, _persist_tuning_recommendation: a new id, status
\* proposed.  A store named "none" and a raising save leave no record.
PersistRecommendation(i, agent) ==
    /\ row[i] = NoRow
    /\ LET new == [owner |-> agent, status |-> "proposed", labels |-> {}] IN
       /\ row' = [row EXCEPT ![i] = new]
       /\ past' = [past EXCEPT ![i] = {new}]
    /\ writers' = [writers EXCEPT ![i] = {agent}]
    /\ UNCHANGED <<client, promised, overlapped, patches, faults>>

\* Variant: any record will do.
Found(i, agent) == row[i] # NoRow

\* get_recommendation_for_agent finds a record of this agent only.
Owned(i, agent) == row[i] # NoRow /\ row[i].owner = agent

\* update_*_recommendation_status: _record_for_agent, 404 when not owned.
RecordForAgent(c, body) ==
    /\ pc[c] = "idle"
    /\ patches < MaxPatches
    /\ patches' = patches + 1
    /\ IF Owned(body.id, body.route)
       THEN /\ pc'  = [pc EXCEPT ![c] = "owned"]
            /\ req' = [req EXCEPT ![c] = body]
            /\ overlapped' = overlapped \cup {i \in {body.id} : InFlight(i) # {}}
            /\ UNCHANGED <<copy, answer>>
       ELSE Reply(c, 404) /\ UNCHANGED overlapped
    /\ UNCHANGED <<row, promised, writers, past, faults>>

\* Variant: a store that accepts every known status.
AnyMove(i, status) == status \in Statuses

\* The store's own check of the transition.
LegalMove(i, status) == <<row[i].status, status>> \in Allowed

\* store.update_status: ValueError for a transition that is not allowed (400);
\* a body without outcome fields is answered with the updated record.  No route
\* deletes a record, so the None of a record gone since the ownership read (404)
\* does not come back.
UpdateStatus(c) ==
    /\ pc[c] = "owned"
    /\ LET i    == req[c].id
           next == [row[i] EXCEPT !.status = req[c].status]
       IN  IF LegalMove(i, req[c].status)
           THEN /\ row' = [row EXCEPT ![i] = next]
                /\ writers' = [writers EXCEPT ![i] = @ \cup {req[c].route}]
                /\ past' = [past EXCEPT ![i] = @ \cup {next}]
                /\ IF req[c].labels = {}
                   THEN Reply(c, 200)
                   ELSE /\ copy' = [copy EXCEPT ![c] = next]
                        /\ pc' = [pc EXCEPT ![c] = "merge"]
                        /\ UNCHANGED <<req, answer>>
           ELSE Reply(c, 400) /\ UNCHANGED <<row, writers, past>>
    /\ UNCHANGED <<promised, overlapped, patches, faults>>

\* The store fails for another reason: 500, nothing changed.
UpdateStatusRaises(c) ==
    /\ pc[c] = "owned"
    /\ faults < MaxFaults
    /\ faults' = faults + 1
    /\ Reply(c, 500)
    /\ UNCHANGED <<row, history, patches>>

\* Variant: the body's fields replace what the record had.
ReplaceOutcome(c) == req[c].labels

\* merge_outcome_extra: what the record had, and the body's fields on top.
MergeOutcome(c) == copy[c].labels \cup req[c].labels

\* store.save of the whole record that update_status returned.
SaveOutcome(c) ==
    /\ pc[c] = "merge"
    /\ LET i     == req[c].id
           saved == [copy[c] EXCEPT !.labels = MergeOutcome(c)]
       IN
       /\ row' = [row EXCEPT ![i] = saved]
       /\ past' = [past EXCEPT ![i] = @ \cup {saved}]
       /\ writers' = [writers EXCEPT ![i] = @ \cup {req[c].route}]
       /\ promised' = [promised EXCEPT ![i] = @ \cup req[c].labels]
    /\ Reply(c, 200)
    /\ UNCHANGED <<overlapped, patches, faults>>

\* The merge or the save raises, with the status already changed: 400 for a
\* ValueError, else 500.  A process that dies between the two store calls leaves
\* the same record.
SaveOutcomeRaises(c) ==
    /\ pc[c] = "merge"
    /\ faults < MaxFaults
    /\ faults' = faults + 1
    /\ \E code \in {400, 500} : Reply(c, code)
    /\ UNCHANGED <<row, history, patches>>

Next ==
    \/ \E i \in Ids, a \in Agents : PersistRecommendation(i, a)
    \/ \E c \in Clients :
        \/ \E body \in Bodies : RecordForAgent(c, body)
        \/ UpdateStatus(c)
        \/ UpdateStatusRaises(c)
        \/ SaveOutcome(c)
        \/ SaveOutcomeRaises(c)

Spec == Init /\ [][Next]_vars
-------------------------------------------------------------------------------
(* Properties. *)

\* Every variable has its type.
TypeOK ==
    /\ row \in [Ids -> Rows \cup {NoRow}]
    /\ req \in [Clients -> Bodies \cup {NoBody}]
    /\ pc \in [Clients -> {"idle", "owned", "merge"}]
    /\ copy \in [Clients -> Rows \cup {NoRow}]
    /\ answer \in [Clients -> {0, 200, 400, 404, 500}]
    /\ promised \in [Ids -> SUBSET Labels]
    /\ writers \in [Ids -> SUBSET Agents]
    /\ past \in [Ids -> SUBSET Rows]
    /\ overlapped \subseteq Ids
    /\ patches \in 0..MaxPatches
    /\ faults \in 0..MaxFaults

\* "404 missing / wrong agent": a record is only ever written by its own agent's
\* routes, however the requests of both agents overlap.
OwnRouteOnly == \A i \in Ids : row[i] # NoRow => writers[i] \subseteq {row[i].owner}

\* "400 invalid status transition": a stored status only moves along the table.
StatusMovesAllowed ==
    \A i \in Ids :
        row[i] # NoRow /\ row'[i] # NoRow /\ row'[i].status # row[i].status
            => <<row[i].status, row'[i].status>> \in Allowed

LegalTransitions == [][StatusMovesAllowed]_vars

\* What overlapping PATCH requests can do at worst: a status moves along the
\* table, or a save puts back an earlier version of the record, status and outcome
\* fields, with the fields of the saving request on top (routes.py:1194-1226).  A
\* record never gets a status it did not reach, nor another owner.
SetBackOnly ==
    [][\A i \in Ids :
        row[i] # NoRow /\ row'[i] # row[i] =>
            \/ \E s \in Statuses :
                /\ <<row[i].status, s>> \in Allowed
                /\ row'[i] = [row[i] EXCEPT !.status = s]
            \/ \E old \in past[i], added \in SUBSET Labels :
                row'[i] = [old EXCEPT !.labels = @ \cup added]]_vars

\* "optionally merge outcome scaffolding": an outcome field answered with 200
\* stays in the record, unless two PATCH requests for it were ever in flight at
\* once: then the save of the one may take back what the other was answered.
AnsweredLabelsKept ==
    \A i \in Ids \ overlapped : row[i] # NoRow => promised[i] \subseteq row[i].labels

\* The routes implement the lifecycle for every record whose requests did not
\* overlap, whatever requests for other records do meanwhile and whichever store
\* calls raise; a record loses that promise at its first overlap and not before.
Lifecycle == INSTANCE LifecyclePromise

ImplementsLifecycle == Lifecycle!Spec
===============================================================================
