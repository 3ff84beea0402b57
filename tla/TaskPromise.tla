----------------------------- MODULE TaskPromise -----------------------------
(***************************************************************************)
(* What the asynchronous invoke contract promises of every task, with      *)
(* neither threads nor a queue: a task is accepted as running, and then    *)
(* receives one outcome that is never revised.  A store that lives in      *)
(* memory may forget everything when its process ends.  Records in a file  *)
(* are never lost: all of them may be hidden while a process has to do     *)
(* without the file, and come back as they were.                           *)
(***************************************************************************)
CONSTANTS
    Tasks,      \* task ids
    Durable     \* TRUE: records are kept in a file

VARIABLES
    status,     \* the task's status as a reader of the store finds it
    hidden,     \* the file's records while no reader finds them
    fellBack    \* TRUE: readers find a store in memory in place of the file

vars == <<status, hidden, fellBack>>

Terminal == {"completed", "input_needed", "error"}
NoRecords == [t \in Tasks |-> "absent"]

Init ==
    /\ status = NoRecords
    /\ hidden = NoRecords
    /\ fellBack = FALSE

Accept(t) ==
    /\ status[t] = "absent"
    /\ hidden[t] = "absent"
    /\ status' = [status EXCEPT ![t] = "running"]
    /\ UNCHANGED <<hidden, fellBack>>

Finish(t) ==
    /\ status[t] = "running"
    /\ \E o \in Terminal : status' = [status EXCEPT ![t] = o]
    /\ UNCHANGED <<hidden, fellBack>>

Forget ==
    /\ ~Durable
    /\ status' = NoRecords
    /\ UNCHANGED <<hidden, fellBack>>

Hide ==
    /\ Durable
    /\ ~fellBack
    /\ fellBack' = TRUE
    /\ hidden' = status
    /\ status' = NoRecords

Return ==
    /\ fellBack
    /\ fellBack' = FALSE
    /\ status' = hidden
    /\ hidden' = NoRecords

Next == Forget \/ Hide \/ Return \/ \E t \in Tasks : Accept(t) \/ Finish(t)

Spec == Init /\ [][Next]_vars
=============================================================================
