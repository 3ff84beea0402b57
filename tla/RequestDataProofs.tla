--------------------------- MODULE RequestDataProofs ---------------------------
(***************************************************************************)
(* What AgentResponses says of its operators holds for the data of every   *)
(* request.                                                                *)
(***************************************************************************)
EXTENDS RequestData, AgentResponsesProofs

\* schemas.py:471-474: the counts of every tuning answer.
THEOREM CountsAnsweredRight == Spec => []AnsweredCounts
<1>1. AnsweredCounts
  BY RetryCountsProjected DEF AnsweredCounts
<1> QED
  BY <1>1, PTL

\* routes.py:872-888: the stored row of every RCA answer.
THEOREM CopiesAreCut == Spec => []StoredCopies
<1>1. StoredCopies
  BY StoredCopyIsCut DEF StoredCopies
<1> QED
  BY <1>1, PTL

\* safe_logging.py:90-103: the log line of every exception that is logged.
THEOREM LogsAreSafe == Spec => []LoggedMessages
<1>1. LoggedMessages
  BY MessagesAreSafe DEF LoggedMessages
<1> QED
  BY <1>1, PTL
===============================================================================
