----------------------------- MODULE SyncAnswers -----------------------------
(***************************************************************************)
(* What `tele get` answers (history.py), judged with a history variable    *)
(* that restricts no step: the rows other processes store while a call is  *)
(* between its last look at the newest message and the reading of its      *)
(* rows.  _latest_window reads every row above the head range's start, so  *)
(* these get into the answer although nobody compared them with the head.  *)
(***************************************************************************)
EXTENDS SyncCoverage

VARIABLE late  \* each getter's rows of that kind

(* From _is_fresh's comparison, or the save of a newest batch, to the rows. *)
Answering ==
  {"covers", "count", "older", "olderCount", "olderFetch", "olderSave", "window", "rows"}

StoredByOthers(g) == IF pc'[g] = pc[g] THEN messages' \ messages ELSE {}

Later(g) ==
  IF pc[g] \in Answering THEN late[g] \cup StoredByOthers(g)
  ELSE IF pc'[g] = "done" THEN late[g] ELSE {}

AnswersInit == Init /\ late = [g \in Getters |-> {}]

AnswersNext == Next /\ late' = [g \in Getters |-> Later(g)]

AnswersSpec == AnswersInit /\ [][AnswersNext]_<<vars, late>>

-----------------------------------------------------------------------------
(* "nothing newer was stored since" (history.py:8): between the oldest row *)
(* of an answer and the end of the head range, and above it up to the      *)
(* newest row stored before the call looked, no live message is missing.   *)
(* A row that another process stores after that look is returned whatever  *)
(* is missing below it.                                                    *)
WindowGapFree ==
  \A g \in Getters : pc[g] = "done" =>
    \A m \in telegram, low \in run[g].batch :
      /\ low <= m
      /\ m <= run[g].span.hi \/ \E high \in run[g].batch \ late[g] : m <= high
      => m \in run[g].batch
=============================================================================
