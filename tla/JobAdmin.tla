------------------------------ MODULE JobAdmin ------------------------------
(***************************************************************************)
(* The admin portal's "cancel job" button (admin_cancel_job) beside the    *)
(* workers. It reads the status in one transaction and calls cancel_job,   *)
(* which looks at nothing but the id, in another.                          *)
(***************************************************************************)
EXTENDS JobQueue

VARIABLE seen    \* the row admin_cancel_job found pending or failed, or NoId

adminVars == <<row, slot, seen>>

AdminInit == Init /\ seen = NoId

ReadStatus(i) ==
  /\ seen = NoId
  /\ row[i].status \in {"pending", "failed"}
  /\ seen' = i
  /\ UNCHANGED vars

AdminCancelJob ==
  /\ seen # NoId
  /\ Overwrite(seen, [row[seen] EXCEPT !.status = "cancelled", !.outcome = "cancelled_stale"])
  /\ seen' = NoId
  /\ UNCHANGED slot

\* cancel_job raises, or the request is lost between the two transactions.
AdminGivesUp ==
  /\ seen # NoId
  /\ seen' = NoId
  /\ UNCHANGED vars

AdminNext == \/ \E i \in Id : ReadStatus(i)
             \/ AdminCancelJob
             \/ AdminGivesUp
             \/ Next /\ UNCHANGED seen

\* Nothing is assumed of operators; cancelling is no part of the fairness.
AdminSpec == AdminInit /\ [][AdminNext]_adminVars /\ Fairness

-----------------------------------------------------------------------------
\* A cancelled job comes back only through a slot that was running it when it was
\* cancelled: nothing else moves a row out of cancelled.
OnlyTheRunnerUndoesCancel ==
  [][\A i \in Id :
       row[i].status = "cancelled" /\ row'[i].status \notin {"cancelled", "deleted"} =>
         \E w \in Worker : Holds(w, i) /\ slot'[w] = IdleSlot]_adminVars
=============================================================================
