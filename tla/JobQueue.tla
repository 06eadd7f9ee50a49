------------------------------ MODULE JobQueue ------------------------------
(***************************************************************************)
(* The PostgreSQL job queue: the jobs table (sql/migrations/018, 035), the *)
(* statements of app/workers/queue.py over it, each one transaction, and   *)
(* the worker slots of app/workers/runner.py that claim a row, run its     *)
(* handler outside any transaction and write the result back.              *)
(*                                                                         *)
(* Time is abstracted to the two comparisons the statements make: due says *)
(* run_at <= now(), lease says how locked_until compares with now().       *)
(* claim_next_job takes the oldest row of a kind; here a claim may take    *)
(* any eligible row, which allows every order the code can produce.        *)
(***************************************************************************)
EXTENDS Naturals

CONSTANTS
  Id,            \* row ids; bigserial never hands one out twice
  Key,           \* idempotency keys
  Worker,        \* worker slots, over every worker process
  Budgets,       \* values callers pass as max_attempts
  NoId,          \* "no row"
  NoKey,         \* idempotency_key NULL
  MayOverrun     \* TRUE: a handler may run longer than LOCK_TIMEOUT_SEC

ASSUME IdAssumption == NoId \notin Id
ASSUME KeyAssumption == NoKey \notin Key
ASSUME BudgetAssumption == Budgets \subseteq Nat \ {0}
ASSUME OverrunAssumption == MayOverrun \in BOOLEAN

VARIABLES
  row,           \* [Id -> Row]: the jobs table, with unborn and deleted ids
  slot           \* [Worker -> Slot]: what each worker slot is doing

vars == <<row, slot>>

Settled == {"completed", "dead", "cancelled"}
Present == {"pending", "running", "failed"} \cup Settled
Status  == Present \cup {"unborn", "deleted"}
Outcome == {"none", "succeeded", "failed_terminal", "cancelled_stale"}
Verdict == {"ok", "stale", "terminal", "error"}

Row == [status : Status, attempt : Nat, max : Nat, key : Key \cup {NoKey},
        outcome : Outcome, lease : {"null", "live", "expired"}, due : BOOLEAN]

NoRow(st) == [status |-> st, attempt |-> 0, max |-> 0, key |-> NoKey,
              outcome |-> "none", lease |-> "null", due |-> FALSE]

\* pc: idle, in the handler, or about to write the verdict back. The attempt
\* and max_attempts are the values the claim returned, never read again.
Slot == [pc : {"idle", "handling", "settling"}, id : Id \cup {NoId},
         attempt : Nat, max : Nat, verdict : Verdict]

IdleSlot == [pc |-> "idle", id |-> NoId, attempt |-> 0, max |-> 0, verdict |-> "error"]

TypeOK == /\ row \in [Id -> Row]
          /\ slot \in [Worker -> Slot]

Init == /\ row = [i \in Id |-> NoRow("unborn")]
        /\ slot = [w \in Worker |-> IdleSlot]

-----------------------------------------------------------------------------
IsPresent(i) == row[i].status \in Present
Holds(w, i)  == slot[w].id = i
Held(i)      == \E w \in Worker : Holds(w, i)

\* Slip: the claim forgets attempt < max_attempts.
EligibleAnyAttempt(i) == row[i].status \in {"pending", "failed"} /\ row[i].due

\* The WHERE clause of claim_next_job.
Eligible(i) == /\ row[i].status \in {"pending", "failed"}
               /\ row[i].attempt < row[i].max
               /\ row[i].due

\* Slips: the reaper ignores the lease, the attempts used, the status, or is off by one.
ReclaimableAnyLease(i) == row[i].status = "running" /\ row[i].attempt < row[i].max
ReclaimableAnyAttempt(i) == row[i].status = "running" /\ row[i].lease = "expired"
ReclaimableUnfinished(i) == /\ row[i].status # "completed"
                            /\ row[i].lease = "expired"
                            /\ row[i].attempt < row[i].max
ReclaimableOffByOne(i) == ReclaimableAnyAttempt(i) /\ row[i].attempt + 1 < row[i].max

\* The WHERE clause of reclaim_stale_jobs.
Reclaimable(i) == /\ row[i].status = "running"
                  /\ row[i].lease = "expired"
                  /\ row[i].attempt < row[i].max

\* An UPDATE ... WHERE id = i: it touches a row that still exists, whoever
\* owns it and whatever its status is.
Overwrite(i, new) == row' = IF IsPresent(i) THEN [row EXCEPT ![i] = new] ELSE row

Release(w) == slot' = [slot EXCEPT ![w] = IdleSlot]

-----------------------------------------------------------------------------
(* Producers *)

\* INSERT ... ON CONFLICT (idempotency_key) DO NOTHING, when there is no conflict.
\* due is FALSE for a positive run_at_offset_sec.
Enqueue(i, k, m, due) ==
  /\ row[i].status = "unborn"
  /\ k # NoKey => \A j \in Id : IsPresent(j) => row[j].key # k
  /\ row' = [row EXCEPT ![i] = [status |-> "pending", attempt |-> 0, max |-> m, key |-> k,
                                outcome |-> "none", lease |-> "null", due |-> due]]
  /\ UNCHANGED slot

(* Time *)

\* The clock passes run_at of a row that waits for it.
BecomeDue(i) ==
  /\ row[i].status \in {"pending", "failed"}
  /\ ~row[i].due
  /\ row' = [row EXCEPT ![i].due = TRUE]
  /\ UNCHANGED slot

\* The clock passes locked_until. No slot renews a lease, so this may happen
\* under a running handler unless handlers are known to be short.
LeaseExpires(i) ==
  /\ row[i].status = "running"
  /\ row[i].lease = "live"
  /\ MayOverrun \/ ~Held(i)
  /\ row' = [row EXCEPT ![i].lease = "expired"]
  /\ UNCHANGED slot

(* Workers *)

ClaimNextJob(w, i) ==
  /\ slot[w].pc = "idle"
  /\ Eligible(i)
  /\ row' = [row EXCEPT ![i].status = "running", ![i].attempt = @ + 1, ![i].lease = "live"]
  /\ slot' = [slot EXCEPT ![w] = [pc |-> "handling", id |-> i, attempt |-> row[i].attempt + 1,
                                  max |-> row[i].max, verdict |-> "error"]]

\* The handler returns, raises CancelledStaleError, TerminalJobError or another
\* exception; "error" also stands for a kind without a handler.
HandlerReturns(w, v) ==
  /\ slot[w].pc = "handling"
  /\ slot' = [slot EXCEPT ![w].pc = "settling", ![w].verdict = v]
  /\ UNCHANGED row

Settling(w, v) == slot[w].pc = "settling" /\ slot[w].verdict = v

CompleteJob(w) ==
  /\ Settling(w, "ok")
  /\ LET i == slot[w].id
     IN Overwrite(i, [row[i] EXCEPT !.status = "completed", !.outcome = "succeeded"])
  /\ Release(w)

CancelJob(w) ==
  /\ Settling(w, "stale")
  /\ LET i == slot[w].id
     IN Overwrite(i, [row[i] EXCEPT !.status = "cancelled", !.outcome = "cancelled_stale"])
  /\ Release(w)

FailJobTerminal(w) ==
  /\ Settling(w, "terminal")
  /\ LET i == slot[w].id
     IN Overwrite(i, [row[i] EXCEPT !.status = "dead", !.outcome = "failed_terminal"])
  /\ Release(w)

\* Slip: an exhausted job fails as if it could be retried.
FailJobOffByOne(w) ==
  /\ Settling(w, "error")
  /\ LET i == slot[w].id
         dead == slot[w].attempt > slot[w].max
     IN Overwrite(i, IF dead THEN [row[i] EXCEPT !.status = "dead"]
                             ELSE [row[i] EXCEPT !.status = "failed", !.due = FALSE])
  /\ Release(w)

\* fail_job compares the attempt and max_attempts the claim returned, and
\* leaves outcome alone; a retryable failure moves run_at into the future.
FailJob(w) ==
  /\ Settling(w, "error")
  /\ LET i == slot[w].id
         dead == slot[w].attempt >= slot[w].max
     IN Overwrite(i, IF dead THEN [row[i] EXCEPT !.status = "dead"]
                             ELSE [row[i] EXCEPT !.status = "failed", !.due = FALSE])
  /\ Release(w)

\* complete_job is called inside the try block: when it raises (the statement
\* is rolled back), the generic except clause settles the job as failed.
CompleteRaises(w) ==
  /\ Settling(w, "ok")
  /\ slot' = [slot EXCEPT ![w].verdict = "error"]
  /\ UNCHANGED row

\* A settling call that raises inside an except clause escapes to the poll
\* loop, which logs it: the row stays running until its lease expires.
SettleRaises(w) ==
  /\ slot[w].pc = "settling"
  /\ slot[w].verdict # "ok"
  /\ Release(w)
  /\ UNCHANGED row

\* The worker process dies in the handler or before the result is written.
Crash(w) ==
  /\ slot[w].pc # "idle"
  /\ Release(w)
  /\ UNCHANGED row

\* One UPDATE over every stale row, issued by any worker's loop.
ReclaimStaleJobs ==
  /\ \E i \in Id : Reclaimable(i)
  /\ row' = [i \in Id |-> IF Reclaimable(i)
                            THEN [row[i] EXCEPT !.status = "pending", !.lease = "null", !.due = TRUE]
                            ELSE row[i]]
  /\ UNCHANGED slot

(* Deletions, which look at neither the lease nor the worker *)

Delete(S) ==
  /\ row' = [i \in Id |-> IF i \in S THEN NoRow("deleted") ELSE row[i]]
  /\ UNCHANGED slot

\* The cleanup worker deletes failed rows created before the retention cutoff.
PurgeFailedJobs(S) == /\ S # {}
                      /\ \A i \in S : row[i].status = "failed"
                      /\ Delete(S)

\* A data-subject erasure deletes every row of one sender, a customer reset all.
EraseJobs(S) == /\ S # {}
                /\ \A i \in S : IsPresent(i)
                /\ Delete(S)

-----------------------------------------------------------------------------
Produce == \E i \in Id, k \in Key \cup {NoKey}, m \in Budgets, due \in BOOLEAN : Enqueue(i, k, m, due)

Clock == \E i \in Id : BecomeDue(i) \/ LeaseExpires(i)

Settle(w) == CompleteJob(w) \/ CancelJob(w) \/ FailJobTerminal(w) \/ FailJob(w)

Work(w) == \/ \E i \in Id : ClaimNextJob(w, i)
           \/ \E v \in Verdict : HandlerReturns(w, v)
           \/ Settle(w)

Fault(w) == CompleteRaises(w) \/ SettleRaises(w) \/ Crash(w)

Purge == \E S \in SUBSET Id : PurgeFailedJobs(S)
Erase == \E S \in SUBSET Id : EraseJobs(S)

\* What the workers, the clock and the cleanup do to the rows there are.
Serve == \/ Clock
         \/ \E w \in Worker : Work(w) \/ Fault(w)
         \/ ReclaimStaleJobs
         \/ Purge

Next == Produce \/ Serve \/ Erase

Spec == Init /\ [][Next]_vars

-----------------------------------------------------------------------------
(* Properties of every configuration, handlers that overrun included *)

\* A job is handed to a handler at most max_attempts times, and no slot ever
\* works on a claim the row does not know of.
AttemptsWithinBudget ==
  /\ \A i \in Id : row[i].attempt <= row[i].max
  /\ \A w \in Worker, i \in Id :
       Holds(w, i) /\ IsPresent(i) => slot[w].attempt \in 1..row[i].attempt

\* Two slots that hold the same row, one of them a zombie whose lease was
\* reclaimed, hold different attempts of it: the attempt number handed to a
\* handler identifies one execution.
ClaimsDistinct ==
  \A w, v \in Worker :
    w # v /\ slot[w].id = slot[v].id /\ slot[w].id # NoId => slot[w].attempt # slot[v].attempt

\* Together: no execution is uncounted, and no two share a count.
ClaimsAreCounted == AttemptsWithinBudget /\ ClaimsDistinct

(* Properties that need handlers to finish within LOCK_TIMEOUT_SEC *)

\* At most one slot works on a row, and while it does the row, unless it was
\* deleted meanwhile, is running that very attempt under a live lease.
SingleExecution ==
  /\ \A w, v \in Worker : slot[w].id = slot[v].id /\ slot[w].id # NoId => w = v
  /\ \A w \in Worker, i \in Id :
       Holds(w, i) /\ IsPresent(i) => /\ row[i].status = "running"
                                    /\ row[i].attempt = slot[w].attempt
                                    /\ row[i].lease = "live"

\* A row that waits to be claimed has an attempt left, so that no job ends in
\* a retryable status that nothing will ever retry.
RetryableHasBudget ==
  \A i \in Id : row[i].status \in {"pending", "failed"} => row[i].attempt < row[i].max

\* The audit column agrees with the status.
OutcomeMatchesStatus ==
  \A i \in Id : /\ row[i].outcome = "succeeded" <=> row[i].status = "completed"
                /\ row[i].outcome = "cancelled_stale" <=> row[i].status = "cancelled"
                /\ row[i].outcome = "failed_terminal" => row[i].status = "dead"

\* Together: what a row says of its attempts, its status and its outcome agrees,
\* after every failure, crash and reclaim.
RowsAgree == RetryableHasBudget /\ OutcomeMatchesStatus

\* What queue.py:357 says of a job that failed terminally, "Never retried": no slot
\* claims it again. With overruns the code does not keep it: a slot that lost its lease
\* and the race settles the row as it likes.
TerminalIsNeverRetried ==
  [][\A w \in Worker, i \in Id : ClaimNextJob(w, i) => row[i].outcome # "failed_terminal"]_vars

-----------------------------------------------------------------------------
(* The queue implements the promise it makes to producers *)

Phase(i) == CASE row[i].status \in {"pending", "failed"} -> "waiting"
              [] row[i].status \in Settled -> "done"
              [] OTHER -> row[i].status

Contract == INSTANCE BoundedRetry WITH
  phase  <- [i \in Id |-> Phase(i)],
  starts <- [i \in Id |-> row[i].attempt],
  budget <- [i \in Id |-> row[i].max]

\* Every step of the queue is a step of BoundedRetry or leaves it unchanged.
ImplementsBoundedRetry == Contract!Spec

-----------------------------------------------------------------------------
(* Liveness. The poll loops keep claiming, handlers return, results are      *)
(* written or the write fails, the reaper runs every minute, time passes.    *)
(* Nothing is assumed of producers, crashes and deletions.                   *)

Fairness ==
  /\ \A i \in Id : /\ WF_vars(\E w \in Worker : ClaimNextJob(w, i))
                   /\ WF_vars(BecomeDue(i))
                   /\ WF_vars(LeaseExpires(i))
  /\ \A w \in Worker : /\ WF_vars(\E v \in Verdict : HandlerReturns(w, v))
                       /\ WF_vars(Settle(w) \/ CompleteRaises(w) \/ SettleRaises(w))
  /\ WF_vars(ReclaimStaleJobs)

LiveSpec == Spec /\ Fairness

\* The row is out of attempts and in a status no statement selects.
Stranded(i) == row[i].status \in {"running", "failed"} /\ row[i].attempt = row[i].max

\* A job that was enqueued is settled or deleted, or its last attempt was lost
\* (a crash, a failed write, an overrun) and the row is stranded.
JobsSettleOrStrand ==
  \A i \in Id : row[i].status = "pending" ~>
                 (row[i].status \in Settled \cup {"deleted"} \/ Stranded(i))
=============================================================================
