--------------------------- MODULE JobQueueProofs ---------------------------
(***************************************************************************)
(* Theorems about the job queue, for any sets of rows, keys and workers    *)
(* and any attempt budgets, and about the producers and the operators      *)
(* beside it.                                                              *)
(***************************************************************************)
EXTENDS JobProducers, JobAdmin, TLAPS

(* Type correctness. *)

LEMMA NoRowType == ASSUME NEW st \in Status PROVE NoRow(st) \in Row
  BY DEF NoRow, Row, Outcome

LEMMA IdleSlotType == IdleSlot \in Slot
  BY DEF IdleSlot, Slot, Verdict

LEMMA InitType == Init => TypeOK
  BY NoRowType, IdleSlotType DEF Init, TypeOK, Status

LEMMA TypeStep == ASSUME TypeOK, [Next]_vars PROVE TypeOK'
<1> USE DEF TypeOK
<1>1. CASE UNCHANGED vars
  BY <1>1 DEF vars
<1>2. ASSUME NEW w \in Worker PROVE [slot EXCEPT ![w] = IdleSlot] \in [Worker -> Slot]
  BY IdleSlotType
<1>4. CASE Produce
  <2> SUFFICES ASSUME NEW i \in Id, NEW k \in Key \cup {NoKey}, NEW m \in Budgets,
                      NEW due \in BOOLEAN, Enqueue(i, k, m, due)
               PROVE TypeOK'
    BY <1>4 DEF Produce
  <2> QED BY BudgetAssumption DEF Enqueue, Row, Status, Present, Outcome
<1>5. CASE Clock
  <2> SUFFICES ASSUME NEW i \in Id, BecomeDue(i) \/ LeaseExpires(i) PROVE TypeOK'
    BY <1>5 DEF Clock
  <2> QED BY ZenonT(60) DEF BecomeDue, LeaseExpires, Row
<1>6. ASSUME NEW w \in Worker, Work(w) PROVE TypeOK'
  <2>1. ASSUME NEW i \in Id, ClaimNextJob(w, i) PROVE TypeOK'
    BY <2>1 DEF ClaimNextJob, Row, Slot, Status, Present, Verdict
  <2>2. ASSUME NEW v \in Verdict, HandlerReturns(w, v) PROVE TypeOK'
    BY <2>2 DEF HandlerReturns, Slot
  <2>3. CASE Settle(w)
    <3> USE DEF Overwrite, Row, Status, Present, Settled, Outcome
    <3>1. Release(w) => slot' \in [Worker -> Slot]
      BY <1>2 DEF Release
    <3>2. CASE CompleteJob(w)
      BY <3>1, <3>2, ZenonT(60) DEF CompleteJob
    <3>3. CASE CancelJob(w)
      BY <3>1, <3>3, ZenonT(60) DEF CancelJob
    <3>4. CASE FailJobTerminal(w)
      BY <3>1, <3>4, ZenonT(60) DEF FailJobTerminal
    <3>5. CASE FailJob(w)
      <4> DEFINE i == slot[w].id
                 dead == [row[i] EXCEPT !.status = "dead"]
                 failed == [row[i] EXCEPT !.status = "failed", !.due = FALSE]
      <4>1. i \in Id => dead \in Row /\ failed \in Row
        BY ZenonT(60)
      <4>2. row' \in {row, [row EXCEPT ![i] = dead], [row EXCEPT ![i] = failed]}
        BY <3>5 DEF FailJob
      <4> HIDE DEF dead, failed, i
      <4>3. row' \in [Id -> Row]
        BY <4>1, <4>2
      <4> QED BY <3>1, <3>5, <4>3 DEF FailJob
    <3> QED BY <2>3, <3>2, <3>3, <3>4, <3>5 DEF Settle
  <2> QED BY <1>6, <2>1, <2>2, <2>3 DEF Work
<1>7. ASSUME NEW w \in Worker, Fault(w) PROVE TypeOK'
  BY <1>2, <1>7 DEF Fault, CompleteRaises, SettleRaises, Crash, Release, Slot, Verdict
<1>8. CASE ReclaimStaleJobs
  BY <1>8 DEF ReclaimStaleJobs, Row, Status, Present
<1>9. ASSUME NEW S, Delete(S) PROVE TypeOK'
  BY <1>9, NoRowType DEF Delete, Status
<1> QED
  BY <1>1, <1>4, <1>5, <1>6, <1>7, <1>8, <1>9
     DEF Next, Serve, Purge, Erase, PurgeFailedJobs, EraseJobs

\* The variables keep their types in every behaviour of the queue.
THEOREM TypeCorrect == Spec => []TypeOK
<1>1. TypeOK /\ [Next]_vars => TypeOK'
  BY TypeStep
<1> QED
  BY <1>1, InitType, PTL DEF Spec

-----------------------------------------------------------------------------
(* The attempt budget and the distinctness of claims, with overruns. *)

\* Ids are not reused, so no slot remembers a row that is not inserted yet.
HeldRowsWereBorn ==
  \A w \in Worker, i \in Id : Holds(w, i) => row[i].status # "unborn"

ClaimInv == TypeOK /\ AttemptsWithinBudget /\ ClaimsDistinct /\ HeldRowsWereBorn

\* Steps that neither insert, claim nor delete a row: they leave the attempts and
\* budgets alone, and a slot keeps its claim or drops it.
Quiet ==
  /\ \A i \in Id : /\ row'[i].attempt = row[i].attempt
                   /\ row'[i].max = row[i].max
                   /\ row'[i].status \in Present <=> row[i].status \in Present
                   /\ row'[i].status = "unborn" <=> row[i].status = "unborn"
  /\ \A w \in Worker : \/ slot'[w] = IdleSlot
                       \/ slot'[w].id = slot[w].id /\ slot'[w].attempt = slot[w].attempt

LEMMA QuietKeepsClaims == ASSUME ClaimInv, TypeOK', Quiet PROVE ClaimInv'
<1> USE DEF ClaimInv, Quiet, TypeOK
<1>1. AttemptsWithinBudget'
  BY IdAssumption DEF AttemptsWithinBudget, Holds, IsPresent, IdleSlot
<1>2. ClaimsDistinct'
  BY DEF ClaimsDistinct, IdleSlot
<1>3. HeldRowsWereBorn'
  BY IdAssumption DEF HeldRowsWereBorn, Holds, IdleSlot
<1> QED BY <1>1, <1>2, <1>3

LEMMA SettleIsQuiet == ASSUME TypeOK, NEW w \in Worker, Settle(w) PROVE Quiet
<1> USE DEF TypeOK, Quiet, Overwrite, IsPresent, Release, Present, Settled, Row, IdleSlot
<1>1. CASE CompleteJob(w)
  BY <1>1 DEF CompleteJob
<1>2. CASE CancelJob(w)
  BY <1>2 DEF CancelJob
<1>3. CASE FailJobTerminal(w)
  BY <1>3 DEF FailJobTerminal
<1>4. CASE FailJob(w)
  BY <1>4 DEF FailJob
<1> QED BY <1>1, <1>2, <1>3, <1>4 DEF Settle

LEMMA ClaimInvStep == ASSUME ClaimInv, TypeOK', [Next]_vars PROVE ClaimInv'
<1> USE DEF ClaimInv, TypeOK
<1>1. CASE UNCHANGED vars
  BY <1>1, QuietKeepsClaims DEF vars, Quiet
<1>2. CASE Produce
  <2> SUFFICES ASSUME NEW i \in Id, NEW k \in Key \cup {NoKey}, NEW m \in Budgets,
                      NEW due \in BOOLEAN, Enqueue(i, k, m, due)
               PROVE ClaimInv'
    BY <1>2 DEF Produce
  <2>1. m \in Nat \ {0} /\ row'[i].attempt = 0 /\ row'[i].max = m /\ row'[i].status = "pending"
    BY BudgetAssumption DEF Enqueue
  <2>2. \A j \in Id \ {i} : row'[j] = row[j]
    BY DEF Enqueue
  <2>3. slot' = slot /\ \A w \in Worker : ~Holds(w, i)
    BY DEF Enqueue, HeldRowsWereBorn
  <2>4. AttemptsWithinBudget'
    BY <2>1, <2>2, <2>3 DEF AttemptsWithinBudget, Holds, IsPresent
  <2>5. ClaimsDistinct' /\ HeldRowsWereBorn'
    BY <2>1, <2>2, <2>3 DEF ClaimsDistinct, HeldRowsWereBorn, Holds
  <2> QED BY <2>4, <2>5
<1>3. CASE Clock
  <2> SUFFICES ASSUME NEW i \in Id, BecomeDue(i) \/ LeaseExpires(i) PROVE ClaimInv'
    BY <1>3 DEF Clock
  <2>1. Quiet
    BY DEF BecomeDue, LeaseExpires, Quiet, Row
  <2> QED BY <2>1, QuietKeepsClaims
<1>4. ASSUME NEW w \in Worker, Work(w) PROVE ClaimInv'
  <2>1. ASSUME NEW i \in Id, ClaimNextJob(w, i) PROVE ClaimInv'
    <3>1. /\ row'[i].attempt = row[i].attempt + 1
          /\ row'[i].max = row[i].max
          /\ row'[i].attempt <= row'[i].max
          /\ row'[i].attempt \in Nat
          /\ row'[i].status = "running" /\ row[i].status \in Present
      BY <2>1 DEF ClaimNextJob, Eligible, Row, Present
    <3>2. \A j \in Id \ {i} : row'[j] = row[j]
      BY <2>1 DEF ClaimNextJob
    <3>3. /\ slot'[w].id = i /\ slot'[w].attempt = row'[i].attempt
          /\ \A v \in Worker \ {w} : slot'[v] = slot[v]
      BY <2>1, <3>1 DEF ClaimNextJob
    <3>4. \A v \in Worker : slot[v].id = i => slot[v].attempt \in 1..row[i].attempt
      BY <3>1 DEF AttemptsWithinBudget, Holds, IsPresent
    <3>5. row[i].attempt \in Nat
      BY DEF Row
    <3>6. AttemptsWithinBudget'
      <4>1. \A j \in Id : row'[j].attempt <= row'[j].max
        BY <3>1, <3>2 DEF AttemptsWithinBudget
      <4>2. ASSUME NEW v \in Worker, NEW j \in Id, slot'[v].id = j, row'[j].status \in Present
            PROVE slot'[v].attempt \in 1..row'[j].attempt
        <5>1. CASE v = w
          BY <4>2, <5>1, <3>1, <3>3, <3>5
        <5>2. CASE v # w /\ j = i
          BY <4>2, <5>2, <3>1, <3>3, <3>4, <3>5
        <5>3. CASE v # w /\ j # i
          BY <4>2, <5>3, <3>2, <3>3 DEF AttemptsWithinBudget, Holds, IsPresent
        <5> QED BY <5>1, <5>2, <5>3
      <4> QED BY <4>1, <4>2 DEF AttemptsWithinBudget, Holds, IsPresent
    <3>7. ClaimsDistinct'
      BY <3>1, <3>3, <3>4, <3>5 DEF ClaimsDistinct
    <3>8. HeldRowsWereBorn'
      BY <3>1, <3>2, <3>3 DEF HeldRowsWereBorn, Holds
    <3> QED BY <3>6, <3>7, <3>8
  <2>2. ASSUME NEW v \in Verdict, HandlerReturns(w, v) PROVE ClaimInv'
    BY <2>2, QuietKeepsClaims DEF HandlerReturns, Quiet, Slot
  <2>3. CASE Settle(w)
    BY <2>3, SettleIsQuiet, QuietKeepsClaims
  <2> QED BY <1>4, <2>1, <2>2, <2>3 DEF Work
<1>5. ASSUME NEW w \in Worker, Fault(w) PROVE ClaimInv'
  <2>1. row' = row /\ (slot' = [slot EXCEPT ![w] = IdleSlot]
                      \/ slot' = [slot EXCEPT ![w] = [slot[w] EXCEPT !.verdict = "error"]])
    BY <1>5 DEF Fault, CompleteRaises, SettleRaises, Crash, Release
  <2>2. \A v \in Worker : \/ slot'[v] = IdleSlot
                          \/ slot'[v].id = slot[v].id /\ slot'[v].attempt = slot[v].attempt
    BY <2>1 DEF Slot
  <2> QED BY <2>1, <2>2, QuietKeepsClaims DEF Quiet
<1>6. CASE ReclaimStaleJobs
  <2>1. \A i \in Id : \/ row'[i] = row[i]
                      \/ /\ row[i].status = "running"
                         /\ row'[i] = [row[i] EXCEPT !.status = "pending", !.lease = "null", !.due = TRUE]
    BY <1>6 DEF ReclaimStaleJobs, Reclaimable
  <2>2. slot' = slot
    BY <1>6 DEF ReclaimStaleJobs
  <2>3. ASSUME NEW i \in Id
        PROVE  /\ row'[i].attempt = row[i].attempt /\ row'[i].max = row[i].max
               /\ row'[i].status \in Present <=> row[i].status \in Present
               /\ row'[i].status = "unborn" <=> row[i].status = "unborn"
    <3>1. row[i] \in Row
      OBVIOUS
    <3> QED BY <2>1, <3>1 DEF Row, Present
  <2>4. Quiet
    BY <2>2, <2>3 DEF Quiet
  <2> QED BY <2>4, QuietKeepsClaims
<1>7. ASSUME NEW S, Delete(S), \A i \in S : row[i].status \in Present PROVE ClaimInv'
  <2>1. \A i \in Id : row'[i] = row[i] \/ row'[i] = NoRow("deleted")
    BY <1>7 DEF Delete
  <2>2. slot' = slot
    BY <1>7 DEF Delete
  <2>3. AttemptsWithinBudget'
    BY <2>1, <2>2 DEF AttemptsWithinBudget, Holds, IsPresent, NoRow, Present, Settled
  <2>4. ClaimsDistinct' /\ HeldRowsWereBorn'
    BY <2>1, <2>2 DEF ClaimsDistinct, HeldRowsWereBorn, Holds, NoRow
  <2> QED BY <2>3, <2>4
<1> QED
  BY <1>1, <1>2, <1>3, <1>4, <1>5, <1>6, <1>7
     DEF Next, Serve, Purge, Erase, PurgeFailedJobs, EraseJobs, IsPresent, Present

LEMMA ClaimInvInit == Init => ClaimInv
<1> SUFFICES ASSUME Init PROVE ClaimInv
  OBVIOUS
<1>1. TypeOK
  BY NoRowType, IdleSlotType DEF Init, TypeOK, Status
<1>2. AttemptsWithinBudget /\ ClaimsDistinct /\ HeldRowsWereBorn
  BY IdAssumption DEF Init, AttemptsWithinBudget, ClaimsDistinct, HeldRowsWereBorn, Holds, NoRow,
     IdleSlot
<1> QED BY <1>1, <1>2 DEF ClaimInv

LEMMA ClaimInvariant == Spec => []ClaimInv
<1>1. Init => ClaimInv
  BY ClaimInvInit
<1>2. ClaimInv /\ TypeOK' /\ [Next]_vars => ClaimInv'
  BY ClaimInvStep
<1> QED BY <1>1, <1>2, TypeCorrect, PTL DEF Spec

\* No job is handed to a handler more often than max_attempts allows, whatever
\* crashes, overruns, reclaims and deletions happen.
THEOREM BudgetKept == Spec => []AttemptsWithinBudget
  BY ClaimInvariant, PTL DEF ClaimInv

\* The attempt number a handler is given identifies its execution of the job.
THEOREM AttemptsIdentifyExecutions == Spec => []ClaimsDistinct
  BY ClaimInvariant, PTL DEF ClaimInv

\* Both: every execution has an attempt of its own within the budget.
THEOREM ExecutionsAreCounted == Spec => []ClaimsAreCounted
  BY ClaimInvariant, PTL DEF ClaimInv, ClaimsAreCounted

-----------------------------------------------------------------------------
(* Handlers that finish within the lease. *)

\* A busy slot knows the max_attempts of its row.
SlotsKnowTheirRows ==
  \A w \in Worker : /\ slot[w].pc # "idle" => slot[w].id \in Id
                   /\ \A i \in Id : Holds(w, i) /\ IsPresent(i) => slot[w].max = row[i].max

ExecInv == /\ ClaimInv
           /\ SlotsKnowTheirRows
           /\ SingleExecution
           /\ RetryableHasBudget
           /\ OutcomeMatchesStatus

\* What is said of a single row, and of the claim of a slot.
RowOK(i) ==
  /\ row[i].status \in {"pending", "failed"} => row[i].attempt < row[i].max
  /\ row[i].outcome = "succeeded" <=> row[i].status = "completed"
  /\ row[i].outcome = "cancelled_stale" <=> row[i].status = "cancelled"
  /\ row[i].outcome = "failed_terminal" => row[i].status = "dead"

SlotOK(w) ==
  /\ slot[w].pc # "idle" => slot[w].id \in Id
  /\ \A i \in Id : Holds(w, i) /\ IsPresent(i) => /\ row[i].status = "running"
                                                /\ row[i].attempt = slot[w].attempt
                                                /\ row[i].max = slot[w].max
                                                /\ row[i].lease = "live"

Exclusive == \A w, v \in Worker : slot[w].id = slot[v].id /\ slot[w].id # NoId => w = v

LEMMA ExecInvByParts ==
  ExecInv <=> ClaimInv /\ Exclusive /\ (\A i \in Id : RowOK(i)) /\ (\A w \in Worker : SlotOK(w))
BY DEF ExecInv, SlotsKnowTheirRows, SingleExecution, RetryableHasBudget, OutcomeMatchesStatus,
   RowOK, SlotOK, Exclusive

\* Writing a result touches the slot and the one row it runs, and no other slot.
LEMMA SettleKeepsExec ==
  ASSUME ExecInv, NEW w \in Worker, Settle(w)
  PROVE  Exclusive' /\ (\A i \in Id : RowOK(i)') /\ (\A v \in Worker : SlotOK(v)')
<1>1. /\ TypeOK /\ Exclusive /\ (\A j \in Id : RowOK(j)) /\ (\A v \in Worker : SlotOK(v))
      /\ slot[w].pc = "settling"
  BY ExecInvByParts DEF ClaimInv, Settle, CompleteJob, CancelJob, FailJobTerminal, FailJob, Settling
<1> PICK i \in Id : i = slot[w].id
  BY <1>1 DEF SlotOK
<1>2. i = slot[w].id /\ row[i] \in Row /\ slot[w] \in Slot
  BY <1>1 DEF TypeOK
<1>3. slot' = [slot EXCEPT ![w] = IdleSlot]
  BY DEF Settle, CompleteJob, CancelJob, FailJobTerminal, FailJob, Release
<1>4. /\ slot'[w] = IdleSlot
      /\ \A v \in Worker \ {w} : slot'[v] = slot[v] /\ slot[v].id # i
  BY <1>1, <1>2, <1>3, IdAssumption DEF TypeOK, Exclusive
<1>5. \A j \in Id \ {i} : row'[j] = row[j]
  BY <1>1, <1>2 DEF Settle, CompleteJob, CancelJob, FailJobTerminal, FailJob, Overwrite, TypeOK
<1>6. RowOK(i)'
  <2>1. CASE ~IsPresent(i)
    <3>1. row' = row
      BY <2>1 DEF Settle, CompleteJob, CancelJob, FailJobTerminal, FailJob, Overwrite
    <3> QED BY <1>1, <1>2, <3>1 DEF RowOK
  <2>2. CASE IsPresent(i)
    <3>1. /\ row[i].status = "running" /\ row[i].attempt = slot[w].attempt
          /\ row[i].max = slot[w].max
      BY <1>1, <1>2, <2>2 DEF SlotOK, Holds
    <3>2. row[i].outcome = "none"
      BY <1>1, <1>2, <3>1 DEF RowOK, Row, Outcome
    <3> USE DEF Overwrite, RowOK, Row, TypeOK
    <3>3. CASE CompleteJob(w)
      BY <1>1, <1>2, <2>2, <3>2, <3>3 DEF CompleteJob
    <3>4. CASE CancelJob(w)
      BY <1>1, <1>2, <2>2, <3>2, <3>4 DEF CancelJob
    <3>5. CASE FailJobTerminal(w)
      BY <1>1, <1>2, <2>2, <3>2, <3>5 DEF FailJobTerminal
    <3>6. CASE FailJob(w)
      BY <1>1, <1>2, <2>2, <3>1, <3>2, <3>6 DEF FailJob, Slot
    <3> QED BY <3>3, <3>4, <3>5, <3>6 DEF Settle
  <2> QED BY <2>1, <2>2
<1>7. ASSUME NEW j \in Id PROVE RowOK(j)'
  BY <1>1, <1>5, <1>6 DEF RowOK
<1>8. Exclusive'
  BY <1>1, <1>4 DEF Exclusive, IdleSlot
<1>9. ASSUME NEW v \in Worker PROVE SlotOK(v)'
  <2>1. CASE v = w
    BY <1>4, <2>1, IdAssumption DEF SlotOK, IdleSlot, Holds
  <2>2. CASE v # w
    BY <1>1, <1>4, <1>5, <2>2 DEF SlotOK, Holds, IsPresent
  <2> QED BY <2>1, <2>2
<1> QED BY <1>7, <1>8, <1>9

LEMMA ExecInvStep == ASSUME ~MayOverrun, ExecInv, ClaimInv', [Next]_vars PROVE ExecInv'
<1>1. /\ TypeOK /\ HeldRowsWereBorn /\ Exclusive
      /\ (\A j \in Id : RowOK(j)) /\ (\A v \in Worker : SlotOK(v))
  BY ExecInvByParts DEF ClaimInv
<1> SUFFICES Exclusive' /\ (\A i \in Id : RowOK(i)') /\ (\A w \in Worker : SlotOK(w)')
  BY DEF ExecInv, SlotsKnowTheirRows, SingleExecution, RetryableHasBudget, OutcomeMatchesStatus,
     RowOK, SlotOK, Exclusive, Holds, IsPresent
<1> DEFINE Goal == Exclusive' /\ (\A i \in Id : RowOK(i)') /\ (\A w \in Worker : SlotOK(w)')
\* A step that leaves the slots and every row that is held alone has little to show.
<1>2. ASSUME slot' = slot, \A j \in Id : Held(j) /\ row'[j].status \in Present => row'[j] = row[j],
             \A j \in Id : RowOK(j)'
      PROVE Goal
  BY <1>1, <1>2 DEF Exclusive, SlotOK, Holds, Held, IsPresent
<1>3. CASE UNCHANGED vars
  BY <1>1, <1>2, <1>3 DEF vars, RowOK
<1>4. CASE Produce
  <2> SUFFICES ASSUME NEW i \in Id, NEW k \in Key \cup {NoKey}, NEW m \in Budgets,
                      NEW due \in BOOLEAN, Enqueue(i, k, m, due)
               PROVE Goal
    BY <1>4 DEF Produce
  <2>1. slot' = slot /\ (\A j \in Id \ {i} : row'[j] = row[j]) /\ ~Held(i)
    BY <1>1 DEF Enqueue, TypeOK, HeldRowsWereBorn, Held
  <2>2. RowOK(i)'
    BY <1>1, BudgetAssumption DEF Enqueue, TypeOK, RowOK
  <2> QED BY <1>1, <1>2, <2>1, <2>2 DEF RowOK
<1>5. ASSUME NEW i \in Id, BecomeDue(i) \/ LeaseExpires(i) PROVE Goal
  <2>1. ~Held(i)
    BY <1>1, <1>5 DEF BecomeDue, LeaseExpires, Held, SlotOK, Holds, IsPresent, Present
  <2>2. slot' = slot /\ (\A j \in Id \ {i} : row'[j] = row[j])
    BY <1>1, <1>5 DEF BecomeDue, LeaseExpires, TypeOK
  <2>3. RowOK(i)'
    BY <1>1, <1>5 DEF BecomeDue, LeaseExpires, TypeOK, RowOK, Row
  <2> QED BY <1>1, <1>2, <2>1, <2>2, <2>3 DEF RowOK
<1>6. ASSUME NEW w \in Worker, NEW i \in Id, ClaimNextJob(w, i) PROVE Goal
  <2>1. ~Held(i)
    BY <1>1, <1>6 DEF ClaimNextJob, Eligible, Held, SlotOK, Holds, IsPresent, Present
  <2>2. /\ slot'[w].id = i /\ slot'[w].attempt = row'[i].attempt /\ slot'[w].max = row'[i].max
        /\ \A v \in Worker \ {w} : slot'[v] = slot[v]
    BY <1>1, <1>6 DEF ClaimNextJob, TypeOK, Row
  <2>3. /\ row'[i].status = "running" /\ row'[i].lease = "live" /\ row'[i].outcome = row[i].outcome
        /\ \A j \in Id \ {i} : row'[j] = row[j]
    BY <1>1, <1>6 DEF ClaimNextJob, TypeOK, Row
  <2>4. RowOK(i)'
    BY <1>1, <1>6, <2>3 DEF ClaimNextJob, Eligible, RowOK
  <2>5. Exclusive'
    BY <1>1, <2>1, <2>2 DEF Exclusive, Held, Holds
  <2>6. ASSUME NEW v \in Worker PROVE SlotOK(v)'
    <3>1. CASE v = w
      BY <2>2, <2>3, <3>1 DEF SlotOK, Holds
    <3>2. CASE v # w
      BY <1>1, <2>1, <2>2, <2>3, <3>2 DEF SlotOK, Held, Holds, IsPresent
    <3> QED BY <3>1, <3>2
  <2> QED BY <1>1, <2>3, <2>4, <2>5, <2>6 DEF RowOK
<1>7. ASSUME NEW w \in Worker, row' = row,
             \/ slot' = [slot EXCEPT ![w] = IdleSlot]
             \/ /\ slot[w].pc # "idle"
                /\ slot'[w].id = slot[w].id /\ slot'[w].attempt = slot[w].attempt
                /\ slot'[w].max = slot[w].max
                /\ \A v \in Worker \ {w} : slot'[v] = slot[v]
      PROVE Goal
  <2>1. \A v \in Worker : \/ slot'[v] = IdleSlot
                          \/ /\ slot'[v].id = slot[v].id /\ slot'[v].attempt = slot[v].attempt
                             /\ slot'[v].max = slot[v].max
                             /\ slot[v].pc = "idle" => slot'[v].pc = "idle"
    BY <1>1, <1>7 DEF TypeOK
  <2>2. Exclusive'
    BY <1>1, <2>1 DEF Exclusive, IdleSlot
  <2>3. \A v \in Worker : SlotOK(v)'
    BY <1>1, <1>7, <2>1, IdAssumption DEF SlotOK, Holds, IsPresent, IdleSlot
  <2> QED BY <1>1, <1>7, <2>2, <2>3 DEF RowOK
<1>8. ASSUME NEW w \in Worker, NEW v \in Verdict, HandlerReturns(w, v) PROVE Goal
  BY <1>1, <1>7, <1>8 DEF HandlerReturns, TypeOK, Slot
<1>9. ASSUME NEW w \in Worker, Fault(w) PROVE Goal
  <2>1. CASE CompleteRaises(w)
    BY <1>1, <1>7, <2>1 DEF CompleteRaises, Settling, TypeOK, Slot
  <2>2. CASE SettleRaises(w) \/ Crash(w)
    BY <1>7, <2>2 DEF SettleRaises, Crash, Release
  <2> QED BY <1>9, <2>1, <2>2 DEF Fault
<1>10. CASE ReclaimStaleJobs
  <2>1. \A i \in Id : \/ row'[i] = row[i]
                      \/ /\ row[i].status = "running" /\ row[i].lease = "expired"
                         /\ row[i].attempt < row[i].max
                         /\ row'[i] = [row[i] EXCEPT !.status = "pending", !.lease = "null", !.due = TRUE]
    BY <1>10 DEF ReclaimStaleJobs, Reclaimable
  <2>2. slot' = slot
    BY <1>10 DEF ReclaimStaleJobs
  <2>3. ASSUME NEW i \in Id PROVE RowOK(i)'
    <3>1. row[i] \in Row /\ RowOK(i)
      BY <1>1 DEF TypeOK
    <3> QED BY <2>1, <3>1 DEF RowOK, Row
  <2>4. \A i \in Id : Held(i) => row'[i] = row[i]
    BY <1>1, <2>1 DEF Held, SlotOK, Holds, IsPresent, Present
  <2> QED BY <1>2, <2>2, <2>3, <2>4
<1>11. ASSUME NEW S, Delete(S) PROVE Goal
  <2>1. \A i \in Id : row'[i] = row[i] \/ row'[i] = NoRow("deleted")
    BY <1>11 DEF Delete
  <2>2. slot' = slot
    BY <1>11 DEF Delete
  <2>3. \A i \in Id : RowOK(i)'
    BY <1>1, <2>1 DEF RowOK, NoRow
  <2>4. \A i \in Id : row'[i].status \in Present => row'[i] = row[i]
    BY <2>1 DEF NoRow, Present, Settled
  <2> QED BY <1>2, <2>2, <2>3, <2>4
<1> QED
  BY <1>3, <1>4, <1>5, <1>6, <1>8, <1>9, <1>10, <1>11, SettleKeepsExec
     DEF Next, Clock, Work, Serve, Purge, Erase, PurgeFailedJobs, EraseJobs

LEMMA ExecInvInit == Init => ExecInv
<1> SUFFICES ASSUME Init PROVE ExecInv
  OBVIOUS
<1>1. ClaimInv
  BY ClaimInvInit
<1>2. Exclusive /\ (\A i \in Id : RowOK(i)) /\ (\A w \in Worker : SlotOK(w))
  BY IdAssumption DEF Init, Exclusive, RowOK, SlotOK, Holds, NoRow, IdleSlot
<1> QED BY <1>1, <1>2, ExecInvByParts

LEMMA ExecInvariant == ASSUME ~MayOverrun PROVE Spec => []ExecInv
<1>1. Init => ExecInv
  BY ExecInvInit
<1>2. ExecInv /\ ClaimInv' /\ [Next]_vars => ExecInv'
  BY ExecInvStep
<1> QED BY <1>1, <1>2, ClaimInvariant, PTL DEF Spec

\* When handlers finish within the lease, no two slots ever work on one job, and
\* the row of a job in progress is running under that slot's live lease.
THEOREM OneExecutionAtATime == ASSUME ~MayOverrun PROVE Spec => []SingleExecution
  BY ExecInvariant, PTL DEF ExecInv

\* When handlers finish within the lease, no job is left in a retryable status
\* without an attempt.
THEOREM RetryablesCanBeRetried == ASSUME ~MayOverrun PROVE Spec => []RetryableHasBudget
  BY ExecInvariant, PTL DEF ExecInv

\* When handlers finish within the lease, the outcome column never contradicts
\* the status.
THEOREM OutcomesAgree == ASSUME ~MayOverrun PROVE Spec => []OutcomeMatchesStatus
  BY ExecInvariant, PTL DEF ExecInv

\* Both: when handlers finish within the lease, attempts, status and outcome agree.
THEOREM RowsStayConsistent == ASSUME ~MayOverrun PROVE Spec => []RowsAgree
  BY ExecInvariant, PTL DEF ExecInv, RowsAgree

-----------------------------------------------------------------------------
(* The refinement. *)

LEMMA SameRowStays ==
  ASSUME NEW i \in Id, Phase(i)' = Phase(i), row'[i].attempt = row[i].attempt, row'[i].max = row[i].max
  PROVE  Contract!Stay(i)
  BY DEF Contract!Stay, Contract!Move

\* A row moves as BoundedRetry lets a job move.
LEMMA RowRefines ==
  ASSUME ExecInv, [Next]_vars, NEW i \in Id
  PROVE  Contract!Step(i)
<1>1. /\ TypeOK /\ RowOK(i) /\ (\A v \in Worker : SlotOK(v)) /\ row[i] \in Row
  BY ExecInvByParts DEF ClaimInv, TypeOK
<1> USE DEF Contract!Step
<1>2. CASE row'[i] = row[i]
  BY <1>2, SameRowStays DEF Phase
<1>3. ASSUME NEW k \in Key \cup {NoKey}, NEW m \in Budgets, NEW due \in BOOLEAN, Enqueue(i, k, m, due)
      PROVE Contract!Submit(i)
  <2>1. Phase(i) = "unborn" /\ Phase(i)' = "waiting" /\ row'[i].attempt = 0 /\ row'[i].max = m
    BY <1>1, <1>3 DEF Enqueue, Phase, Settled, TypeOK
  <2> QED BY <2>1 DEF Contract!Submit, Contract!Move
<1>4. CASE BecomeDue(i) \/ LeaseExpires(i)
  <2>1. /\ row'[i].status = row[i].status
        /\ row'[i].attempt = row[i].attempt /\ row'[i].max = row[i].max
    BY <1>1, <1>4 DEF BecomeDue, LeaseExpires, TypeOK, Row
  <2> QED BY <2>1, SameRowStays DEF Phase
<1>5. ASSUME NEW w \in Worker, ClaimNextJob(w, i) PROVE Contract!Start(i)
  <2>1. /\ Phase(i) = "waiting" /\ Phase(i)' = "running" /\ row[i].attempt < row[i].max
        /\ row'[i].attempt = row[i].attempt + 1 /\ row'[i].max = row[i].max
    BY <1>1, <1>5 DEF ClaimNextJob, Eligible, Phase, Settled, TypeOK, Row
  <2> QED BY <2>1 DEF Contract!Start, Contract!Move
<1>6. ASSUME NEW w \in Worker, Settle(w), row'[i] # row[i]
      PROVE Contract!Finish(i) \/ Contract!GiveBack(i)
  <2>1. i = slot[w].id /\ IsPresent(i) /\ slot[w] \in Slot
    BY <1>1, <1>6 DEF Settle, CompleteJob, CancelJob, FailJobTerminal, FailJob, Overwrite, TypeOK
  <2>2. /\ row[i].status = "running" /\ row[i].attempt = slot[w].attempt /\ row[i].max = slot[w].max
    BY <1>1, <2>1 DEF SlotOK, Holds
  <2>3. /\ row'[i].attempt = row[i].attempt /\ row'[i].max = row[i].max
        /\ \/ row'[i].status \in Settled
           \/ row'[i].status = "failed" /\ row[i].attempt < row[i].max
    <3> USE DEF Overwrite, TypeOK, Row, Settled
    <3>1. CASE CompleteJob(w)
      BY <1>1, <2>1, <3>1 DEF CompleteJob
    <3>2. CASE CancelJob(w)
      BY <1>1, <2>1, <3>2 DEF CancelJob
    <3>3. CASE FailJobTerminal(w)
      BY <1>1, <2>1, <3>3 DEF FailJobTerminal
    <3>4. CASE FailJob(w)
      BY <1>1, <2>1, <2>2, <3>4 DEF FailJob
    <3> QED BY <1>6, <3>1, <3>2, <3>3, <3>4 DEF Settle
  <2>4. Phase(i) = "running"
    BY <2>2 DEF Phase, Settled
  <2>5. CASE row'[i].status \in Settled
    <3>1. Phase(i)' = "done"
      BY <2>5 DEF Phase, Settled
    <3> QED BY <2>3, <2>4, <3>1 DEF Contract!Finish, Contract!Move
  <2>6. CASE row'[i].status = "failed" /\ row[i].attempt < row[i].max
    <3>1. Phase(i)' = "waiting"
      BY <2>6 DEF Phase, Settled
    <3> QED BY <2>3, <2>4, <2>6, <3>1 DEF Contract!GiveBack, Contract!Move
  <2> QED BY <2>3, <2>5, <2>6
<1>7. CASE ReclaimStaleJobs /\ row'[i] # row[i]
  <2>1. /\ row[i].status = "running" /\ row[i].attempt < row[i].max
        /\ row'[i] = [row[i] EXCEPT !.status = "pending", !.lease = "null", !.due = TRUE]
    BY <1>7 DEF ReclaimStaleJobs, Reclaimable
  <2>2. /\ Phase(i) = "running" /\ Phase(i)' = "waiting"
        /\ row'[i].attempt = row[i].attempt /\ row'[i].max = row[i].max
    BY <1>1, <2>1 DEF Phase, Settled, Row
  <2> QED BY <2>1, <2>2 DEF Contract!GiveBack, Contract!Move
<1>8. ASSUME NEW S, Delete(S), \A j \in S : row[j].status \in Present, row'[i] # row[i]
      PROVE Contract!Forget(i)
  <2>1. row[i].status \in Present /\ row'[i] = NoRow("deleted")
    BY <1>8 DEF Delete
  <2>2. /\ Phase(i) \in {"waiting", "running", "done"} /\ Phase(i)' = "deleted"
        /\ row'[i].attempt = 0 /\ row'[i].max = 0
    BY <2>1 DEF Phase, Present, Settled, NoRow
  <2> QED BY <2>2 DEF Contract!Forget, Contract!Move
<1>9. CASE UNCHANGED vars
  BY <1>2, <1>9 DEF vars
<1>10. CASE Produce
  <2>1. PICK j \in Id, k \in Key \cup {NoKey}, m \in Budgets, due \in BOOLEAN : Enqueue(j, k, m, due)
    BY <1>10 DEF Produce
  <2> QED BY <1>1, <1>2, <1>3, <2>1 DEF Enqueue, TypeOK
<1>11. CASE Clock
  <2>1. PICK j \in Id : BecomeDue(j) \/ LeaseExpires(j)
    BY <1>11 DEF Clock
  <2> QED BY <1>1, <1>2, <1>4, <2>1 DEF BecomeDue, LeaseExpires, TypeOK
<1>12. ASSUME NEW w \in Worker, Work(w) PROVE Contract!Step(i)
  <2>1. ASSUME NEW j \in Id, ClaimNextJob(w, j) PROVE Contract!Step(i)
    BY <1>1, <1>2, <1>5, <2>1 DEF ClaimNextJob, TypeOK
  <2>2. ASSUME NEW v \in Verdict, HandlerReturns(w, v) PROVE Contract!Step(i)
    BY <1>2, <2>2 DEF HandlerReturns
  <2> QED BY <1>2, <1>6, <1>12, <2>1, <2>2 DEF Work
<1>13. ASSUME NEW w \in Worker, Fault(w) PROVE Contract!Step(i)
  BY <1>2, <1>13 DEF Fault, CompleteRaises, SettleRaises, Crash
<1>14. CASE Purge \/ Erase
  BY <1>2, <1>8, <1>14 DEF Purge, Erase, PurgeFailedJobs, EraseJobs, IsPresent, Present
<1> QED
  BY <1>2, <1>7, <1>9, <1>10, <1>11, <1>12, <1>13, <1>14 DEF Next, Serve

\* When handlers finish within the lease, the job queue implements BoundedRetry.
THEOREM QueueImplementsContract == ASSUME ~MayOverrun PROVE Spec => ImplementsBoundedRetry
<1>1. Init => Contract!Init
  BY DEF Init, Contract!Init, Phase, NoRow, Settled
<1>2. ASSUME ExecInv, TypeOK', [Next]_vars PROVE Contract!Next
  <2>1. \A i \in Id : Contract!Step(i)
    BY <1>2, RowRefines
  <2>2. \A i \in Id : /\ Phase(i)' \in {"unborn", "waiting", "running", "done", "deleted"}
                     /\ row'[i].attempt \in Nat /\ row'[i].max \in Nat
    BY <1>2 DEF TypeOK, Row, Phase, Status, Present, Settled
  <2> QED BY <2>1, <2>2 DEF Contract!Next, Contract!Phases
<1> QED
  BY <1>1, <1>2, ExecInvariant, TypeCorrect, PTL DEF Spec, ImplementsBoundedRetry, Contract!Spec
-----------------------------------------------------------------------------
(* Producers: whom a key belongs to, and what a caller was told. Handlers        *)
(* finish within the lease.                                                      *)

\* A base job that died is there, and dead.
DeadBase(b) == \E j \in Id : IsPresent(j) /\ row[j].key = <<b, NoToken>> /\ row[j].status = "dead"

CallTypeOK == call \in [Producer -> Call]

\* A call's key is its base key or its retry key; only the latter needs a dead base.
KeysAreOwn ==
  \A p \in Producer :
    /\ call[p].pc = "chooseKey" => call[p].key = <<call[p].base, NoToken>>
    /\ call[p].pc # "idle" =>
         \/ call[p].key = <<call[p].base, NoToken>>
         \/ call[p].key = <<call[p].base, call[p].token>> /\ DeadBase(call[p].base)

\* Two rows never share a key, and a row with a retry key has a dead base beside it.
RowKeysAreUnique ==
  \A i, j \in Id : IsPresent(i) /\ IsPresent(j) /\ row[i].key = row[j].key /\ row[i].key # NoKey => i = j

RetriesHaveDeadBase ==
  \A i \in Id, b \in BaseKey, t \in Token : IsPresent(i) /\ row[i].key = <<b, t>> => DeadBase(b)

\* An answer names a row that was born, and it was the caller's key.
AnswersNameRows ==
  \A p \in Producer : call[p].pc = "done" /\ call[p].answer # "enqueue_error" =>
                        call[p].id \in Id /\ row[call[p].id].status # "unborn"

ProducersInv ==
  /\ ExecInv /\ CallTypeOK /\ KeysAreOwn /\ RowKeysAreUnique /\ RetriesHaveDeadBase /\ AnswersNameRows
  /\ NewIsExclusive /\ FinalAnswersHold

\* Where a call goes, the rest of it stays.
LEMMA GotoFacts ==
  ASSUME CallTypeOK, NEW p \in Producer, NEW pc \in {"chooseKey", "lookup", "insert", "lookAgain"}, Goto(p, pc)
  PROVE  /\ CallTypeOK' /\ \A q \in Producer : q # p => call'[q] = call[q]
         /\ call'[p].pc = pc /\ call'[p].base = call[p].base /\ call'[p].token = call[p].token
         /\ call'[p].key = call[p].key
BY DEF Goto, CallTypeOK, Call

LEMMA AnswerFacts ==
  ASSUME CallTypeOK, NEW p \in Producer, NEW i \in Id \cup {NoId}, NEW a \in UserStatus, Answer(p, i, a)
  PROVE  /\ CallTypeOK' /\ \A q \in Producer : q # p => call'[q] = call[q]
         /\ call'[p].pc = "done" /\ call'[p].base = call[p].base /\ call'[p].token = call[p].token
         /\ call'[p].key = call[p].key /\ call'[p].id = i /\ call'[p].answer = a
BY DEF Answer, CallTypeOK, Call

\* The key of a call that began.
LEMMA KeyType ==
  ASSUME CallTypeOK, KeysAreOwn, NEW p \in Producer, call[p].pc # "idle"
  PROVE  call[p].key \in Key /\ call[p].key # NoKey
<1>1. call[p].base \in BaseKey /\ call[p].token \in Token \cup {NoToken}  BY DEF CallTypeOK, Call
<1>2. call[p].key \in {<<call[p].base, NoToken>>, <<call[p].base, call[p].token>>}  BY DEF KeysAreOwn
<1> QED BY <1>1, <1>2, EffectiveKeys, KeyAssumption

\* What a producer does to the table, the queue may do.
LEMMA ProducersAreProducers ==
  ASSUME CallTypeOK, [ProducersNext]_allVars
  PROVE  [Next]_vars
<1>1. CASE Serve  BY <1>1 DEF Next
<1>2. ASSUME NEW p \in Producer, Insert(p) PROVE [Next]_vars
  <2>1. call[p].key \in Key \cup {NoKey}  BY DEF CallTypeOK, Call
  <2> QED BY <1>2, <2>1 DEF Insert, Next, Produce
<1>3. ASSUME NEW p \in Producer, Begin(p) \/ ChooseKey(p) \/ LookUp(p) \/ LookAgain(p) \/ StatementFails(p)
      PROVE  UNCHANGED vars
  BY <1>3 DEF Begin, ChooseKey, LookUp, LookAgain, StatementFails
<1> QED BY <1>1, <1>2, <1>3 DEF ProducersNext, allVars, vars

\* What serves the rows makes none, changes no key and leaves a final row alone.
LEMMA ServeKeepsRows ==
  ASSUME ~MayOverrun, ExecInv, Serve, NEW i \in Id
  PROVE  /\ IsPresent(i)' => IsPresent(i) /\ row'[i].key = row[i].key
         /\ row[i].status # "unborn" => row'[i].status # "unborn"
         /\ row[i].status \in {"dead", "completed"} => row'[i] = row[i]
<1>1. /\ TypeOK /\ (\A v \in Worker : SlotOK(v)) /\ row \in [Id -> Row]
  BY ExecInvByParts DEF ClaimInv, TypeOK
<1>2. ASSUME NEW j \in Id, BecomeDue(j) \/ LeaseExpires(j)
      PROVE  /\ row'[i].status = row[i].status /\ row'[i].key = row[i].key
             /\ row[i].status \in {"dead", "completed"} => row'[i] = row[i]
  BY <1>1, <1>2 DEF BecomeDue, LeaseExpires, Row
<1>3. ASSUME NEW w \in Worker, NEW j \in Id, ClaimNextJob(w, j)
      PROVE  /\ IsPresent(i)' => IsPresent(i) /\ row'[i].key = row[i].key
             /\ row[i].status # "unborn" => row'[i].status # "unborn"
             /\ row[i].status \in {"dead", "completed"} => row'[i] = row[i]
  BY <1>1, <1>3 DEF ClaimNextJob, Eligible, IsPresent, Present, Settled, Row
<1>4. ASSUME NEW w \in Worker, Settle(w)
      PROVE  /\ IsPresent(i)' => IsPresent(i) /\ row'[i].key = row[i].key
             /\ row[i].status # "unborn" => row'[i].status # "unborn"
             /\ row[i].status \in {"dead", "completed"} => row'[i] = row[i]
  <2>1. PICK j : j = slot[w].id  OBVIOUS
  <2>2. j \in Id /\ (IsPresent(j) => row[j].status = "running")
    BY <1>1, <1>4, <2>1 DEF SlotOK, Holds, Settle, CompleteJob, CancelJob, FailJobTerminal, FailJob, Settling
  <2>3. row'[i].key = row[i].key /\ (i # j \/ ~IsPresent(j) => row'[i] = row[i])
    <3> USE DEF Overwrite, Row
    <3>1. CASE CompleteJob(w)
      BY <1>1, <2>1, <2>2, <3>1 DEF CompleteJob
    <3>2. CASE CancelJob(w)
      BY <1>1, <2>1, <2>2, <3>2 DEF CancelJob
    <3>3. CASE FailJobTerminal(w)
      BY <1>1, <2>1, <2>2, <3>3 DEF FailJobTerminal
    <3>4. CASE FailJob(w)
      BY <1>1, <2>1, <2>2, <3>4 DEF FailJob
    <3> QED BY <1>4, <3>1, <3>2, <3>3, <3>4 DEF Settle
  <2>4. Quiet  BY <1>1, <1>4, SettleIsQuiet
  <2>5. row[i].status \in {"dead", "completed"} => row'[i] = row[i]
    BY <2>2, <2>3 DEF IsPresent, Present, Settled
  <2> QED BY <2>3, <2>4, <2>5 DEF Quiet, IsPresent
<1>5. ASSUME NEW w \in Worker, Fault(w) \/ \E v \in Verdict : HandlerReturns(w, v) PROVE row' = row
  BY <1>5 DEF Fault, CompleteRaises, SettleRaises, Crash, HandlerReturns
<1>6. CASE ReclaimStaleJobs
  BY <1>1, <1>6 DEF ReclaimStaleJobs, Reclaimable, IsPresent, Present, Settled, Row
<1>7. CASE Purge
  BY <1>1, <1>7 DEF Purge, PurgeFailedJobs, Delete, NoRow, IsPresent, Present, Settled
<1>8. CASE Clock
  BY <1>2, <1>8 DEF Clock, IsPresent
<1>9. ASSUME NEW w \in Worker, Work(w) \/ Fault(w)
      PROVE  /\ IsPresent(i)' => IsPresent(i) /\ row'[i].key = row[i].key
             /\ row[i].status # "unborn" => row'[i].status # "unborn"
             /\ row[i].status \in {"dead", "completed"} => row'[i] = row[i]
  BY <1>3, <1>4, <1>5, <1>9 DEF Work, IsPresent
<1> QED BY <1>6, <1>7, <1>8, <1>9 DEF Serve

\* What a step does to a row that is no insertion: it makes none and changes no key,
\* and a final row stays as it is.
RowKept(i) ==
  /\ IsPresent(i)' => IsPresent(i) /\ row'[i].key = row[i].key
  /\ row[i].status # "unborn" => row'[i].status # "unborn"
  /\ row[i].status \in {"dead", "completed"} => row'[i] = row[i]

\* What ProducersInv says of one call, and of two.
KeyIsOwn(p) ==
  /\ call[p].pc = "chooseKey" => call[p].key = <<call[p].base, NoToken>>
  /\ call[p].pc # "idle" =>
       \/ call[p].key = <<call[p].base, NoToken>>
       \/ call[p].key = <<call[p].base, call[p].token>> /\ DeadBase(call[p].base)

AnswerHolds(p) ==
  call[p].pc = "done" =>
    /\ call[p].answer # "enqueue_error" => call[p].id \in Id /\ row[call[p].id].status # "unborn"
    /\ call[p].answer = "new" /\ IsPresent(call[p].id) => row[call[p].id].key = call[p].key
    /\ call[p].answer \in {"dead", "completed"} => row[call[p].id].status = call[p].answer

Apart(p, q) ==
  Answered(p, "new") /\ Answered(q, "new") /\ call[q].key = call[p].key =>
    call[q].id # call[p].id /\ ~(IsPresent(call[q].id) /\ IsPresent(call[p].id))

\* The part of ProducersInv beyond the queue's own invariant.
CallInv ==
  /\ CallTypeOK /\ RowKeysAreUnique /\ RetriesHaveDeadBase
  /\ \A p \in Producer : KeyIsOwn(p) /\ AnswerHolds(p)
  /\ \A p, q \in Producer : p # q => Apart(p, q)

LEMMA ProducersInvByParts == ProducersInv <=> ExecInv /\ CallInv
<1>1. KeysAreOwn <=> \A p \in Producer : KeyIsOwn(p)
  BY DEF KeysAreOwn, KeyIsOwn
<1>2. AnswersNameRows /\ NewIsExclusive /\ FinalAnswersHold
        <=> /\ \A p \in Producer : AnswerHolds(p)
            /\ \A p, q \in Producer : p # q => Apart(p, q)
  BY DEF AnswersNameRows, NewIsExclusive, FinalAnswersHold, AnswerHolds, Apart, Answered
<1> QED BY <1>1, <1>2 DEF ProducersInv, CallInv

LEMMA KeptTable ==
  ASSUME RowKeysAreUnique, RetriesHaveDeadBase, \A i \in Id : RowKept(i)
  PROVE  RowKeysAreUnique' /\ RetriesHaveDeadBase' /\ \A b : DeadBase(b) => DeadBase(b)'
<1>1. \A b : DeadBase(b) => DeadBase(b)'
  BY DEF DeadBase, RowKept, IsPresent
<1>2. RowKeysAreUnique'  BY DEF RowKeysAreUnique, RowKept
<1>3. RetriesHaveDeadBase'  BY <1>1 DEF RetriesHaveDeadBase, RowKept
<1> QED BY <1>1, <1>2, <1>3

\* What holds of a call holds while the call does nothing.
LEMMA KeptCall ==
  ASSUME NEW q \in Producer, KeyIsOwn(q), AnswerHolds(q), call'[q] = call[q],
         \A i \in Id : RowKept(i), \A b : DeadBase(b) => DeadBase(b)'
  PROVE  KeyIsOwn(q)' /\ AnswerHolds(q)'
<1>1. KeyIsOwn(q)'  BY DEF KeyIsOwn
<1>2. AnswerHolds(q)'  BY DEF AnswerHolds, RowKept
<1> QED BY <1>1, <1>2

LEMMA KeptPair ==
  ASSUME NEW p \in Producer, NEW q \in Producer, AnswerHolds(p), AnswerHolds(q), Apart(p, q),
         call'[p] = call[p], call'[q] = call[q], \A i \in Id : RowKept(i)
  PROVE  Apart(p, q)'
BY DEF Apart, AnswerHolds, RowKept, Answered

\* A step of one caller that is told of nothing new.
LEMMA CallerStep ==
  ASSUME CallInv, CallTypeOK', \A i \in Id : RowKept(i), NEW p \in Producer,
         \A q \in Producer : q # p => call'[q] = call[q],
         KeyIsOwn(p)', AnswerHolds(p)', ~Answered(p, "new")'
  PROVE  CallInv'
<1>1. RowKeysAreUnique' /\ RetriesHaveDeadBase' /\ \A b : DeadBase(b) => DeadBase(b)'
  BY KeptTable DEF CallInv
<1>2. ASSUME NEW q \in Producer PROVE KeyIsOwn(q)' /\ AnswerHolds(q)'
  <2>1. CASE q = p  BY <2>1
  <2>2. CASE q # p  BY <1>1, <2>2, KeptCall DEF CallInv
  <2> QED BY <2>1, <2>2
<1>3. ASSUME NEW q \in Producer, NEW r \in Producer, q # r PROVE Apart(q, r)'
  <2>1. CASE q = p \/ r = p  BY <2>1 DEF Apart
  <2>2. CASE q # p /\ r # p  BY <1>3, <2>2, KeptPair DEF CallInv
  <2> QED BY <2>1, <2>2
<1> QED BY <1>1, <1>2, <1>3 DEF CallInv

\* The status an existing row is reported under says what became of it.
LEMMA StatusIsTrue ==
  ASSUME TypeOK, NEW i \in Id, IsPresent(i)
  PROVE  /\ StatusFromExisting(i) \in UserStatus \ {"new", "enqueue_error"}
         /\ StatusFromExisting(i) \in {"dead", "completed"} => row[i].status = StatusFromExisting(i)
BY DEF StatusFromExisting, UserStatus, TypeOK, Row, IsPresent, Present, Settled

LEMMA FoundAnswers ==
  ASSUME TypeOK, CallInv, UNCHANGED row, NEW p \in Producer, call[p].pc \notin {"idle", "chooseKey"},
         NEW i \in Found(call[p].key), Answer(p, i, StatusFromExisting(i))
  PROVE  CallInv'
<1>1. i \in Id /\ IsPresent(i)  BY DEF Found
<1>2. PICK a \in UserStatus : a = StatusFromExisting(i)  BY <1>1, StatusIsTrue
<1>3. a # "new" /\ (a \in {"dead", "completed"} => row[i].status = a)
  BY <1>1, <1>2, StatusIsTrue
<1>4. CallTypeOK /\ KeyIsOwn(p)  BY DEF CallInv
<1>5. /\ CallTypeOK' /\ \A q \in Producer : q # p => call'[q] = call[q]
      /\ call'[p].pc = "done" /\ call'[p].base = call[p].base /\ call'[p].token = call[p].token
      /\ call'[p].key = call[p].key /\ call'[p].id = i /\ call'[p].answer = a
  BY <1>1, <1>2, <1>4, AnswerFacts
<1>6. \A j \in Id : RowKept(j)  BY DEF RowKept, IsPresent
<1>7. KeyIsOwn(p)'  BY <1>4, <1>5 DEF KeyIsOwn, DeadBase, IsPresent
<1>8. AnswerHolds(p)'
  BY <1>1, <1>3, <1>5 DEF AnswerHolds, IsPresent, Present, Settled
<1>9. ~Answered(p, "new")'  BY <1>3, <1>5 DEF Answered
<1> QED BY <1>5, <1>6, <1>7, <1>8, <1>9, CallerStep

\* A call that moves on keeps its key.
LEMMA GoesOn ==
  ASSUME CallInv, UNCHANGED row, NEW p \in Producer, call[p].pc # "idle",
         \/ \E pc \in {"lookup", "insert", "lookAgain"} : Goto(p, pc)
         \/ Answer(p, NoId, "enqueue_error")
  PROVE  CallInv'
<1>1. CallTypeOK /\ KeyIsOwn(p)  BY DEF CallInv
<1>2. /\ CallTypeOK' /\ \A q \in Producer : q # p => call'[q] = call[q]
      /\ call'[p].base = call[p].base /\ call'[p].token = call[p].token
      /\ call'[p].key = call[p].key
      /\ call'[p].pc \in {"lookup", "insert", "lookAgain", "done"}
      /\ call'[p].pc = "done" => call'[p].answer = "enqueue_error"
  <2>1. CASE \E pc \in {"lookup", "insert", "lookAgain"} : Goto(p, pc)
    <3>1. PICK pc \in {"lookup", "insert", "lookAgain"} : Goto(p, pc)  BY <2>1
    <3> QED BY <1>1, <3>1, GotoFacts
  <2>2. CASE Answer(p, NoId, "enqueue_error")
    BY <1>1, <2>2, AnswerFacts DEF UserStatus
  <2> QED BY <2>1, <2>2
<1>3. \A j \in Id : RowKept(j)  BY DEF RowKept, IsPresent
<1>4. KeyIsOwn(p)'  BY <1>1, <1>2 DEF KeyIsOwn, DeadBase, IsPresent
<1>5. AnswerHolds(p)' /\ ~Answered(p, "new")'  BY <1>2 DEF AnswerHolds, Answered
<1> QED BY <1>2, <1>3, <1>4, <1>5, CallerStep

\* The insertion: a row nobody was told of yet, under a key no row has.
LEMMA InsertStep ==
  ASSUME TypeOK, CallInv, NEW p \in Producer, call[p].pc = "insert",
         NEW i \in Id, NEW m \in Budgets, NEW due \in BOOLEAN,
         Enqueue(i, call[p].key, m, due), Answer(p, i, "new")
  PROVE  CallInv'
<1>1. CallTypeOK /\ KeyIsOwn(p) /\ KeysAreOwn  BY DEF CallInv, KeysAreOwn, KeyIsOwn
<1>2. PICK k \in Key : k = call[p].key /\ k # NoKey
  BY <1>1, KeyType
<1>3. /\ row[i].status = "unborn"
      /\ \A j \in Id : IsPresent(j) => row[j].key # k
      /\ row'[i].status = "pending" /\ row'[i].key = k
      /\ \A j \in Id \ {i} : row'[j] = row[j]
  BY <1>2 DEF Enqueue, TypeOK
<1>4. /\ CallTypeOK' /\ \A q \in Producer : q # p => call'[q] = call[q]
      /\ call'[p].pc = "done" /\ call'[p].base = call[p].base /\ call'[p].token = call[p].token
      /\ call'[p].key = k /\ call'[p].id = i /\ call'[p].answer = "new"
  BY <1>1, <1>2, AnswerFacts DEF UserStatus
<1>5. ASSUME NEW b, DeadBase(b) PROVE DeadBase(b)'
  BY <1>3, <1>5 DEF DeadBase, IsPresent
<1>6. RowKeysAreUnique'
  BY <1>3 DEF CallInv, RowKeysAreUnique, IsPresent
<1>7. RetriesHaveDeadBase'
  <2> SUFFICES ASSUME NEW j \in Id, NEW b \in BaseKey, NEW t \in Token,
                      IsPresent(j)', row'[j].key = <<b, t>>
               PROVE  DeadBase(b)'
    BY DEF RetriesHaveDeadBase
  <2>1. CASE j # i
    BY <1>3, <1>5, <2>1 DEF CallInv, RetriesHaveDeadBase, IsPresent
  <2>2. CASE j = i
    <3>1. k = <<b, t>> /\ t # NoToken  BY <1>3, <2>2, EffectiveKeys
    <3>2. k = <<call[p].base, call[p].token>> /\ DeadBase(call[p].base)
      BY <1>1, <1>2, <3>1 DEF KeyIsOwn
    <3>3. b = call[p].base  BY <3>1, <3>2
    <3> QED BY <1>5, <3>2, <3>3
  <2> QED BY <2>1, <2>2
<1>8. ASSUME NEW q \in Producer PROVE KeyIsOwn(q)' /\ AnswerHolds(q)'
  <2>1. CASE q = p
    <3>1. KeyIsOwn(p)'  BY <1>1, <1>2, <1>4, <1>5 DEF KeyIsOwn
    <3>2. AnswerHolds(p)'  BY <1>3, <1>4 DEF AnswerHolds
    <3> QED BY <2>1, <3>1, <3>2
  <2>2. CASE q # p
    <3>1. KeyIsOwn(q) /\ AnswerHolds(q) /\ call'[q] = call[q]  BY <1>4, <2>2 DEF CallInv
    <3>2. KeyIsOwn(q)'  BY <1>5, <3>1 DEF KeyIsOwn
    <3>3. AnswerHolds(q)'
      BY <1>3, <3>1 DEF AnswerHolds, IsPresent
    <3> QED BY <3>2, <3>3
  <2> QED BY <2>1, <2>2
\* Whoever else was told of a new job under this key has lost its row.
<1>9. ASSUME NEW q \in Producer, q # p, Answered(q, "new") PROVE Apart(p, q)' /\ Apart(q, p)'
  <2>1. call'[q] = call[q] /\ AnswerHolds(q)  BY <1>4, <1>9 DEF CallInv
  <2>2. call[q].id \in Id \ {i}  BY <1>3, <1>9, <2>1 DEF AnswerHolds, Answered
  <2>3. IsPresent(call[q].id) => call[q].key # k
    BY <1>3, <1>9, <2>1, <2>2 DEF AnswerHolds, Answered
  <2>4. IsPresent(call[q].id)' <=> IsPresent(call[q].id)
    BY <1>3, <2>1, <2>2 DEF IsPresent
  <2> QED BY <1>4, <2>1, <2>2, <2>3, <2>4 DEF Apart
<1>10. ASSUME NEW q \in Producer, NEW r \in Producer, q # r PROVE Apart(q, r)'
  <2>1. CASE q = p
    <3>1. CASE Answered(r, "new")  BY <1>9, <1>10, <2>1, <3>1
    <3>2. CASE ~Answered(r, "new")
      <4>1. ~Answered(r, "new")'  BY <1>4, <1>10, <2>1, <3>2 DEF Answered
      <4> QED BY <4>1 DEF Apart
    <3> QED BY <3>1, <3>2
  <2>2. CASE r = p
    <3>1. CASE Answered(q, "new")  BY <1>9, <1>10, <2>2, <3>1
    <3>2. CASE ~Answered(q, "new")
      <4>1. ~Answered(q, "new")'  BY <1>4, <1>10, <2>2, <3>2 DEF Answered
      <4> QED BY <4>1 DEF Apart
    <3> QED BY <3>1, <3>2
  <2>3. CASE q # p /\ r # p
    <3>1. /\ Apart(q, r) /\ AnswerHolds(q) /\ AnswerHolds(r)
          /\ call'[q] = call[q] /\ call'[r] = call[r]
      BY <1>4, <1>10, <2>3 DEF CallInv
    <3>2. ASSUME Answered(q, "new"), Answered(r, "new")
          PROVE  /\ IsPresent(call[q].id)' <=> IsPresent(call[q].id)
                 /\ IsPresent(call[r].id)' <=> IsPresent(call[r].id)
      BY <1>3, <3>1, <3>2 DEF AnswerHolds, Answered, IsPresent
    <3> QED BY <3>1, <3>2 DEF Apart, Answered
  <2> QED BY <2>1, <2>2, <2>3
<1> QED BY <1>4, <1>6, <1>7, <1>8, <1>10 DEF CallInv

LEMMA CallInvStep ==
  ASSUME ~MayOverrun, ProducersInv, [ProducersNext]_allVars
  PROVE  CallInv'
<1>1. CallInv /\ ExecInv /\ TypeOK  BY ProducersInvByParts DEF ExecInv, ClaimInv
<1>2. ASSUME NEW p \in Producer, Begin(p) PROVE CallInv'
  <2>1. /\ CallTypeOK /\ call[p] \in Call /\ call[p].pc = "idle"  BY <1>1, <1>2 DEF CallInv, CallTypeOK, Begin
  <2>2. PICK k \in Key \cup {NoKey} : k = <<call[p].base, NoToken>>
    BY <2>1, EffectiveKeys DEF Call
  <2>3. PICK pc \in {"lookup", "chooseKey"} : pc = IF call[p].token = NoToken THEN "lookup" ELSE "chooseKey"
    OBVIOUS
  <2>4. call' = [call EXCEPT ![p].pc = pc, ![p].key = k] /\ UNCHANGED row
    BY <1>2, <2>2, <2>3 DEF Begin, vars
  <2>5. /\ CallTypeOK' /\ \A q \in Producer : q # p => call'[q] = call[q]
        /\ call'[p].pc = pc /\ call'[p].base = call[p].base /\ call'[p].key = k
    BY <2>1, <2>4 DEF CallTypeOK, Call
  <2>6. \A j \in Id : RowKept(j)  BY <2>4 DEF RowKept, IsPresent
  <2>7. KeyIsOwn(p)' /\ AnswerHolds(p)' /\ ~Answered(p, "new")'
    BY <2>2, <2>5 DEF KeyIsOwn, AnswerHolds, Answered
  <2> QED BY <1>1, <2>5, <2>6, <2>7, CallerStep
<1>3. ASSUME NEW p \in Producer, ChooseKey(p) PROVE CallInv'
  <2>1. CASE Goto(p, "lookup")
    BY <1>1, <1>3, <2>1, GoesOn DEF ChooseKey, vars
  <2>2. CASE /\ \E i \in Found(call[p].key) : row[i].status = "dead"
             /\ call' = [call EXCEPT ![p].pc = "lookup", ![p].key = <<call[p].base, call[p].token>>]
    <3>1. /\ CallTypeOK /\ call[p] \in Call /\ KeyIsOwn(p) /\ call[p].pc = "chooseKey" /\ UNCHANGED row
      BY <1>1, <1>3 DEF CallInv, CallTypeOK, ChooseKey, vars
    <3>2. DeadBase(call[p].base)
      BY <2>2, <3>1 DEF KeyIsOwn, Found, DeadBase
    <3>3. PICK k \in Key \cup {NoKey} : k = <<call[p].base, call[p].token>>
      BY <3>1, EffectiveKeys DEF Call
    <3>4. /\ CallTypeOK' /\ \A q \in Producer : q # p => call'[q] = call[q]
          /\ call'[p].pc = "lookup" /\ call'[p].base = call[p].base
          /\ call'[p].token = call[p].token /\ call'[p].key = k
      BY <2>2, <3>1, <3>3 DEF CallTypeOK, Call
    <3>5. \A j \in Id : RowKept(j)  BY <3>1 DEF RowKept, IsPresent
    <3>6. DeadBase(call[p].base)'
      BY <3>1, <3>2, <3>4 DEF DeadBase, IsPresent
    <3>7. KeyIsOwn(p)' /\ AnswerHolds(p)' /\ ~Answered(p, "new")'
      BY <3>3, <3>4, <3>6 DEF KeyIsOwn, AnswerHolds, Answered
    <3> QED BY <1>1, <3>4, <3>5, <3>7, CallerStep
  <2> QED BY <1>3, <2>1, <2>2 DEF ChooseKey
<1>4. ASSUME NEW p \in Producer, LookUp(p) \/ LookAgain(p) PROVE CallInv'
  <2>1. call[p].pc \in {"lookup", "lookAgain"} /\ UNCHANGED row  BY <1>4 DEF LookUp, LookAgain, vars
  <2>2. CASE \E i \in Found(call[p].key) : Answer(p, i, StatusFromExisting(i))
    BY <1>1, <2>1, <2>2, FoundAnswers
  <2>3. CASE Goto(p, "insert") \/ Answer(p, NoId, "enqueue_error")
    BY <1>1, <2>1, <2>3, GoesOn
  <2> QED BY <1>4, <2>2, <2>3 DEF LookUp, LookAgain
<1>5. ASSUME NEW p \in Producer, Insert(p) PROVE CallInv'
  <2>1. CASE \E i \in Id, m \in Budgets, due \in BOOLEAN :
               Enqueue(i, call[p].key, m, due) /\ Answer(p, i, "new")
    BY <1>1, <1>5, <2>1, InsertStep DEF Insert
  <2>2. CASE Goto(p, "lookAgain") /\ UNCHANGED vars
    BY <1>1, <1>5, <2>2, GoesOn DEF Insert, vars
  <2> QED BY <1>5, <2>1, <2>2 DEF Insert
<1>6. ASSUME NEW p \in Producer, StatementFails(p) PROVE CallInv'
  BY <1>1, <1>6, GoesOn DEF StatementFails, vars
<1>7. ASSUME UNCHANGED call, \A i \in Id : RowKept(i) PROVE CallInv'
  <2>1. RowKeysAreUnique' /\ RetriesHaveDeadBase' /\ \A b : DeadBase(b) => DeadBase(b)'
    BY <1>1, <1>7, KeptTable DEF CallInv
  <2>2. CallTypeOK'  BY <1>1, <1>7 DEF CallInv, CallTypeOK
  <2>3. ASSUME NEW q \in Producer PROVE KeyIsOwn(q)' /\ AnswerHolds(q)'
    BY <1>1, <1>7, <2>1, KeptCall DEF CallInv
  <2>4. ASSUME NEW q \in Producer, NEW r \in Producer, q # r PROVE Apart(q, r)'
    BY <1>1, <1>7, <2>4, KeptPair DEF CallInv
  <2> QED BY <2>1, <2>2, <2>3, <2>4 DEF CallInv
<1>8. CASE Serve /\ UNCHANGED call
  BY <1>1, <1>7, <1>8, ServeKeepsRows DEF RowKept
<1>9. CASE UNCHANGED allVars
  BY <1>7, <1>9 DEF allVars, RowKept, IsPresent
<1> QED
  BY <1>2, <1>3, <1>4, <1>5, <1>6, <1>8, <1>9 DEF ProducersNext

LEMMA ProducersInvInit == ProducersInit => ProducersInv
<1> SUFFICES ASSUME ProducersInit PROVE ExecInv /\ CallInv
  BY ProducersInvByParts
<1>1. ExecInv  BY ExecInvInit DEF ProducersInit
<1>2. \A i \in Id : row[i].status = "unborn"  BY DEF ProducersInit, Init, NoRow
<1>3. CallTypeOK /\ \A p \in Producer : call[p].pc = "idle"
  BY DEF ProducersInit, CallTypeOK, Call, UserStatus
<1> QED
  BY <1>1, <1>2, <1>3
     DEF CallInv, RowKeysAreUnique, RetriesHaveDeadBase, KeyIsOwn, AnswerHolds, Apart, Answered,
         IsPresent, Present, Settled

LEMMA ProducersInvariant == ASSUME ~MayOverrun PROVE ProducersSpec => []ProducersInv
<1>1. ASSUME ProducersInv, [ProducersNext]_allVars PROVE ExecInv' /\ CallInv'
  <2>1. ExecInv /\ CallTypeOK /\ KeysAreOwn  BY <1>1 DEF ProducersInv
  <2>2. [Next]_vars  BY <1>1, <2>1, ProducersAreProducers
  <2>3. ClaimInv /\ TypeOK  BY <2>1 DEF ExecInv, ClaimInv
  <2>4. TypeOK'  BY <2>2, <2>3, TypeStep
  <2>5. ClaimInv'  BY <2>2, <2>3, <2>4, ClaimInvStep
  <2>6. ExecInv'  BY <2>1, <2>2, <2>5, ExecInvStep
  <2>7. CallInv'  BY <1>1, CallInvStep
  <2> QED BY <2>6, <2>7
<1> QED BY <1>1, ProducersInvByParts, ProducersInvInit, PTL DEF ProducersSpec

\* What enqueue_with_status tells its callers holds, however many race: a new job
\* belongs to one caller, a retry never runs beside the job it retries, and a job
\* reported dead or completed stays so. Handlers finish within the lease.
THEOREM AnswersStand == ASSUME ~MayOverrun PROVE ProducersSpec => []AnswersHold
<1>1. ProducersInv => AnswersHold
  <2> SUFFICES ASSUME ProducersInv PROVE RetryReplacesDead
    BY DEF AnswersHold, KeysAreExclusive, ProducersInv
  <2> SUFFICES ASSUME NEW i \in Id, NEW j \in Id, NEW b \in BaseKey, NEW t \in Token,
                      IsPresent(i), row[i].key = <<b, t>>,
                      IsPresent(j), row[j].key = <<b, NoToken>>
               PROVE  row[j].status = "dead"
    BY DEF RetryReplacesDead
  <2>1. PICK d \in Id : IsPresent(d) /\ row[d].key = <<b, NoToken>> /\ row[d].status = "dead"
    BY DEF ProducersInv, RetriesHaveDeadBase, DeadBase
  <2>2. <<b, NoToken>> # NoKey  BY EffectiveKeys, KeyAssumption
  <2>3. d = j  BY <2>1, <2>2 DEF ProducersInv, RowKeysAreUnique
  <2> QED BY <2>1, <2>3
<1> QED BY <1>1, ProducersInvariant, PTL

\* Who is told to wait for a job has one that may still run, or one that was cancelled,
\* whatever the other producers, the workers and the purge do. Handlers finish within
\* the lease: a zombie could fail a row at its budget.
THEOREM WaitersKeepAJob == ASSUME ~MayOverrun PROVE ProducersSpec => WaitersHaveAJob
<1> DEFINE HaveAJob ==
      \A p \in Producer :
        call[p].pc # "done" /\ call'[p].pc = "done"
          /\ call'[p].answer \in {"new", "already_running", "retry_pending"} =>
        MayRun(row'[call'[p].id]) \/ row'[call'[p].id].status = "cancelled"
<1>1. ProducersInv /\ ProducersInv' /\ [ProducersNext]_allVars => [HaveAJob]_allVars
  <2> SUFFICES ASSUME ProducersInv, ProducersInv', ProducersNext, NEW p \in Producer,
                      call[p].pc # "done", call'[p].pc = "done",
                      call'[p].answer \in {"new", "already_running", "retry_pending"}
               PROVE  MayRun(row'[call'[p].id]) \/ row'[call'[p].id].status = "cancelled"
    OBVIOUS
  <2>1. CallTypeOK /\ RetryableHasBudget /\ RetryableHasBudget' /\ row \in [Id -> Row]
    BY DEF ProducersInv, ExecInv, ClaimInv, TypeOK
  <2>2. LookUp(p) \/ LookAgain(p) \/ \E i \in Id, m \in Budgets, due \in BOOLEAN :
          Enqueue(i, call[p].key, m, due) /\ Answer(p, i, "new")
    <3>1. PICK q \in Producer : \/ Begin(q) \/ ChooseKey(q) \/ LookUp(q)
                                \/ Insert(q) \/ LookAgain(q) \/ StatementFails(q)
      BY DEF ProducersNext
    <3>2. p = q
      BY <2>1, <3>1 DEF Begin, ChooseKey, LookUp, Insert, LookAgain, StatementFails, Answer, Goto, CallTypeOK
    <3>3. ~Begin(p) /\ ~ChooseKey(p) /\ ~StatementFails(p)
      BY <2>1 DEF Begin, ChooseKey, StatementFails, Answer, Goto, CallTypeOK, Call
    <3>4. ~(Goto(p, "lookAgain") /\ Insert(p))  BY <2>1 DEF Goto, CallTypeOK, Call
    <3> QED BY <3>1, <3>2, <3>3, <3>4 DEF Insert
  <2>3. ASSUME NEW i \in Id, NEW m \in Budgets, NEW due \in BOOLEAN,
               Enqueue(i, call[p].key, m, due), Answer(p, i, "new")
        PROVE  MayRun(row'[call'[p].id])
    <3>1. call'[p].id = i  BY <2>1, <2>3 DEF Answer, CallTypeOK, Call
    <3>2. row'[i].status = "pending"  BY <2>1, <2>3 DEF Enqueue
    <3> QED BY <2>1, <3>1, <3>2 DEF RetryableHasBudget, MayRun
  <2>4. ASSUME NEW i \in Found(call[p].key), Answer(p, i, StatusFromExisting(i)), row' = row
        PROVE  MayRun(row'[call'[p].id]) \/ row'[call'[p].id].status = "cancelled"
    <3>1. i \in Id /\ row[i].status \in Present  BY DEF Found, IsPresent
    <3>2. call'[p].id = i /\ call'[p].answer = StatusFromExisting(i)
      BY <2>1, <2>4, <3>1 DEF Answer, CallTypeOK, Call
    <3>3. row[i].status \notin {"dead", "completed"}  BY <3>2 DEF StatusFromExisting
    <3> QED BY <2>1, <2>4, <3>1, <3>2, <3>3 DEF RetryableHasBudget, MayRun, Present, Settled
  <2>5. CASE LookUp(p) \/ LookAgain(p)
    <3>1. row' = row  BY <2>5 DEF LookUp, LookAgain, vars
    <3>2. ~Goto(p, "insert") /\ ~Answer(p, NoId, "enqueue_error")
      BY <2>1 DEF Goto, Answer, CallTypeOK, Call
    <3>3. PICK i \in Found(call[p].key) : Answer(p, i, StatusFromExisting(i))
      BY <2>5, <3>2 DEF LookUp, LookAgain
    <3> QED BY <2>4, <3>1, <3>3
  <2> QED BY <2>2, <2>3, <2>5
<1> QED BY <1>1, ProducersInvariant, PTL DEF WaitersHaveAJob, ProducersSpec


\* A call stays a call in every step, handlers that overrun included.
LEMMA CallsKeepType ==
  ASSUME CallTypeOK, [ProducersNext]_allVars
  PROVE  CallTypeOK'
<1>1. ASSUME NEW p \in Producer PROVE call[p] \in Call  BY DEF CallTypeOK
<1>2. ASSUME NEW p \in Producer, Begin(p) PROVE CallTypeOK'
  <2>1. <<call[p].base, NoToken>> \in Key  BY <1>1, EffectiveKeys DEF Call
  <2>2. PICK pc \in {"lookup", "chooseKey"} :
          call' = [call EXCEPT ![p].pc = pc, ![p].key = <<call[p].base, NoToken>>]
    BY <1>2 DEF Begin
  <2> DEFINE k == <<call[p].base, NoToken>>
  <2>3. [call[p] EXCEPT !.pc = pc, !.key = k] \in Call
    <3> HIDE DEF k
    <3> QED BY <1>1, <2>1 DEF Call, k
  <2> QED BY <2>2, <2>3 DEF CallTypeOK
<1>3. ASSUME NEW p \in Producer, ChooseKey(p) PROVE CallTypeOK'
  <2>1. <<call[p].base, call[p].token>> \in Key  BY <1>1, EffectiveKeys DEF Call
  <2> QED BY <1>3, <2>1, GotoFacts DEF ChooseKey, CallTypeOK, Call
<1>4. ASSUME NEW p \in Producer, LookUp(p) \/ LookAgain(p) PROVE CallTypeOK'
  <2>1. \A i \in Id : StatusFromExisting(i) \in UserStatus  BY DEF StatusFromExisting, UserStatus
  <2> QED BY <1>4, <2>1, GotoFacts, AnswerFacts DEF LookUp, LookAgain, Found, UserStatus
<1>5. ASSUME NEW p \in Producer, Insert(p) \/ StatementFails(p) PROVE CallTypeOK'
  BY <1>5, GotoFacts, AnswerFacts DEF Insert, StatementFails, UserStatus
<1> QED BY <1>2, <1>3, <1>4, <1>5 DEF ProducersNext, allVars, CallTypeOK

\* The queue under its producers behaves as the queue: what is proved of the queue
\* holds of the rows whatever enqueue_with_status does in its transactions.
THEOREM ProducersUseTheQueue == ProducersSpec => Spec
<1>1. ProducersInit => Init /\ CallTypeOK
  BY DEF ProducersInit, CallTypeOK, Call, UserStatus
<1>2. CallTypeOK /\ [ProducersNext]_allVars => CallTypeOK' /\ [Next]_vars
  BY CallsKeepType, ProducersAreProducers
<1> QED BY <1>1, <1>2, PTL DEF ProducersSpec, Spec

\* However many producers race, no two slots work on one job, no row contradicts
\* itself, and a job is started, given back and finished as BoundedRetry says.
\* Handlers finish within the lease.
THEOREM ProducersKeepTheContract ==
  ASSUME ~MayOverrun
  PROVE  ProducersSpec => []SingleExecution /\ []RowsAgree /\ ImplementsBoundedRetry
BY ProducersUseTheQueue, OneExecutionAtATime, RowsStayConsistent, QueueImplementsContract, PTL

-----------------------------------------------------------------------------
(* Operators: the cancel button beside the workers, handlers that overrun       *)
(* included.                                                                    *)

AdminInv == ClaimInv /\ seen \in Id \cup {NoId}

\* Cancelling a row moves no attempt and no claim.
LEMMA CancelIsQuiet ==
  ASSUME TypeOK, seen \in Id \cup {NoId}, AdminCancelJob
  PROVE  TypeOK' /\ Quiet
<1>1. PICK i \in Id : i = seen  BY IdAssumption DEF AdminCancelJob
<1>2. row[i] \in Row  BY DEF TypeOK
<1>3. row' = IF IsPresent(i)
             THEN [row EXCEPT ![i] = [row[i] EXCEPT !.status = "cancelled", !.outcome = "cancelled_stale"]]
             ELSE row
  BY <1>1 DEF AdminCancelJob, Overwrite
<1>4. slot' = slot  BY DEF AdminCancelJob
<1>5. TypeOK'  BY <1>2, <1>3, <1>4 DEF TypeOK, Row, Status, Present, Settled, Outcome
<1>6. Quiet  BY <1>2, <1>3, <1>4 DEF Quiet, TypeOK, Row, IsPresent, Present, Settled
<1> QED BY <1>5, <1>6

LEMMA AdminInvInit == AdminInit => AdminInv
  BY ClaimInvInit DEF AdminInit, AdminInv

LEMMA AdminInvStep == ASSUME AdminInv, [AdminNext]_adminVars PROVE AdminInv'
<1>1. ClaimInv /\ TypeOK  BY DEF AdminInv, ClaimInv
<1>2. CASE AdminCancelJob
  <2>1. TypeOK' /\ Quiet  BY <1>1, <1>2, CancelIsQuiet DEF AdminInv
  <2>2. ClaimInv'  BY <1>1, <2>1, QuietKeepsClaims
  <2> QED BY <1>2, <2>2 DEF AdminCancelJob, AdminInv
<1>3. ASSUME [Next]_vars, seen' \in Id \cup {NoId} PROVE AdminInv'
  <2>1. TypeOK'  BY <1>1, <1>3, TypeStep
  <2> QED BY <1>1, <1>3, <2>1, ClaimInvStep DEF AdminInv
<1>4. CASE (\E i \in Id : ReadStatus(i)) \/ AdminGivesUp
  BY <1>3, <1>4 DEF ReadStatus, AdminGivesUp
<1>5. CASE Next /\ UNCHANGED seen
  BY <1>3, <1>5 DEF AdminInv
<1>6. CASE UNCHANGED adminVars
  <2>1. UNCHANGED vars /\ UNCHANGED seen  BY <1>6 DEF adminVars, vars
  <2> QED BY <1>3, <2>1 DEF AdminInv
<1> QED BY <1>2, <1>4, <1>5, <1>6 DEF AdminNext

LEMMA AdminInvariant == AdminSpec => []AdminInv
  BY AdminInvInit, AdminInvStep, PTL DEF AdminSpec

\* Operators who cancel jobs take nothing from the counting of executions.
THEOREM CancellingKeepsCounts == AdminSpec => []ClaimsAreCounted
<1>1. AdminInv => ClaimsAreCounted  BY DEF AdminInv, ClaimInv, ClaimsAreCounted
<1> QED BY <1>1, AdminInvariant, PTL

\* Only the slot that runs a row writes over its cancelled status.
LEMMA CancelledStays ==
  ASSUME TypeOK, [Next]_vars, NEW i \in Id, row[i].status = "cancelled",
         row'[i].status \notin {"cancelled", "deleted"}
  PROVE  \E w \in Worker : Holds(w, i) /\ slot'[w] = IdleSlot
<1>1. row'[i] # row[i]  OBVIOUS
<1> USE DEF TypeOK
<1>2. ~Produce
  BY <1>1 DEF Produce, Enqueue
<1>3. ~Clock
  BY DEF Clock, BecomeDue, LeaseExpires, Row
<1>4. ASSUME NEW w \in Worker, Work(w) PROVE Holds(w, i) /\ slot'[w] = IdleSlot
  <2>1. Settle(w)
    BY <1>1, <1>4 DEF Work, ClaimNextJob, Eligible, HandlerReturns
  <2>2. slot' = [slot EXCEPT ![w] = IdleSlot]
    BY <2>1 DEF Settle, CompleteJob, CancelJob, FailJobTerminal, FailJob, Release
  <2>3. slot[w].id = i
    BY <1>1, <2>1 DEF Settle, CompleteJob, CancelJob, FailJobTerminal, FailJob, Overwrite
  <2> QED BY <2>2, <2>3 DEF Holds
<1>5. ASSUME NEW w \in Worker PROVE ~Fault(w)
  BY <1>1 DEF Fault, CompleteRaises, SettleRaises, Crash
<1>6. ~ReclaimStaleJobs
  BY <1>1 DEF ReclaimStaleJobs, Reclaimable
<1>7. ASSUME NEW S PROVE ~Delete(S)
  BY DEF Delete, NoRow
<1>8. ~UNCHANGED vars  BY <1>1 DEF vars
<1> QED
  BY <1>2, <1>3, <1>4, <1>5, <1>6, <1>7, <1>8
     DEF Next, Serve, Purge, Erase, PurgeFailedJobs, EraseJobs

\* A cancelled job comes back only through a worker that was running it when it was
\* cancelled; the reaper, the claims and the button itself never revive it.
THEOREM CancelledJobsStayDown == AdminSpec => OnlyTheRunnerUndoesCancel
<1>1. ASSUME AdminInv, [AdminNext]_adminVars
      PROVE  [\A i \in Id :
                row[i].status = "cancelled" /\ row'[i].status \notin {"cancelled", "deleted"} =>
                  \E w \in Worker : Holds(w, i) /\ slot'[w] = IdleSlot]_adminVars
  <2> SUFFICES ASSUME NEW i \in Id, row[i].status = "cancelled",
                      row'[i].status \notin {"cancelled", "deleted"}
               PROVE  \E w \in Worker : Holds(w, i) /\ slot'[w] = IdleSlot
    OBVIOUS
  <2>1. TypeOK  BY <1>1 DEF AdminInv, ClaimInv
  <2>2. ~AdminCancelJob
    BY <1>1, <2>1 DEF AdminCancelJob, Overwrite, AdminInv, TypeOK, Row
  <2>3. [Next]_vars
    BY <1>1, <2>2 DEF AdminNext, ReadStatus, AdminGivesUp, adminVars, vars
  <2> QED BY <2>1, <2>3, CancelledStays
<1> QED BY <1>1, AdminInvariant, PTL DEF AdminSpec, OnlyTheRunnerUndoesCancel

=============================================================================
