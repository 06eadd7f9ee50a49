---------------------------- MODULE InboundProofs ----------------------------
(* The way of a message in: the batch of Inbound and the copies of a message, *)
(* for any messages, limits and number of restarts, and the busy gate that the *)
(* batch is handed on to, for any messages, slots and forced clears.          *)
EXTENDS Inbound, BusyGate, SequenceTheorems, TLAPS

USE DEF Batch, NoBatch, TimerState, Idle

\* The messages of a sequence are messages.
LEMMA MsgsOfType == ASSUME NEW s \in Seq(Msg) PROVE MsgsOf(s) \subseteq Msg
BY DEF MsgsOf

LEMMA NoBatchType == NoBatch \in Batch
BY LimitAssumption

\* A delay is never longer than the quiet window asked for.
LEMMA DelayBounded ==
  ASSUME NEW b \in Batch, NEW late \in {0, 1}, NEW q \in 0..Quiet, b.age + late < MaxWait
  PROVE  Delay(b, late, q) \in 0..Quiet
BY LimitAssumption DEF Delay, Lower

\* Stopping a batch's timer leaves every timer in a state.
LEMMA CancelledType ==
  ASSUME BatcherTypeOK, NEW b \in Batch
  PROVE  Cancelled(b) \in [Timer -> TimerState]
BY LimitAssumption DEF Cancelled, BatcherTypeOK

\* Scheduling arms a timer or pops the batch, and keeps the types.
LEMMA ScheduleOutcome ==
  ASSUME BatcherTypeOK, NEW b \in Batch, NEW ts \in [Timer -> TimerState], NEW q \in 0..Quiet,
         Schedule(b, ts, q), b.msgs \in Seq(Msg)
  PROVE  /\ batch' \in Batch /\ timer' \in [Timer -> TimerState] /\ delivering' \subseteq Seq(Msg)
         /\ \/ batch' = NoBatch
            \/ batch'.msgs = b.msgs /\ batch'.raised = b.raised /\ \E t \in Timer : timer'[t].state = "armed"
<1>1. PICK late \in {0, 1} :
        IF b.age + late < MaxWait
          THEN LET t == NewTimer(ts) IN t \in Timer /\ ArmTimer(b, ts, t, Delay(b, late, q))
          ELSE timer' = ts /\ batch' = NoBatch /\ delivering' = delivering \cup {b.msgs}
  BY DEF Schedule
<1>2. CASE b.age + late < MaxWait
  <2>1. PICK t \in Timer : ArmTimer(b, ts, t, Delay(b, late, q))  BY <1>1, <1>2
  <2>2. PICK d \in 0..Quiet : ArmTimer(b, ts, t, d)  BY <2>1, <1>2, DelayBounded
  <2>3. timer' = [ts EXCEPT ![t] = [state |-> "armed", left |-> d]] /\ batch' = [b EXCEPT !.timer = t]
        /\ delivering' = delivering
    BY <2>2 DEF ArmTimer
  <2> QED BY <2>3 DEF BatcherTypeOK
<1>3. CASE ~(b.age + late < MaxWait)
  <2>1. timer' = ts /\ batch' = NoBatch /\ delivering' = delivering \cup {b.msgs}
    BY <1>1, <1>3
  <2> QED BY <2>1, NoBatchType DEF BatcherTypeOK
<1> QED BY <1>2, <1>3
\* A step of the batcher keeps the types.
LEMMA BatcherTypeStep ==
  ASSUME BatcherTypeOK, BatcherStep \/ (\E m \in Msg : Enqueue(m)) \/ ProcessDies
  PROVE  BatcherTypeOK'
<1> USE DEF BatcherTypeOK
<1>1. ASSUME NEW m \in Msg, Enqueue(m) PROVE BatcherTypeOK'
  <2>0. batch.msgs \in Seq(Msg) /\ 0 \in 0..Quiet
    BY LimitAssumption
  <2>a. Append(batch.msgs, m) \in Seq(Msg)
    BY <2>0, AppendProperties
  <2>b. [batch EXCEPT !.msgs = Append(@, m), !.quiet = 0, !.raised = FALSE] \in Batch
    BY <2>0, <2>a
  <2>1. PICK b \in Batch : b = [batch EXCEPT !.msgs = Append(@, m), !.quiet = 0, !.raised = FALSE]
    BY <2>b
  <2>2. [b EXCEPT !.raised = TRUE] \in Batch /\ b.msgs \in Seq(Msg)
    OBVIOUS
  <2>3. UNCHANGED <<handed, dropped>>
        /\ \/ batch' = [b EXCEPT !.raised = TRUE] /\ UNCHANGED <<timer, flushers, delivering>>
           \/ batch' = b /\ flushers' = flushers + 1 /\ UNCHANGED <<timer, delivering>>
           \/ Schedule(b, Cancelled(b), Quiet) /\ UNCHANGED flushers
    BY <1>1, <2>1 DEF Enqueue
  <2>4. CASE Schedule(b, Cancelled(b), Quiet) /\ UNCHANGED flushers
    <3>1. Cancelled(b) \in [Timer -> TimerState]  BY CancelledType
    <3>2. Quiet \in 0..Quiet  BY LimitAssumption
    <3>3. batch' \in Batch /\ timer' \in [Timer -> TimerState] /\ delivering' \subseteq Seq(Msg)
      BY <2>2, <2>4, <3>1, <3>2, ScheduleOutcome
    <3> QED BY <2>3, <2>4, <3>3
  <2>5. CASE batch' = [b EXCEPT !.raised = TRUE] /\ UNCHANGED <<timer, flushers, delivering>>
    BY <2>2, <2>3, <2>5
  <2>6. CASE batch' = b /\ flushers' = flushers + 1 /\ UNCHANGED <<timer, delivering>>
    <3>1. flushers' \in Nat  BY <2>6
    <3> QED BY <2>1, <2>3, <2>6, <3>1
  <2> QED BY <2>3, <2>4, <2>5, <2>6
<1>2. ASSUME NEW t \in Timer, TimerGoesOff(t) PROVE BatcherTypeOK'
  BY <1>2 DEF TimerGoesOff
<1>3. ASSUME NEW t \in Timer, TimerFire(t) PROVE BatcherTypeOK'
  <2>1. PICK b \in Batch, ts \in [Timer -> TimerState] :
          b = [batch EXCEPT !.timer = NoTimer] /\ ts = [timer EXCEPT ![t] = Idle]
    <3>1. [timer EXCEPT ![t] = Idle] \in [Timer -> TimerState]  BY LimitAssumption
    <3>2. [batch EXCEPT !.timer = NoTimer] \in Batch  OBVIOUS
    <3> QED BY <3>1, <3>2
  <2>2. b.msgs \in Seq(Msg)  OBVIOUS
  <2>3. CASE batch.quiet < Quiet /\ Schedule(b, ts, Quiet - batch.quiet)
    <3>1. Quiet - batch.quiet \in 0..Quiet  BY <2>3, LimitAssumption
    <3>2. batch' \in Batch /\ timer' \in [Timer -> TimerState] /\ delivering' \subseteq Seq(Msg)
      BY <2>2, <2>3, <3>1, ScheduleOutcome
    <3> QED BY <1>3, <3>2 DEF TimerFire
  <2>4. CASE timer' = ts /\ UNCHANGED <<batch, delivering>>
    BY <1>3, <2>4 DEF TimerFire
  <2>5. CASE timer' = ts /\ batch' = NoBatch /\ delivering' = delivering \cup {batch.msgs}
    <3>1. batch.msgs \in Seq(Msg)  OBVIOUS
    <3>2. batch' \in Batch /\ delivering' \subseteq Seq(Msg)  BY <2>5, <3>1, NoBatchType
    <3> QED BY <1>3, <2>1, <2>5, <3>2 DEF TimerFire
  <2> QED BY <1>3, <2>1, <2>3, <2>4, <2>5 DEF TimerFire
<1>4. ASSUME NEW s \in delivering, InvokeFlush(s) PROVE BatcherTypeOK'
  <2>1. MsgsOf(s) \subseteq Msg  BY MsgsOfType
  <2>2. UNCHANGED <<batch, timer, flushers>> /\ delivering' = delivering \ {s}
    BY <1>4 DEF InvokeFlush
  <2>3. dropped' \subseteq Msg  BY <1>4, <2>1 DEF InvokeFlush
  <2>4. handed' \in [Msg -> Nat]
    <3>1. ASSUME NEW m \in Msg PROVE handed[m] + (IF m \in MsgsOf(s) THEN 1 ELSE 0) \in Nat
      OBVIOUS
    <3> QED BY <1>4, <3>1, ZenonT(60) DEF InvokeFlush
  <2>5. batch' \in Batch /\ timer' \in [Timer -> TimerState] /\ flushers' \in Nat
    BY <2>2
  <2>6. delivering' \subseteq Seq(Msg)  BY <2>2
  <2> QED BY <2>3, <2>4, <2>5, <2>6
<1>5. ASSUME FlushNow PROVE BatcherTypeOK'
  <2>1. Cancelled(batch) \in [Timer -> TimerState]  BY CancelledType
  <2>2. batch.msgs \in Seq(Msg)  OBVIOUS
  <2>3. batch' \in Batch /\ flushers' \in Nat  BY <1>5, NoBatchType DEF FlushNow
  <2> QED BY <1>5, <2>1, <2>2, <2>3 DEF FlushNow
<1>6. ASSUME CancelPending PROVE BatcherTypeOK'
  <2>1. Cancelled(batch) \in [Timer -> TimerState]  BY CancelledType
  <2>2. MsgsOf(batch.msgs) \subseteq Msg  BY MsgsOfType
  <2>3. batch' \in Batch  BY <1>6, NoBatchType DEF CancelPending
  <2> QED BY <1>6, <2>1, <2>2, <2>3 DEF CancelPending
<1>7. ASSUME Tick PROVE BatcherTypeOK'
  <2>1. PICK a \in 0..MaxWait, q \in 0..Quiet :
          batch' = IF batch.msgs = <<>> THEN batch ELSE [batch EXCEPT !.age = a, !.quiet = q]
    <3>1. Lower(batch.age + 1, MaxWait) \in 0..MaxWait  BY LimitAssumption DEF Lower
    <3>2. Lower(batch.quiet + 1, Quiet) \in 0..Quiet  BY LimitAssumption DEF Lower
    <3> QED BY <1>7, <3>1, <3>2 DEF Tick
  <2>2. batch' \in Batch  BY <2>1
  <2>3. ASSUME NEW t \in Timer
        PROVE  (IF timer[t].left > 0 THEN [timer[t] EXCEPT !.left = @ - 1] ELSE timer[t]) \in TimerState
    <3>1. timer[t] \in TimerState  OBVIOUS
    <3>2. CASE timer[t].left > 0
      <4>1. timer[t].left - 1 \in 0..Quiet  BY <3>1, <3>2, LimitAssumption
      <4> QED BY <3>1, <3>2, <4>1
    <3> QED BY <3>1, <3>2
  <2>4. timer' \in [Timer -> TimerState]  BY <1>7, <2>3 DEF Tick
  <2> QED BY <1>7, <2>2, <2>4 DEF Tick
<1>8. ASSUME ProcessDies PROVE BatcherTypeOK'
  <2>1. timer' \in [Timer -> TimerState]  BY <1>8, LimitAssumption DEF ProcessDies
  <2> QED BY <1>8, <2>1, NoBatchType DEF ProcessDies
<1> QED BY <1>1, <1>2, <1>3, <1>4, <1>5, <1>6, <1>7, <1>8 DEF BatcherStep

\* Only a first message can have raised in on_first_message.
RaisedIsAlone == batch.raised => Len(batch.msgs) <= 1

\* The inductive invariant of the batch.
BatchMoves == PendingIsTimed /\ OverfullIsFlushed /\ RaisedIsAlone

\* A batch that is gone has nothing to wait for.
LEMMA EmptyMoves == ASSUME batch' = NoBatch PROVE BatchMoves'
BY LimitAssumption DEF BatchMoves, PendingIsTimed, OverfullIsFlushed, RaisedIsAlone

LEMMA BatchMovesStep ==
  ASSUME BatcherTypeOK, BatchMoves, BatcherStep \/ (\E m \in Msg : Enqueue(m)) \/ ProcessDies
  PROVE  BatchMoves'
<1>0. BatcherTypeOK'  BY BatcherTypeStep
<1> USE DEF BatcherTypeOK
<1>1. ASSUME NEW m \in Msg, Enqueue(m) PROVE BatchMoves'
  <2>1. batch.msgs \in Seq(Msg) /\ 0 \in 0..Quiet
    BY LimitAssumption
  <2>2. Append(batch.msgs, m) \in Seq(Msg) /\ Len(Append(batch.msgs, m)) = Len(batch.msgs) + 1
        /\ Append(batch.msgs, m) # <<>>
    BY <2>1, AppendProperties
  <2>3. [batch EXCEPT !.msgs = Append(@, m), !.quiet = 0, !.raised = FALSE] \in Batch
    BY <2>1, <2>2
  <2>4. PICK b \in Batch : b = [batch EXCEPT !.msgs = Append(@, m), !.quiet = 0, !.raised = FALSE]
    BY <2>3
  <2>5. b.msgs \in Seq(Msg) /\ Len(b.msgs) = Len(batch.msgs) + 1 /\ b.raised = FALSE
    BY <2>2, <2>4
  <2>6. CASE batch.msgs = <<>> /\ batch' = [b EXCEPT !.raised = TRUE]
    <3>1. batch'.raised = TRUE /\ Len(batch'.msgs) = 1  BY <2>5, <2>6
    <3> QED BY <3>1 DEF BatchMoves, PendingIsTimed, OverfullIsFlushed, RaisedIsAlone
  <2>7. CASE batch' = b /\ flushers' = flushers + 1
    <3>1. flushers' > 0 /\ flushers \in Nat  BY <2>7
    <3>2. MaxMessages + flushers >= Len(batch.msgs)
      BY <2>1, <3>1, LimitAssumption DEF BatchMoves, OverfullIsFlushed, RaisedIsAlone
    <3>3. MaxMessages + flushers' >= Len(batch'.msgs)
      BY <2>1, <2>5, <2>7, <3>1, <3>2, LimitAssumption
    <3>4. batch'.raised = FALSE  BY <2>5, <2>7
    <3> QED BY <3>1, <3>3, <3>4 DEF BatchMoves, PendingIsTimed, OverfullIsFlushed, RaisedIsAlone
  <2>8. CASE ~Full(b) /\ Schedule(b, Cancelled(b), Quiet)
    <3>1. Cancelled(b) \in [Timer -> TimerState] /\ Quiet \in 0..Quiet
      BY CancelledType, LimitAssumption
    <3>2. \/ batch' = NoBatch
          \/ batch'.msgs = b.msgs /\ batch'.raised = b.raised /\ \E t \in Timer : timer'[t].state = "armed"
      BY <2>5, <2>8, <3>1, ScheduleOutcome
    <3>3. Len(b.msgs) < MaxMessages
      BY <2>5, <2>8, LimitAssumption DEF Full
    <3>4. CASE batch'.msgs = b.msgs /\ batch'.raised = b.raised /\ \E t \in Timer : timer'[t].state = "armed"
      <4>1. PendingIsTimed'  BY <3>4 DEF PendingIsTimed
      <4>2. OverfullIsFlushed'  BY <2>5, <3>3, <3>4, LimitAssumption DEF OverfullIsFlushed
      <4>3. RaisedIsAlone'  BY <2>5, <3>4 DEF RaisedIsAlone
      <4> QED BY <4>1, <4>2, <4>3 DEF BatchMoves
    <3> QED BY <3>2, <3>4, EmptyMoves
  <2> QED BY <1>1, <2>4, <2>6, <2>7, <2>8 DEF Enqueue
<1>2. ASSUME NEW t \in Timer, TimerGoesOff(t) PROVE BatchMoves'
  <2>1. UNCHANGED <<batch, flushers>> /\ timer' = [timer EXCEPT ![t].state = "fired"]
    BY <1>2 DEF TimerGoesOff
  <2>2. ASSUME NEW u \in Timer, timer[u].state # "idle" PROVE timer'[u].state # "idle"
    BY <2>1, <2>2
  <2>3. PendingIsTimed'  BY <2>1, <2>2 DEF BatchMoves, PendingIsTimed
  <2> QED BY <2>1, <2>3 DEF BatchMoves, OverfullIsFlushed, RaisedIsAlone
<1>3. ASSUME NEW t \in Timer, TimerFire(t) PROVE BatchMoves'
  <2>1. PICK b \in Batch, ts \in [Timer -> TimerState] :
          b = [batch EXCEPT !.timer = NoTimer] /\ ts = [timer EXCEPT ![t] = Idle]
    <3>1. [timer EXCEPT ![t] = Idle] \in [Timer -> TimerState]  BY LimitAssumption
    <3>2. [batch EXCEPT !.timer = NoTimer] \in Batch  OBVIOUS
    <3> QED BY <3>1, <3>2
  <2>2. b.msgs = batch.msgs /\ b.raised = batch.raised /\ b.msgs \in Seq(Msg)
    BY <2>1
  <2>3. UNCHANGED flushers  BY <1>3 DEF TimerFire
  <2>4. CASE batch.quiet < Quiet /\ Schedule(b, ts, Quiet - batch.quiet)
    <3>1. Quiet - batch.quiet \in 0..Quiet  BY <2>4, LimitAssumption, SMTT(60)
    <3>2. \/ batch' = NoBatch
          \/ batch'.msgs = b.msgs /\ batch'.raised = b.raised /\ \E u \in Timer : timer'[u].state = "armed"
      BY <2>2, <2>4, <3>1, ScheduleOutcome
    <3>3. CASE batch'.msgs = b.msgs /\ batch'.raised = b.raised /\ \E u \in Timer : timer'[u].state = "armed"
      <4>1. PendingIsTimed'  BY <3>3 DEF PendingIsTimed
      <4> QED BY <2>2, <2>3, <3>3, <4>1 DEF BatchMoves, OverfullIsFlushed, RaisedIsAlone
    <3> QED BY <3>2, <3>3, EmptyMoves
  <2>5. CASE batch.msgs = <<>> /\ UNCHANGED batch
    BY <2>5, LimitAssumption DEF BatchMoves, PendingIsTimed, OverfullIsFlushed, RaisedIsAlone
  <2>6. CASE batch' = NoBatch
    BY <2>6, EmptyMoves
  <2> QED BY <1>3, <2>1, <2>4, <2>5, <2>6 DEF TimerFire
<1>4. ASSUME NEW s \in delivering, InvokeFlush(s) PROVE BatchMoves'
  BY <1>4 DEF InvokeFlush, BatchMoves, PendingIsTimed, OverfullIsFlushed, RaisedIsAlone
<1>5. ASSUME FlushNow \/ CancelPending \/ ProcessDies PROVE BatchMoves'
  BY <1>5, EmptyMoves DEF FlushNow, CancelPending, ProcessDies
<1>6. ASSUME Tick PROVE BatchMoves'
  <2>1. UNCHANGED flushers /\ batch'.msgs = batch.msgs /\ batch'.raised = batch.raised
    BY <1>6 DEF Tick
  <2>2. ASSUME NEW u \in Timer PROVE timer'[u].state = timer[u].state
    BY <1>6 DEF Tick
  <2>3. PendingIsTimed'  BY <2>1, <2>2 DEF BatchMoves, PendingIsTimed
  <2> QED BY <2>1, <2>3 DEF BatchMoves, OverfullIsFlushed, RaisedIsAlone
<1> QED BY <1>1, <1>2, <1>3, <1>4, <1>5, <1>6 DEF BatcherStep

-----------------------------------------------------------------------------
\* A step of the system is a step of the batch or leaves it alone.
LEMMA StepOfBatch ==
  ASSUME [Next]_vars
  PROVE  BatcherStep \/ (\E m \in Msg : Enqueue(m)) \/ ProcessDies \/ UNCHANGED batchVars
BY DEF Next, vars, ReceiveWebhook, RunTask, PurgeDedupe, Restart

\* The variables keep their types, for any messages, limits and restarts.
THEOREM InboundTypeCorrect == Spec => []TypeOK
<1>1. Init => TypeOK
  <2> SUFFICES ASSUME Init PROVE TypeOK  OBVIOUS
  <2>1. batch \in Batch  BY NoBatchType DEF Init, BatcherInit
  <2>2. timer \in [Timer -> TimerState]  BY LimitAssumption DEF Init, BatcherInit
  <2> QED BY <2>1, <2>2, PostAssumption DEF Init, BatcherInit, TypeOK, BatcherTypeOK
<1>2. TypeOK /\ [Next]_vars => TypeOK'
  <2> SUFFICES ASSUME TypeOK, [Next]_vars PROVE TypeOK'  OBVIOUS
  <2>1. BatcherTypeOK'
    <3>1. BatcherTypeOK  BY DEF TypeOK
    <3>2. UNCHANGED batchVars => BatcherTypeOK'  BY <3>1 DEF BatcherTypeOK, batchVars
    <3> QED BY <3>1, <3>2, StepOfBatch, BatcherTypeStep
  <2>2. CASE \E m \in Msg : ReceiveWebhook(m)
    BY <2>1, <2>2, PostAssumption DEF TypeOK, ReceiveWebhook, TryClaim
  <2>3. CASE \E m \in Msg : RunTask(m)
    BY <2>1, <2>3, PostAssumption DEF TypeOK, RunTask
  <2>4. CASE \E m \in Msg : PurgeDedupe(m)
    BY <2>1, <2>4, PostAssumption DEF TypeOK, PurgeDedupe
  <2>5. CASE Restart
    BY <2>1, <2>5, PostAssumption DEF TypeOK, Restart
  <2>6. CASE UNCHANGED inboundVars
    BY <2>1, <2>6 DEF TypeOK, inboundVars
  <2> QED BY <2>2, <2>3, <2>4, <2>5, <2>6 DEF Next, vars
<1> QED BY <1>1, <1>2, PTL DEF Spec

\* Whatever timers are cancelled, orphaned or late: a collected message has a timer
\* or a flush to come, and a batch beyond its limit is about to be flushed.
THEOREM BatchKeepsMoving == Spec => []BatchIsOnItsWay
<1>1. Init => BatchMoves
  BY LimitAssumption DEF Init, BatcherInit, BatchMoves, PendingIsTimed, OverfullIsFlushed, RaisedIsAlone
<1>2. TypeOK /\ BatchMoves /\ [Next]_vars => BatchMoves'
  <2> SUFFICES ASSUME TypeOK, BatchMoves, [Next]_vars PROVE BatchMoves'  OBVIOUS
  <2>1. BatcherTypeOK  BY DEF TypeOK
  <2>2. CASE UNCHANGED batchVars
    BY <2>2 DEF batchVars, BatchMoves, PendingIsTimed, OverfullIsFlushed, RaisedIsAlone
  <2> QED BY <2>1, <2>2, StepOfBatch, BatchMovesStep
<1>3. BatchMoves => BatchIsOnItsWay
  BY DEF BatchMoves, BatchIsOnItsWay
<1> QED BY <1>1, <1>2, <1>3, InboundTypeCorrect, PTL DEF Spec

-----------------------------------------------------------------------------
(* Where the messages go. *)

\* Scheduling keeps the batch together: it stays, or goes to a callback as it is.
LEMMA ScheduleMoves ==
  ASSUME NEW b \in Batch, NEW ts, NEW q, Schedule(b, ts, q)
  PROVE  \/ batch'.msgs = b.msgs /\ delivering' = delivering
         \/ /\ batch' = NoBatch /\ delivering' = delivering \cup {b.msgs} /\ timer' = ts
            /\ b.age + 1 >= MaxWait
<1>1. PICK late \in {0, 1} :
        IF b.age + late < MaxWait
          THEN LET t == NewTimer(ts) IN t \in Timer /\ ArmTimer(b, ts, t, Delay(b, late, q))
          ELSE timer' = ts /\ batch' = NoBatch /\ delivering' = delivering \cup {b.msgs}
  BY DEF Schedule
<1>2. CASE b.age + late < MaxWait
  <2>1. PICK t \in Timer : ArmTimer(b, ts, t, Delay(b, late, q))  BY <1>1, <1>2
  <2>2. batch' = [b EXCEPT !.timer = t] /\ delivering' = delivering  BY <2>1 DEF ArmTimer
  <2> QED BY <2>2
<1>3. CASE ~(b.age + late < MaxWait)
  BY <1>1, <1>3, LimitAssumption
<1> QED BY <1>2, <1>3

\* What a step of the batch does with the collected messages: it keeps them, loses
\* them or hands the batch over as it is.
Stays == MsgsOf(batch'.msgs) \subseteq MsgsOf(batch.msgs) /\ delivering' \subseteq delivering
Pops  == batch' = NoBatch /\ delivering' = delivering \cup {batch.msgs}

LEMMA StepMoves ==
  ASSUME BatcherTypeOK, BatcherStep, \A s \in delivering : ~InvokeFlush(s)
  PROVE  handed' = handed /\ (Stays \/ Pops)
<1> USE DEF BatcherTypeOK
<1>1. MsgsOf(<<>>) = {}  BY DEF MsgsOf
<1>2. ASSUME NEW t \in Timer, TimerGoesOff(t) PROVE handed' = handed /\ Stays
  BY <1>2 DEF TimerGoesOff, Stays
<1>3. ASSUME NEW t \in Timer, TimerFire(t) PROVE handed' = handed /\ (Stays \/ Pops)
  <2>1. PICK b \in Batch : b = [batch EXCEPT !.timer = NoTimer]  OBVIOUS
  <2>2. b.msgs = batch.msgs  BY <2>1
  <2>3. PICK ts : ts = [timer EXCEPT ![t] = Idle]  OBVIOUS
  <2>4. CASE Schedule(b, ts, Quiet - batch.quiet)
    <3>1. \/ batch'.msgs = b.msgs /\ delivering' = delivering
          \/ batch' = NoBatch /\ delivering' = delivering \cup {b.msgs}
      BY <2>4, ScheduleMoves
    <3> QED BY <1>3, <2>2, <3>1 DEF TimerFire, Stays, Pops
  <2>5. CASE UNCHANGED <<batch, delivering>>
    BY <1>3, <2>5 DEF TimerFire, Stays
  <2>6. CASE Pops
    BY <1>3, <2>6 DEF TimerFire
  <2> QED BY <1>3, <2>1, <2>3, <2>4, <2>5, <2>6 DEF TimerFire, Pops
<1>4. CASE FlushNow
  BY <1>1, <1>4 DEF FlushNow, Stays, Pops
<1>5. CASE CancelPending
  BY <1>1, <1>5 DEF CancelPending, Stays
<1>6. CASE Tick
  <2>1. batch'.msgs = batch.msgs  BY <1>6 DEF Tick
  <2> QED BY <1>6, <2>1 DEF Tick, Stays
<1> QED BY <1>2, <1>3, <1>4, <1>5, <1>6 DEF BatcherStep

\* A new message joins the batch, which stays or goes.
LEMMA EnqueueMoves ==
  ASSUME BatcherTypeOK, NEW m \in Msg, Enqueue(m)
  PROVE  /\ handed' = handed
         /\ \/ MsgsOf(batch'.msgs) \subseteq MsgsOf(batch.msgs) \cup {m} /\ delivering' = delivering
            \/ /\ batch' = NoBatch
               /\ delivering' = delivering \cup {Append(batch.msgs, m)}
<1> USE DEF BatcherTypeOK
<1>1. batch.msgs \in Seq(Msg) /\ 0 \in 0..Quiet  BY LimitAssumption
<1>2. PICK s \in Seq(Msg) : s = Append(batch.msgs, m)  BY <1>1, AppendProperties
<1>3. MsgsOf(s) \subseteq MsgsOf(batch.msgs) \cup {m}
  BY <1>1, <1>2, AppendProperties DEF MsgsOf
<1>4. [batch EXCEPT !.msgs = s, !.quiet = 0, !.raised = FALSE] \in Batch  BY <1>1
<1>5. PICK b \in Batch : b = [batch EXCEPT !.msgs = s, !.quiet = 0, !.raised = FALSE]
  BY <1>4
<1>6. b = [batch EXCEPT !.msgs = Append(@, m), !.quiet = 0, !.raised = FALSE] /\ b.msgs = s
  BY <1>2, <1>5
<1>7. handed' = handed
      /\ \/ batch' = [b EXCEPT !.raised = TRUE] /\ delivering' = delivering
         \/ batch' = b /\ delivering' = delivering
         \/ Schedule(b, Cancelled(b), Quiet)
  BY <1>6 DEF Enqueue
<1>8. \/ batch'.msgs = s /\ delivering' = delivering
      \/ batch' = NoBatch /\ delivering' = delivering \cup {s}
  BY <1>6, <1>7, ScheduleMoves
<1> QED BY <1>2, <1>3, <1>7, <1>8

-----------------------------------------------------------------------------
(* A message is handed over once. *)

Here(b) == IF b THEN 1 ELSE 0

\* How often a message was handed over or still may be.
Copies(m) == handed[m] + tasks[m] + Here(InBatch(m)) + Here(InDelivery(m))

\* At most one copy, none before the claim, and in one delivery only.
Single(m) ==
  /\ Copies(m) <= 1
  /\ m \notin dedupe => Copies(m) = 0
  /\ \A s, r \in delivering : m \in MsgsOf(s) /\ m \in MsgsOf(r) => s = r

CopiesInv == \A m \in Msg \ unsure : Single(m)

\* A message that is neither claimed nor moved keeps its place.
LEMMA CopiesAreFour ==
  ASSUME TypeOK, NEW m \in Msg
  PROVE  /\ handed[m] \in Nat /\ tasks[m] \in Nat
         /\ Here(InBatch(m)) \in {0, 1} /\ Here(InDelivery(m)) \in {0, 1}
         /\ InBatch(m) => Here(InBatch(m)) = 1
         /\ ~InBatch(m) => Here(InBatch(m)) = 0
         /\ InDelivery(m) => Here(InDelivery(m)) = 1
         /\ ~InDelivery(m) => Here(InDelivery(m)) = 0
         /\ Copies(m) = handed[m] + tasks[m] + Here(InBatch(m)) + Here(InDelivery(m))
BY DEF TypeOK, BatcherTypeOK, Here, Copies

\* Losing or keeping what is there, and handing the batch over, copy nothing.
LEMMA StaysKeepsSingle ==
  ASSUME TypeOK, TypeOK', NEW m \in Msg, Single(m), Stays, handed' = handed,
         tasks'[m] \in 0..tasks[m], dedupe' = dedupe
  PROVE  Single(m)'
<1>1. InBatch(m)' => InBatch(m)  BY DEF Stays, InBatch
<1>2. InDelivery(m)' => InDelivery(m)  BY DEF Stays, InDelivery
<1>3. Here(InBatch(m))' <= Here(InBatch(m)) /\ Here(InDelivery(m))' <= Here(InDelivery(m))
  BY <1>1, <1>2 DEF Here
<1>4. /\ handed[m] \in Nat /\ tasks[m] \in Nat
      /\ Here(InBatch(m)) \in {0, 1} /\ Here(InDelivery(m)) \in {0, 1}
      /\ Here(InBatch(m))' \in {0, 1} /\ Here(InDelivery(m))' \in {0, 1}
  BY CopiesAreFour DEF Here
<1>5. Copies(m)' \in 0..Copies(m)  BY <1>3, <1>4 DEF Copies
<1>6. Copies(m) \in Nat  BY <1>4 DEF Copies
<1> QED BY <1>5, <1>6 DEF Single, Stays


\* A message joins a delivery only out of the batch or out of its task.
LEMMA JoiningKeepsSingle ==
  ASSUME TypeOK, NEW m \in Msg, Single(m), NEW s, batch' = NoBatch, delivering' = delivering \cup {s},
         handed' = handed, tasks'[m] \in 0..tasks[m], dedupe' = dedupe,
         m \in MsgsOf(s) => InBatch(m) \/ tasks[m] = tasks'[m] + 1
  PROVE  Single(m)'
<1>1. ~InBatch(m)'  BY DEF InBatch, MsgsOf
<1>2. InDelivery(m)' <=> InDelivery(m) \/ m \in MsgsOf(s)  BY DEF InDelivery
<1>3. /\ handed[m] \in Nat /\ tasks[m] \in Nat /\ tasks'[m] \in Nat /\ tasks'[m] <= tasks[m]
      /\ Here(InBatch(m)) \in {0, 1} /\ Here(InDelivery(m)) \in {0, 1}
      /\ Copies(m) = handed[m] + tasks[m] + Here(InBatch(m)) + Here(InDelivery(m))
  BY CopiesAreFour
<1>4. Copies(m)' = handed[m] + tasks'[m] + Here(InDelivery(m))'
  BY <1>1, <1>3 DEF Copies, Here
<1>5. CASE m \notin MsgsOf(s)
  <2>1. Here(InDelivery(m))' = Here(InDelivery(m))  BY <1>2, <1>5 DEF Here
  <2>2. Copies(m)' \in 0..Copies(m)  BY <1>3, <1>4, <2>1
  <2>3. \A r \in delivering' : m \in MsgsOf(r) => r \in delivering  BY <1>5
  <2> QED BY <1>3, <2>2, <2>3 DEF Single
<1>6. CASE m \in MsgsOf(s)
  <2>1. Here(InDelivery(m))' = 1  BY <1>2, <1>6 DEF Here
  <2>2. InBatch(m) => Here(InBatch(m)) = 1  BY DEF Here
  <2>3. tasks[m] + Here(InBatch(m)) = 1 /\ handed[m] = 0 /\ Here(InDelivery(m)) = 0 /\ tasks'[m] = 0
    BY <1>3, <1>6, <2>2 DEF Single
  <2>4. Copies(m)' = 1 /\ m \in dedupe
    BY <1>3, <1>4, <2>1, <2>3 DEF Single
  <2>5. ~InDelivery(m)  BY <2>3 DEF Here
  <2>6. \A r \in delivering' : m \in MsgsOf(r) => r = s  BY <2>5 DEF InDelivery
  <2> QED BY <2>4, <2>6 DEF Single
<1> QED BY <1>5, <1>6

\* A task that puts its message in the batch moves the copy.
LEMMA EnqueueKeepsSingle ==
  ASSUME TypeOK, NEW m \in Msg, Single(m), NEW k \in Msg, RunTask(k)
  PROVE  Single(m)'
<1>1. /\ tasks[k] \in Nat /\ tasks[k] > 0 /\ tasks[m] \in Nat /\ tasks' = [tasks EXCEPT ![k] = @ - 1]
      /\ tasks \in [Msg -> Nat] /\ dedupe' = dedupe /\ Enqueue(k) /\ BatcherTypeOK
  BY DEF RunTask, TypeOK
<1>2. tasks'[m] \in 0..tasks[m] /\ (m = k => tasks[m] = tasks'[m] + 1)
  BY <1>1
<1>3. handed' = handed  BY <1>1, EnqueueMoves
<1>4. CASE /\ MsgsOf(batch'.msgs) \subseteq MsgsOf(batch.msgs) \cup {k}
           /\ delivering' = delivering
  <2>1. InDelivery(m)' <=> InDelivery(m)  BY <1>4 DEF InDelivery
  <2>2. InBatch(m)' => InBatch(m) \/ m = k  BY <1>4 DEF InBatch
  <2>3. /\ handed[m] \in Nat /\ Here(InBatch(m)) \in {0, 1} /\ Here(InDelivery(m)) \in {0, 1}
        /\ Copies(m) = handed[m] + tasks[m] + Here(InBatch(m)) + Here(InDelivery(m))
    BY CopiesAreFour
  <2>4. Here(InDelivery(m))' = Here(InDelivery(m)) /\ Here(InBatch(m))' \in {0, 1}
        /\ (m # k => Here(InBatch(m))' <= Here(InBatch(m)))
    BY <2>1, <2>2 DEF Here
  <2>5. tasks'[m] + Here(InBatch(m))' <= tasks[m] + Here(InBatch(m)) /\ tasks'[m] + Here(InBatch(m))' \in Nat
    BY <1>1, <1>2, <2>3, <2>4
  <2>6. Copies(m)' \in 0..Copies(m)
    <3>1. Copies(m)' = handed[m] + (tasks'[m] + Here(InBatch(m))') + Here(InDelivery(m))
      BY <1>2, <1>3, <2>3, <2>4 DEF Copies
    <3>2. Copies(m) = handed[m] + (tasks[m] + Here(InBatch(m))) + Here(InDelivery(m))
      BY <1>1, <2>3
    <3> QED BY <1>1, <2>3, <2>5, <3>1, <3>2
  <2> QED BY <1>1, <1>4, <2>3, <2>6 DEF Single
<1>5. CASE batch' = NoBatch /\ delivering' = delivering \cup {Append(batch.msgs, k)}
  <2>1. m \in MsgsOf(Append(batch.msgs, k)) => InBatch(m) \/ m = k
    <3>1. batch.msgs \in Seq(Msg)  BY <1>1 DEF BatcherTypeOK
    <3> QED BY <3>1, AppendProperties DEF MsgsOf, InBatch
  <2> QED BY <1>1, <1>2, <1>3, <1>5, <2>1, JoiningKeepsSingle
<1> QED BY <1>1, <1>4, <1>5, EnqueueMoves

\* A callback that returns gives the message, or drops it; one delivery held it.
LEMMA DeliveryKeepsSingle ==
  ASSUME TypeOK, NEW m \in Msg, Single(m), NEW s \in delivering, InvokeFlush(s),
         tasks' = tasks, dedupe' = dedupe
  PROVE  Single(m)'
<1>1. /\ delivering' = delivering \ {s} /\ batch' = batch
      /\ \/ handed' = [x \in Msg |-> handed[x] + (IF x \in MsgsOf(s) THEN 1 ELSE 0)]
         \/ handed' = handed
  BY DEF InvokeFlush
<1>2. InBatch(m)' <=> InBatch(m)  BY <1>1 DEF InBatch
<1>3. /\ handed[m] \in Nat /\ tasks[m] \in Nat
      /\ Here(InBatch(m)) \in {0, 1} /\ Here(InDelivery(m)) \in {0, 1}
      /\ Copies(m) = handed[m] + tasks[m] + Here(InBatch(m)) + Here(InDelivery(m))
  BY CopiesAreFour
<1>4. Here(InBatch(m))' = Here(InBatch(m))  BY <1>2 DEF Here
<1>5. handed'[m] + Here(InDelivery(m))' <= handed[m] + Here(InDelivery(m)) /\ handed'[m] \in Nat
      /\ Here(InDelivery(m))' \in {0, 1}
  <2>1. CASE m \in MsgsOf(s)
    <3>1. InDelivery(m) /\ ~InDelivery(m)'
      BY <1>1, <2>1 DEF InDelivery, Single
    <3>2. Here(InDelivery(m)) = 1 /\ Here(InDelivery(m))' = 0  BY <3>1 DEF Here
    <3>3. handed'[m] \in {handed[m], handed[m] + 1}  BY <1>1, <1>3, <2>1
    <3> QED BY <1>3, <3>2, <3>3
  <2>2. CASE m \notin MsgsOf(s)
    <3>1. InDelivery(m)' <=> InDelivery(m)  BY <1>1, <2>2 DEF InDelivery
    <3>2. Here(InDelivery(m))' = Here(InDelivery(m))  BY <3>1 DEF Here
    <3>3. handed'[m] = handed[m]  BY <1>1, <1>3, <2>2
    <3> QED BY <1>3, <3>2, <3>3
  <2> QED BY <2>1, <2>2
<1>6. Copies(m)' \in 0..Copies(m)
  BY <1>3, <1>4, <1>5 DEF Copies
<1> QED BY <1>1, <1>3, <1>6 DEF Single

LEMMA CopiesStep ==
  ASSUME TypeOK, TypeOK', CopiesInv, [Next]_vars
  PROVE  CopiesInv'
<1> SUFFICES ASSUME NEW m \in Msg, m \notin unsure' PROVE Single(m)'
  BY DEF CopiesInv
<1>0. ASSUME m \notin unsure PROVE Single(m)  BY <1>0 DEF CopiesInv
<1>1. ASSUME UNCHANGED batchVars, dedupe' = dedupe, tasks'[m] = tasks[m], m \notin unsure
      PROVE  Single(m)'
  BY <1>0, <1>1 DEF Single, Copies, InBatch, InDelivery, Here, batchVars
<1>2. ASSUME NEW k \in Msg, ReceiveWebhook(k) PROVE Single(m)'
  <2>1. UNCHANGED batchVars /\ m \notin unsure /\ tasks \in [Msg -> Nat]
    BY <1>2 DEF ReceiveWebhook, TryClaim, TypeOK
  <2>2. /\ InBatch(m)' <=> InBatch(m)
        /\ InDelivery(m)' <=> InDelivery(m)
        /\ handed' = handed /\ delivering' = delivering
    BY <2>1 DEF InBatch, InDelivery, batchVars
  <2>3. CASE m = k /\ k \notin dedupe /\ dedupe' = dedupe \cup {k} /\ tasks' = [tasks EXCEPT ![k] = @ + 1]
    <3>1. Copies(m) = 0 /\ Single(m)  BY <1>0, <2>1, <2>3 DEF Single
    <3>2. Copies(m)' = Copies(m) + 1
      <4>1. tasks'[m] = tasks[m] + 1  BY <2>1, <2>3
      <4>2. Here(InBatch(m))' = Here(InBatch(m)) /\ Here(InDelivery(m))' = Here(InDelivery(m))
        BY <2>2 DEF Here
      <4>3. handed[m] \in Nat /\ tasks[m] \in Nat
            /\ Here(InBatch(m)) \in {0, 1} /\ Here(InDelivery(m)) \in {0, 1}
        BY CopiesAreFour
      <4> QED BY <2>2, <4>1, <4>2, <4>3 DEF Copies
    <3> QED BY <2>2, <2>3, <3>1, <3>2 DEF Single
  <2>4. CASE dedupe' = dedupe /\ tasks'[m] = tasks[m]
    BY <1>1, <2>1, <2>4
  <2>5. CASE m # k /\ dedupe' = dedupe \cup {k} /\ tasks' = [tasks EXCEPT ![k] = @ + 1]
    <3>1. tasks'[m] = tasks[m]  BY <2>1, <2>5
    <3>2. Copies(m)' = Copies(m)  BY <2>2, <3>1 DEF Copies, Here
    <3> QED BY <1>0, <2>1, <2>2, <2>5, <3>2 DEF Single
  <2> QED BY <1>2, <2>1, <2>3, <2>4, <2>5 DEF ReceiveWebhook, TryClaim
<1>3. ASSUME NEW k \in Msg, RunTask(k) PROVE Single(m)'
  BY <1>0, <1>3, EnqueueKeepsSingle DEF RunTask
<1>4. ASSUME NEW k \in Msg, PurgeDedupe(k) PROVE Single(m)'
  <2>1. /\ UNCHANGED batchVars /\ tasks' = tasks /\ m # k /\ m \notin unsure
        /\ m \in dedupe' <=> m \in dedupe
    BY <1>4 DEF PurgeDedupe
  <2> QED BY <1>0, <2>1 DEF Single, Copies, InBatch, InDelivery, Here, batchVars
<1>5. CASE BatcherStep /\ UNCHANGED inboundVars
  <2>1. tasks' = tasks /\ dedupe' = dedupe /\ m \notin unsure /\ tasks[m] \in Nat
    BY <1>5 DEF inboundVars, TypeOK
  <2>2. ASSUME NEW s \in delivering, InvokeFlush(s) PROVE Single(m)'
    BY <1>0, <2>1, <2>2, DeliveryKeepsSingle
  <2>3. CASE \A s \in delivering : ~InvokeFlush(s)
    <3>1. handed' = handed /\ (Stays \/ Pops)  BY <1>5, <2>3, StepMoves DEF TypeOK
    <3>2. tasks'[m] \in 0..tasks[m]  BY <2>1
    <3>3. CASE Stays  BY <1>0, <2>1, <3>1, <3>2, <3>3, StaysKeepsSingle
    <3>4. CASE Pops
      <4>1. m \in MsgsOf(batch.msgs) => InBatch(m)  BY DEF InBatch
      <4> QED BY <1>0, <2>1, <3>1, <3>2, <3>4, <4>1, JoiningKeepsSingle DEF Pops
    <3> QED BY <3>1, <3>3, <3>4
  <2> QED BY <2>2, <2>3
<1>6. CASE Restart
  <2>1. /\ tasks'[m] = 0 /\ dedupe' = dedupe /\ m \notin unsure /\ handed' = handed
        /\ batch' = NoBatch /\ delivering' = {}
    BY <1>6 DEF Restart, ProcessDies
  <2>2. MsgsOf(batch'.msgs) \subseteq MsgsOf(batch.msgs)  BY <2>1 DEF MsgsOf
  <2>3. Stays /\ tasks'[m] \in 0..tasks[m]  BY <2>1, <2>2, CopiesAreFour DEF Stays
  <2> QED BY <1>0, <2>1, <2>3, StaysKeepsSingle
<1>7. CASE UNCHANGED vars
  BY <1>1, <1>7 DEF vars, inboundVars
<1> QED BY <1>2, <1>3, <1>4, <1>5, <1>6, <1>7 DEF Next

\* However often Meta posts a message, whenever the process restarts and whichever
\* timer pops the batch: one callback at most is given it, unless its claim failed or
\* was purged.
THEOREM HandedOverOnce == Spec => []HandedOnce
<1>1. Init => CopiesInv
  <2> SUFFICES ASSUME Init, NEW m \in Msg PROVE Single(m)  BY DEF CopiesInv
  <2>1. ~InBatch(m) /\ ~InDelivery(m) /\ delivering = {} /\ handed[m] = 0 /\ tasks[m] = 0
    BY DEF Init, BatcherInit, InBatch, InDelivery, MsgsOf
  <2> QED BY <2>1 DEF Single, Copies, Here
<1>2. TypeOK /\ TypeOK' /\ CopiesInv /\ [Next]_vars => CopiesInv'
  BY CopiesStep
<1>3. CopiesInv => HandedOnce
  BY DEF CopiesInv, Single, Copies, Here, HandedOnce
<1> QED BY <1>1, <1>2, <1>3, InboundTypeCorrect, PTL DEF Spec


-----------------------------------------------------------------------------
(* Timers of earlier batches. *)

\* What a timer that ran did to the batch it found.
QuietOrOld(t) ==
  timer[t].state = "fired" /\ timer'[t].state # "fired" /\ batch.msgs \in delivering' \ delivering
    => batch.quiet = Quiet \/ batch.age + 1 >= MaxWait

\* A timer that has gone off cannot be stopped any more.
LEMMA FiredIsNotCancelled ==
  ASSUME BatcherTypeOK, NEW b \in Batch, NEW t \in Timer, timer[t].state = "fired"
  PROVE  Cancelled(b)[t] = timer[t]
BY DEF Cancelled, BatcherTypeOK

\* A timer pops the batch it finds when that is quiet or old, by the clock it reads first or last.
LEMMA FiringWaits ==
  ASSUME BatcherTypeOK, NEW t \in Timer, NEW u \in Timer, TimerFire(u)
  PROVE  QuietOrOld(t)
<1> USE DEF BatcherTypeOK
<1>1. PICK b \in Batch : b = [batch EXCEPT !.timer = NoTimer]  OBVIOUS
<1>2. b.age = batch.age  BY <1>1
<1>3. PICK ts : ts = [timer EXCEPT ![u] = Idle]  OBVIOUS
<1>4. CASE Schedule(b, ts, Quiet - batch.quiet)
  <2>1. delivering' = delivering \/ b.age + 1 >= MaxWait  BY <1>4, ScheduleMoves
  <2> QED BY <1>2, <2>1 DEF QuietOrOld
<1>5. CASE delivering' = delivering
  BY <1>5 DEF QuietOrOld
<1>6. CASE batch.quiet >= Quiet \/ batch.age >= MaxWait
  BY <1>6, LimitAssumption DEF QuietOrOld
<1> QED BY <1>1, <1>3, <1>4, <1>5, <1>6 DEF TimerFire

LEMMA StepWaits ==
  ASSUME BatcherTypeOK, NEW t \in Timer,
         BatcherStep \/ (\E m \in Msg : Enqueue(m)) \/ ProcessDies \/ UNCHANGED batchVars
  PROVE  QuietOrOld(t)
<1> USE DEF BatcherTypeOK
<1>1. ASSUME NEW m \in Msg, Enqueue(m) PROVE QuietOrOld(t)
  <2>1. batch.msgs \in Seq(Msg) /\ 0 \in 0..Quiet  BY LimitAssumption
  <2>2. PICK s \in Seq(Msg) : s = Append(batch.msgs, m)  BY <2>1, AppendProperties
  <2>3. s # batch.msgs  BY <2>1, <2>2, AppendProperties
  <2>4. [batch EXCEPT !.msgs = s, !.quiet = 0, !.raised = FALSE] \in Batch  BY <2>1
  <2>5. PICK b \in Batch : b = [batch EXCEPT !.msgs = s, !.quiet = 0, !.raised = FALSE]
    BY <2>4
  <2>6. b = [batch EXCEPT !.msgs = Append(@, m), !.quiet = 0, !.raised = FALSE] /\ b.msgs = s
    BY <2>2, <2>5
  <2>7. delivering' = delivering \/ Schedule(b, Cancelled(b), Quiet)
    BY <1>1, <2>6 DEF Enqueue
  <2>8. delivering' = delivering \/ delivering' = delivering \cup {s}
    BY <2>6, <2>7, ScheduleMoves
  <2> QED BY <2>3, <2>8 DEF QuietOrOld
<1>2. ASSUME NEW u \in Timer, TimerGoesOff(u) \/ TimerFire(u) PROVE QuietOrOld(t)
  BY <1>2, FiringWaits DEF TimerGoesOff, QuietOrOld
<1>3. CASE FlushNow \/ CancelPending
  <2>1. timer[t].state = "fired" => timer'[t].state = "fired"
    BY <1>3, FiredIsNotCancelled DEF FlushNow, CancelPending
  <2> QED BY <2>1 DEF QuietOrOld
<1>4. CASE (\E s \in delivering : InvokeFlush(s)) \/ Tick \/ ProcessDies \/ UNCHANGED batchVars
  <2>1. delivering' \subseteq delivering
    BY <1>4 DEF InvokeFlush, Tick, ProcessDies, batchVars
  <2> QED BY <2>1 DEF QuietOrOld
<1> QED BY <1>1, <1>2, <1>3, <1>4 DEF BatcherStep

\* A timer flushes only after the quiet window or the maximal wait, also when the
\* batch it finds is not the one that started it.
THEOREM StaleTimersWait == Spec => TimersWaitForQuiet
<1>1. ASSUME TypeOK, [Next]_vars
      PROVE  [\A t \in Timer : /\ timer[t].state = "fired" /\ timer'[t].state # "fired"
                               /\ batch.msgs \in delivering' \ delivering
                               => batch.quiet = Quiet \/ batch.age + 1 >= MaxWait]_batchVars
  <2>1. BatcherTypeOK  BY <1>1 DEF TypeOK
  <2>2. \A t \in Timer : QuietOrOld(t)  BY <1>1, <2>1, StepOfBatch, StepWaits
  <2> QED BY <2>2 DEF QuietOrOld
<1> QED BY <1>1, InboundTypeCorrect, PTL DEF Spec, TimersWaitForQuiet


(* ---- the busy gate, which the batch is handed on to ----------------------- *)

\* A request that moves on is a request.
LEMMA GoType ==
  ASSUME request \in [Request -> RequestState], NEW q \in Request, NEW p \in Pc, Go(q, p)
  PROVE  request' \in [Request -> RequestState]
BY DEF Go, RequestState

\* A request that is about to tell knows about whom.
LEMMA TellType ==
  ASSUME request \in [Request -> RequestState], NEW q \in Request, mark \in Mark,
         request' = [request EXCEPT ![q] = [pc |-> "notify", about |-> mark.owner]]
  PROVE  request' \in [Request -> RequestState]
BY DEF RequestState, Pc, Mark

LEMMA NoMarkType == NoMark \in Mark
BY DEF NoMark, Mark, Owner

LEMMA ReleaseType ==
  ASSUME GateTypeOK, NEW q \in Request, ReleaseBusy(q)
  PROVE  mark' \in Mark /\ released' \subseteq Request
BY NoMarkType DEF GateTypeOK, ReleaseBusy

LEMMA LoseType == ASSUME GateTypeOK, LoseMark PROVE lost' \subseteq Request
BY DEF GateTypeOK, LoseMark, Held, Mark, Owner

\* A rejection tells about a request.
TellersKnow == \A q \in Request : request[q].pc \in {"notify", "marking"} => request[q].about \in Request

TypeInv == GateTypeOK /\ TellersKnow

\* The webhook's steps keep the types.
LEMMA WebhookType == ASSUME TypeInv, NEW q \in Request, Webhook(q) PROVE TypeInv'
<1> USE DEF TypeInv, GateTypeOK
<1> DEFINE Known(o) == o \in Request
<1>1. ASSUME NEW p \in Pc, Go(q, p), p \in {"notify", "marking"} => request[q].about \in Request
      PROVE  request' \in [Request -> RequestState] /\ TellersKnow'
  <2>1. request' \in [Request -> RequestState]  BY <1>1, GoType
  <2> QED BY <1>1, <2>1 DEF Go, TellersKnow, RequestState
<1>2. CASE RejectIfBusy(q)
  <2>1. mark.owner \in Request  BY <1>2 DEF RejectIfBusy, MayBeLive, Held, Mark, Owner
  <2>2. CASE Go(q, "dropped") /\ UNCHANGED excused
    <3>1. request' \in [Request -> RequestState] /\ TellersKnow'  BY <2>2, <1>1 DEF Pc
    <3> QED BY <1>2, <2>2, <3>1 DEF RejectIfBusy
  <2>3. CASE request' = [request EXCEPT ![q] = [pc |-> "notify", about |-> mark.owner]]
    <3>1. request' \in [Request -> RequestState]  BY <2>3, TellType
    <3>2. TellersKnow'  BY <2>1, <2>3 DEF TellersKnow, RequestState
    <3>3. excused' \subseteq Request  BY <1>2, <2>1 DEF RejectIfBusy
    <3> QED BY <1>2, <3>1, <3>2, <3>3 DEF RejectIfBusy
  <2> QED BY <1>2, <2>2, <2>3 DEF RejectIfBusy
<1>3. CASE Admit(q)
  <2>1. request' \in [Request -> RequestState] /\ TellersKnow'  BY <1>3, <1>1 DEF Admit, Pc
  <2> QED BY <1>3, <2>1 DEF Admit
<1>4. CASE SendNotice(q)
  <2>1. request[q].about \in Request  BY <1>4 DEF SendNotice, At, TellersKnow
  <2>2. request' \in [Request -> RequestState] /\ TellersKnow'  BY <1>4, <2>1, <1>1 DEF SendNotice, Pc
  <2>3. told' \in [Request -> Nat]  BY <1>4, <2>1 DEF SendNotice
  <2> QED BY <1>4, <2>2, <2>3 DEF SendNotice
<1>5. CASE MarkNoticeSent(q)
  <2>1. request' \in [Request -> RequestState] /\ TellersKnow'  BY <1>5, <1>1 DEF MarkNoticeSent, Pc
  <2>2. PICK b \in BOOLEAN : mark' = [mark EXCEPT !.notice = b]
    <3>1. (mark.notice \/ mark.owner = request[q].about) \in BOOLEAN  BY Zenon
    <3> QED BY <1>5, <3>1, Zenon DEF MarkNoticeSent
  <2>3. mark' \in Mark  BY <2>2 DEF Mark
  <2> QED BY <1>5, <2>1, <2>3 DEF MarkNoticeSent
<1>6. CASE ClaimBusy(q)
  <2>1. request' \in [Request -> RequestState] /\ TellersKnow'  BY <1>6, <1>1 DEF ClaimBusy, Pc
  <2>2. [owner |-> q, age |-> "young", notice |-> FALSE] \in Mark  BY DEF Mark, Owner
  <2>3. mark' \in Mark  BY <1>6, <2>2, Zenon DEF ClaimBusy
  <2>4. lost' \subseteq Request  BY <1>6, LoseType DEF ClaimBusy
  <2> QED BY <1>6, <2>1, <2>3, <2>4 DEF ClaimBusy
<1>7. CASE EnqueueJob(q)
  <2>1. request' \in [Request -> RequestState] /\ TellersKnow'  BY <1>7, <1>1 DEF EnqueueJob, Pc
  <2> QED BY <1>7, <2>1 DEF EnqueueJob
<1>8. CASE GiveUp(q)
  <2>1. request' \in [Request -> RequestState] /\ TellersKnow'  BY <1>8, <1>1 DEF GiveUp, Pc
  <2>2. mark' \in Mark /\ released' \subseteq Request  BY <1>8, ReleaseType DEF GiveUp
  <2> QED BY <1>8, <2>1, <2>2 DEF GiveUp
<1>9. CASE CutRequest(q)
  <2>1. request' \in [Request -> RequestState] /\ TellersKnow'  BY <1>9, <1>1 DEF CutRequest, Pc
  <2>2. At(q, "marking") => request[q].about \in Request  BY DEF At, TellersKnow
  <2>3. excused' \subseteq Request  BY <1>9, <2>2 DEF CutRequest
  <2> QED BY <1>9, <2>1, <2>3 DEF CutRequest
<1> QED BY <1>2, <1>3, <1>4, <1>5, <1>6, <1>7, <1>8, <1>9 DEF Webhook

\* So do the job's and the row's.
LEMMA RestType ==
  ASSUME TypeInv, UNCHANGED request,
         (\E s \in Slot : Job(s)) \/ MarkAges \/ ForceClearBusy \/ DeleteSender \/ CreateRow
  PROVE  TypeInv'
<1> USE DEF TypeInv, GateTypeOK
<1>1. TellersKnow'  BY DEF TellersKnow
<1>2. ASSUME NEW s \in Slot, NEW q \in Request, VerifyBusyOwner(s, q) PROVE TypeInv'
  BY <1>1, <1>2 DEF VerifyBusyOwner, Owner
<1>3. ASSUME NEW s \in Slot, FinishTurn(s) PROVE TypeInv'
  <2>1. slot[s] \in Request  BY <1>3 DEF FinishTurn, Owner
  <2>2. mark' \in Mark /\ released' \subseteq Request  BY <1>3, <2>1, ReleaseType DEF FinishTurn
  <2>3. slot' \in [Slot -> Owner]  BY <1>3 DEF FinishTurn, Owner
  <2> QED BY <1>1, <1>3, <2>2, <2>3 DEF FinishTurn
<1>4. ASSUME NEW s \in Slot, CutTurn(s) PROVE TypeInv'  BY <1>1, <1>4 DEF CutTurn, Owner
<1>5. CASE MarkAges  BY <1>1, <1>5 DEF MarkAges, Mark
<1>6. CASE ForceClearBusy
  <2>1. clears' \in 0..MaxClears  BY <1>6, ClearAssumption DEF ForceClearBusy
  <2> QED BY <1>1, <1>6, <2>1, LoseType, NoMarkType DEF ForceClearBusy
<1>7. CASE DeleteSender
  <2>1. clears' \in 0..MaxClears  BY <1>7, ClearAssumption DEF DeleteSender
  <2> QED BY <1>1, <1>7, <2>1, LoseType, NoMarkType DEF DeleteSender
<1>8. CASE CreateRow  BY <1>1, <1>8 DEF CreateRow
<1> QED BY <1>2, <1>3, <1>4, <1>5, <1>6, <1>7, <1>8 DEF Job

\* Steps that are not the webhook's leave the requests where they are.
LEMMA NextSplit ==
  ASSUME GateNext
  PROVE  \/ \E q \in Request : Webhook(q)
         \/ /\ (\E s \in Slot : Job(s)) \/ MarkAges \/ ForceClearBusy \/ DeleteSender \/ CreateRow
            /\ UNCHANGED request
BY DEF GateNext, Job, VerifyBusyOwner, FinishTurn, CutTurn, MarkAges, ForceClearBusy, DeleteSender, CreateRow

LEMMA TypeInvariant == GateSpec => []TypeInv
<1>1. GateInit => TypeInv
  BY ClearAssumption, NoMarkType DEF GateInit, TypeInv, GateTypeOK, TellersKnow, RequestState, Pc, Owner
<1>2. TypeInv /\ [GateNext]_gateVars => TypeInv'
  <2>1. ASSUME TypeInv, GateNext PROVE TypeInv'  BY <2>1, NextSplit, WebhookType, RestType
  <2>2. ASSUME TypeInv, UNCHANGED gateVars PROVE TypeInv'
    BY <2>2 DEF gateVars, TypeInv, GateTypeOK, TellersKnow
  <2> QED BY <2>1, <2>2
<1> QED BY <1>1, <1>2, PTL DEF GateSpec

\* The variables keep their types, for any messages, slots and clears.
THEOREM GateTypeCorrect == GateSpec => []GateTypeOK
<1>1. TypeInv => GateTypeOK  BY DEF TypeInv
<1> QED BY <1>1, TypeInvariant, PTL

-----------------------------------------------------------------------------
(* Who is worked on *)

Over == lost \cup released

\* The webhook has not claimed for q yet.
Unclaimed(q) == request[q].pc \in {"new", "notify", "marking", "claiming"}

\* A mark, or the end of one, belongs to a request that claimed it.
ClaimedOnce == \A q \in Request : Unclaimed(q) => mark.owner # q /\ q \notin Over

\* The mark is of a request that is not over.
MarkIsCurrent == mark.owner \notin Over

GateInv == TypeInv /\ ClaimedOnce /\ MarkIsCurrent /\ OneTurnAtATime

\* Steps that touch neither the mark's owner nor what is over, nor take a request
\* back, nor start a turn.
LEMMA QuietGate ==
  ASSUME GateInv, TypeInv', mark'.owner = mark.owner, UNCHANGED <<lost, released>>,
         \A q \in Request : Unclaimed(q)' => Unclaimed(q),
         \A s \in Slot : slot'[s] \in {slot[s], NoOwner}
  PROVE  GateInv'
<1>1. ClaimedOnce'  BY DEF GateInv, ClaimedOnce, Over
<1>2. MarkIsCurrent'  BY DEF GateInv, MarkIsCurrent, Over
<1>3. OneTurnAtATime'  BY DEF GateInv, OneTurnAtATime
<1> QED BY <1>1, <1>2, <1>3 DEF GateInv

\* The mark is cleared, and its owner, if it had one, is over.
LEMMA ClearedGate ==
  ASSUME GateInv, TypeInv', mark' = NoMark, mark.owner # NoOwner => mark.owner \in Over',
         Over \subseteq Over', Over' \subseteq Over \cup {mark.owner},
         \A q \in Request : Unclaimed(q)' => Unclaimed(q),
         \A s \in Slot : slot'[s] \in {slot[s], NoOwner}
  PROVE  GateInv'
<1>1. Over' \subseteq Request  BY DEF Over, TypeInv, GateTypeOK
<1>2. mark'.owner = NoOwner  BY DEF NoMark
<1>3. ClaimedOnce'  BY <1>2, OwnerAssumption DEF GateInv, ClaimedOnce
<1>4. MarkIsCurrent'  BY <1>1, <1>2, OwnerAssumption DEF MarkIsCurrent
<1>5. OneTurnAtATime'  BY DEF GateInv, OneTurnAtATime, Over
<1> QED BY <1>3, <1>4, <1>5 DEF GateInv

\* A release ends the request it is made for, which has been claimed.
LEMMA ReleaseGate ==
  ASSUME GateInv, TypeInv', NEW q \in Request, ReleaseBusy(q), UNCHANGED lost, ~Unclaimed(q),
         \A p \in Request : Unclaimed(p)' => Unclaimed(p),
         \A s \in Slot : slot'[s] \in {slot[s], NoOwner}
  PROVE  GateInv'
<1>1. CASE mark.owner = q
  BY <1>1, ClearedGate DEF ReleaseBusy, Over
<1>2. CASE mark.owner # q
  <2>1. mark' = mark /\ Over' = Over \cup {q}  BY <1>2 DEF ReleaseBusy, Over
  <2>2. ClaimedOnce'  BY <2>1 DEF GateInv, ClaimedOnce
  <2>3. MarkIsCurrent'  BY <1>2, <2>1 DEF GateInv, MarkIsCurrent
  <2>4. OneTurnAtATime'  BY <2>1 DEF GateInv, OneTurnAtATime, Over
  <2> QED BY <2>2, <2>3, <2>4 DEF GateInv
<1> QED BY <1>1, <1>2

\* A claim ends whoever had the mark, and was not over before.
LEMMA ClaimGate ==
  ASSUME GateInv, TypeInv', NEW q \in Request, Unclaimed(q), LoseMark, UNCHANGED <<released, slot>>,
         mark' = [owner |-> q, age |-> "young", notice |-> FALSE],
         \A p \in Request : Unclaimed(p)' => Unclaimed(p) /\ p # q
  PROVE  GateInv'
<1>1. mark'.owner = q  OBVIOUS
<1>2. Over' = IF Held THEN Over \cup {mark.owner} ELSE Over  BY DEF LoseMark, Over
<1>3. mark.owner # q /\ q \notin Over  BY DEF GateInv, ClaimedOnce
<1>4. ClaimedOnce'  BY <1>1, <1>2 DEF GateInv, ClaimedOnce
<1>5. MarkIsCurrent'  BY <1>1, <1>2, <1>3 DEF MarkIsCurrent
<1>6. OneTurnAtATime'
  <2> SUFFICES ASSUME NEW s \in Slot, slot[s] # NoOwner PROVE slot[s] \in Over'
    BY DEF OneTurnAtATime, Over
  <2>1. mark.owner = slot[s] \/ slot[s] \in Over  BY DEF GateInv, OneTurnAtATime, Over
  <2> QED BY <1>2, <2>1 DEF Held
<1> QED BY <1>4, <1>5, <1>6 DEF GateInv

\* Requests only move away from the claim.
LEMMA GoesOn ==
  ASSUME TypeInv, NEW q \in Request, NEW p \in Pc, Go(q, p),
         p \in {"new", "notify", "marking", "claiming"} => Unclaimed(q)
  PROVE  \A r \in Request : Unclaimed(r)' => Unclaimed(r)
BY DEF TypeInv, GateTypeOK, Go, Unclaimed, Pc, RequestState

LEMMA GateStep == ASSUME GateInv, TypeInv', GateNext PROVE GateInv'
<1> USE DEF GateInv
<1>1. ASSUME NEW q \in Request, Webhook(q) PROVE GateInv'
  <2> USE DEF At
  <2>1. CASE RejectIfBusy(q)
    <3>1. \A r \in Request : Unclaimed(r)' => Unclaimed(r)
      BY <2>1 DEF TypeInv, GateTypeOK, RejectIfBusy, Go, Unclaimed
    <3> QED BY <2>1, <3>1, QuietGate DEF RejectIfBusy
  <2>2. CASE Admit(q)
    <3>1. \A r \in Request : Unclaimed(r)' => Unclaimed(r)  BY <2>2, GoesOn DEF Admit, Unclaimed, Pc
    <3> QED BY <2>2, <3>1, QuietGate DEF Admit
  <2>3. CASE SendNotice(q)
    <3>1. \A r \in Request : Unclaimed(r)' => Unclaimed(r)  BY <2>3, GoesOn DEF SendNotice, Unclaimed, Pc
    <3> QED BY <2>3, <3>1, QuietGate DEF SendNotice
  <2>4. CASE MarkNoticeSent(q)
    <3>1. \A r \in Request : Unclaimed(r)' => Unclaimed(r)  BY <2>4, GoesOn DEF MarkNoticeSent, Unclaimed, Pc
    <3>2. mark'.owner = mark.owner  BY <2>4 DEF MarkNoticeSent, TypeInv, GateTypeOK, Mark
    <3> QED BY <2>4, <3>1, <3>2, QuietGate DEF MarkNoticeSent
  <2>5. CASE ClaimBusy(q)
    <3>1. Unclaimed(q)  BY <2>5 DEF ClaimBusy, Unclaimed
    <3>2. CASE Go(q, "claimed") /\ LoseMark /\ mark' = [owner |-> q, age |-> "young", notice |-> FALSE]
      <4>1. \A r \in Request : Unclaimed(r)' => Unclaimed(r) /\ r # q
        BY <3>2 DEF Go, Unclaimed, TypeInv, GateTypeOK, RequestState
      <4> QED BY <2>5, <3>1, <3>2, <4>1, ClaimGate DEF ClaimBusy
    <3>3. CASE Go(q, "dropped") /\ UNCHANGED <<mark, lost>>
      <4>1. \A r \in Request : Unclaimed(r)' => Unclaimed(r)  BY <3>3, GoesOn DEF Pc
      <4> QED BY <2>5, <3>3, <4>1, QuietGate DEF ClaimBusy
    <3> QED BY <2>5, <3>2, <3>3 DEF ClaimBusy
  <2>6. CASE EnqueueJob(q)
    <3>1. \A r \in Request : Unclaimed(r)' => Unclaimed(r)  BY <2>6, GoesOn DEF EnqueueJob, Pc
    <3> QED BY <2>6, <3>1, QuietGate DEF EnqueueJob
  <2>7. CASE GiveUp(q)
    <3>1. \A r \in Request : Unclaimed(r)' => Unclaimed(r)  BY <2>7, GoesOn DEF GiveUp, Pc
    <3>2. ~Unclaimed(q)  BY <2>7 DEF GiveUp, Unclaimed
    <3> QED BY <2>7, <3>1, <3>2, ReleaseGate DEF GiveUp
  <2>8. CASE CutRequest(q)
    <3>1. \A r \in Request : Unclaimed(r)' => Unclaimed(r)  BY <2>8, GoesOn DEF CutRequest, Pc
    <3> QED BY <2>8, <3>1, QuietGate DEF CutRequest
  <2> QED BY <1>1, <2>1, <2>2, <2>3, <2>4, <2>5, <2>6, <2>7, <2>8 DEF Webhook
<1>2. ASSUME UNCHANGED request PROVE \A r \in Request : Unclaimed(r)' => Unclaimed(r)
  BY <1>2 DEF Unclaimed
<1>3. ASSUME NEW s \in Slot, NEW q \in Request, VerifyBusyOwner(s, q) PROVE GateInv'
  <2>1. slot' = [slot EXCEPT ![s] = q] /\ mark.owner = q  BY <1>3 DEF VerifyBusyOwner
  <2>2. OneTurnAtATime'  BY <1>3, <2>1 DEF VerifyBusyOwner, OneTurnAtATime, TypeInv, GateTypeOK
  <2>3. ClaimedOnce' /\ MarkIsCurrent'  BY <1>3 DEF VerifyBusyOwner, ClaimedOnce, MarkIsCurrent, Over, Unclaimed
  <2> QED BY <2>2, <2>3
<1>4. ASSUME NEW s \in Slot, FinishTurn(s) PROVE GateInv'
  <2>1. slot[s] \in Request  BY <1>4 DEF FinishTurn, TypeInv, GateTypeOK, Owner
  <2>2. ~Unclaimed(slot[s])  BY <1>4, <2>1 DEF FinishTurn, OneTurnAtATime, ClaimedOnce, Over
  <2>3. \A v \in Slot : slot'[v] \in {slot[v], NoOwner}  BY <1>4 DEF FinishTurn, TypeInv, GateTypeOK
  <2> QED BY <1>2, <1>4, <2>1, <2>2, <2>3, ReleaseGate DEF FinishTurn
<1>5. ASSUME NEW s \in Slot, CutTurn(s) PROVE GateInv'
  <2>1. \A v \in Slot : slot'[v] \in {slot[v], NoOwner}  BY <1>5 DEF CutTurn, TypeInv, GateTypeOK
  <2> QED BY <1>2, <1>5, <2>1, QuietGate DEF CutTurn
<1>6. CASE MarkAges
  <2>1. mark'.owner = mark.owner  BY <1>6 DEF MarkAges, TypeInv, GateTypeOK, Mark
  <2> QED BY <1>2, <1>6, <2>1, QuietGate DEF MarkAges
<1>7. CASE ForceClearBusy
  BY <1>2, <1>7, ClearedGate DEF ForceClearBusy, LoseMark, Held, Over
<1>8. CASE DeleteSender
  BY <1>2, <1>8, ClearedGate DEF DeleteSender, LoseMark, Held, Over
<1>9. CASE CreateRow  BY <1>2, <1>9, QuietGate DEF CreateRow
<1> QED BY <1>1, <1>3, <1>4, <1>5, <1>6, <1>7, <1>8, <1>9 DEF GateNext, Job

LEMMA GateInvariant == GateSpec => []GateInv
<1>1. GateInit /\ TypeInv => GateInv
  BY OwnerAssumption DEF GateInit, GateInv, ClaimedOnce, MarkIsCurrent, OneTurnAtATime, Over, NoMark
<1>2. GateInv /\ TypeInv' /\ [GateNext]_gateVars => GateInv'
  <2>1. ASSUME GateInv, TypeInv', UNCHANGED gateVars PROVE GateInv'
    BY <2>1 DEF gateVars, GateInv, ClaimedOnce, MarkIsCurrent, OneTurnAtATime, Over, Unclaimed
  <2> QED BY <2>1, GateStep
<1> QED BY <1>1, <1>2, TypeInvariant, PTL DEF GateSpec

\* However many messages, slots, retries and overlapping executions there are: slots
\* work on the request that has the mark, or on one whose mark is lost or released.
THEOREM GateIsExclusive == GateSpec => []OneTurnAtATime
<1>1. GateInv => OneTurnAtATime  BY DEF GateInv
<1> QED BY <1>1, GateInvariant, PTL

\* And a request that lost or released its mark is never worked on again.
THEOREM GateStaysShut == GateSpec => OverIsOver
<1> DEFINE StartsCurrent == \A s \in Slot : slot'[s] # slot[s] /\ slot'[s] # NoOwner
                                             => slot'[s] \notin lost \cup released
<1>1. ASSUME GateInv, GateNext PROVE StartsCurrent
  <2>1. ASSUME NEW v \in Slot, NEW q \in Request, VerifyBusyOwner(v, q) PROVE StartsCurrent
    BY <1>1, <2>1 DEF VerifyBusyOwner, GateInv, MarkIsCurrent, Over, TypeInv, GateTypeOK
  <2>2. ASSUME NEW v \in Slot, FinishTurn(v) \/ CutTurn(v) PROVE StartsCurrent
    BY <1>1, <2>2 DEF FinishTurn, CutTurn, GateInv, TypeInv, GateTypeOK
  <2>3. ASSUME UNCHANGED slot PROVE StartsCurrent  BY <2>3
  <2>4. ASSUME NEW q \in Request, Webhook(q) PROVE UNCHANGED slot
    BY <2>4 DEF Webhook, RejectIfBusy, Admit, SendNotice, MarkNoticeSent, ClaimBusy, EnqueueJob,
       GiveUp, CutRequest
  <2>5. ASSUME MarkAges \/ ForceClearBusy \/ DeleteSender \/ CreateRow PROVE UNCHANGED slot
    BY <2>5 DEF MarkAges, ForceClearBusy, DeleteSender, CreateRow
  <2> QED BY <1>1, <2>1, <2>2, <2>3, <2>4, <2>5 DEF GateNext, Job
<1>2. GateInv /\ [GateNext]_gateVars => [StartsCurrent]_gateVars  BY <1>1
<1> QED BY <1>2, GateInvariant, PTL DEF GateSpec, OverIsOver

-----------------------------------------------------------------------------
(* What the sender is told *)

\* One rejection at a time tells about o, told counts it once, and when it is done
\* the row says so for as long as o has the mark.
TellsOnce(o) ==
  /\ told[o] <= 1
  /\ \A p, q \in Telling(o) : p = q
  /\ \A p \in Telling(o) : At(p, "notify") => told[o] = 0
  /\ mark.owner = o /\ told[o] > 0 => mark.notice \/ Telling(o) # {}

\* Nobody is told about a request that has not been claimed.
ToldOfClaimed == \A o \in Request : told[o] > 0 \/ Telling(o) # {} => ~Unclaimed(o)

MarkingHasTold == \A q \in Request : At(q, "marking") => told[request[q].about] > 0

TellInv == /\ GateInv
           /\ \A o \in Request \ excused : TellsOnce(o)
           /\ ToldOfClaimed
           /\ MarkingHasTold
           /\ NoticeWasSent

\* Steps that tell nobody, and leave the mark's notice alone or clear the mark.
LEMMA QuietTell ==
  ASSUME TellInv, GateInv', UNCHANGED <<told, excused>>,
         \A o \in Request : Telling(o)' = Telling(o),
         \A q \in Request : At(q, "notify")' = At(q, "notify"),
         \A q \in Request : At(q, "marking")' => At(q, "marking") /\ request'[q].about = request[q].about,
         \A q \in Request : Unclaimed(q)' => Unclaimed(q),
         \/ mark'.owner = mark.owner /\ mark'.notice = mark.notice
         \/ ~mark'.notice /\ (mark'.owner = NoOwner \/ told[mark'.owner] = 0)
  PROVE  TellInv'
<1>0. told \in [Request -> Nat]  BY DEF TellInv, GateInv, TypeInv, GateTypeOK
<1>1. ASSUME NEW o \in Request \ excused PROVE TellsOnce(o)'
  <2>1. TellsOnce(o) /\ Telling(o)' = Telling(o)  BY DEF TellInv
  <2>2. Telling(o) \subseteq Request  BY DEF Telling
  <2>3. mark'.owner = o => mark'.owner # NoOwner  BY OwnerAssumption
  <2>4. told'[o] <= 1 /\ (\A p, q \in Telling(o)' : p = q)  BY <2>1 DEF TellsOnce
  <2>5. \A p \in Telling(o)' : At(p, "notify")' => told'[o] = 0  BY <2>1, <2>2 DEF TellsOnce
  <2>6. mark'.owner = o /\ told'[o] > 0 => mark'.notice \/ Telling(o)' # {}
    BY <1>0, <2>1, <2>3 DEF TellsOnce
  <2> QED BY <2>4, <2>5, <2>6 DEF TellsOnce
<1>2. ToldOfClaimed'  BY DEF TellInv, ToldOfClaimed
<1>3. MarkingHasTold'  BY DEF TellInv, MarkingHasTold
<1>4. NoticeWasSent'  BY DEF TellInv, NoticeWasSent, Held
<1> QED BY <1>1, <1>2, <1>3, <1>4 DEF TellInv

\* A request that moves between other places tells nobody.
LEMMA GoTellsNobody ==
  ASSUME TypeInv, NEW q \in Request, NEW p \in Pc, Go(q, p), p \notin {"notify", "marking"},
         request[q].pc \notin {"notify", "marking"}
  PROVE  /\ \A o \in Request : Telling(o)' = Telling(o)
         /\ \A r \in Request : At(r, "notify")' = At(r, "notify")
         /\ \A r \in Request : At(r, "marking")' => At(r, "marking") /\ request'[r].about = request[r].about
<1>1. \A r \in Request : r # q => request'[r] = request[r]  BY DEF Go, TypeInv, GateTypeOK
<1>2. request'[q].pc = p /\ request'[q].about = request[q].about
  BY DEF Go, TypeInv, GateTypeOK, RequestState
<1> QED BY <1>1, <1>2 DEF Telling, At

\* A request that stops telling is the only one not telling any more.
LEMMA StopsTelling ==
  ASSUME TypeInv, NEW q \in Request, Go(q, "dropped")
  PROVE  /\ \A o \in Request : Telling(o)' = Telling(o) \ {q}
         /\ \A r \in Request : At(r, "notify")' => At(r, "notify")
         /\ \A r \in Request : At(r, "marking")' => At(r, "marking") /\ request'[r].about = request[r].about
<1>1. \A r \in Request : r # q => request'[r] = request[r]  BY DEF Go, TypeInv, GateTypeOK
<1>2. request'[q].pc = "dropped"  BY DEF Go, TypeInv, GateTypeOK, RequestState
<1> QED BY <1>1, <1>2 DEF Telling, At

LEMMA RejectTells == ASSUME TellInv, GateInv', NEW q \in Request, RejectIfBusy(q) PROVE TellInv'
<1> USE DEF At
<1>1. TypeInv /\ request[q].pc = "new"  BY DEF TellInv, GateInv, RejectIfBusy
<1>2. CASE Go(q, "dropped") /\ UNCHANGED excused
  <2>1. \A r \in Request : Unclaimed(r)' => Unclaimed(r)  BY <1>1, <1>2, GoesOn DEF Pc
  <2> QED BY <1>1, <1>2, <2>1, GoTellsNobody, QuietTell DEF RejectIfBusy, Pc
<1>3. CASE ~mark.notice /\ request' = [request EXCEPT ![q] = [pc |-> "notify", about |-> mark.owner]]
  <2> DEFINE o0 == mark.owner
  <2>1. o0 \in Request  BY DEF RejectIfBusy, MayBeLive, Held, TellInv, GateInv, TypeInv, GateTypeOK, Mark, Owner
  <2>2. ~Unclaimed(o0)  BY <2>1 DEF TellInv, GateInv, ClaimedOnce
  <2>3. \A r \in Request : IF r = q THEN request'[r] = [pc |-> "notify", about |-> o0]
                                    ELSE request'[r] = request[r]
    BY <1>3 DEF TellInv, GateInv, TypeInv, GateTypeOK
  <2>4. \A o \in Request : Telling(o)' = IF o = o0 THEN Telling(o) \cup {q} ELSE Telling(o)
    BY <1>1, <2>3 DEF Telling
  <2>5. UNCHANGED <<mark, told>>  BY DEF RejectIfBusy
  <2>6. excused' = IF Telling(o0) = {} THEN excused ELSE excused \cup {o0}  BY <1>3 DEF RejectIfBusy, Go
  <2>7. ASSUME NEW o \in Request \ excused' PROVE TellsOnce(o)'
    <3>1. TellsOnce(o)  BY <2>6 DEF TellInv
    <3>2. CASE o # o0
      BY <2>3, <2>4, <2>5, <3>1, <3>2, <1>1 DEF TellsOnce, Telling
    <3>3. CASE o = o0
      <4>1. Telling(o0) = {}  BY <2>6, <3>3
      <4>2. told[o0] = 0
        BY <1>3, <3>1, <3>3, <4>1, <2>1 DEF TellsOnce, TellInv, GateInv, TypeInv, GateTypeOK
      <4>3. Telling(o)' = {q}  BY <2>4, <3>3, <4>1
      <4> QED BY <2>5, <3>3, <4>2, <4>3 DEF TellsOnce
    <3> QED BY <3>2, <3>3
  <2>8. ToldOfClaimed'  BY <1>1, <2>2, <2>3, <2>4, <2>5 DEF TellInv, ToldOfClaimed, Unclaimed
  <2>9. MarkingHasTold'  BY <2>3, <2>5 DEF TellInv, MarkingHasTold
  <2>10. NoticeWasSent'  BY <2>5 DEF TellInv, NoticeWasSent, Held
  <2> QED BY <2>7, <2>8, <2>9, <2>10 DEF TellInv
<1> QED BY <1>2, <1>3 DEF RejectIfBusy

LEMMA SendTells == ASSUME TellInv, GateInv', NEW q \in Request, SendNotice(q) PROVE TellInv'
<1> USE DEF At
<1> DEFINE o0 == request[q].about
<1>1. TypeInv /\ request[q].pc = "notify" /\ told \in [Request -> Nat]
  BY DEF TellInv, GateInv, SendNotice, TypeInv, GateTypeOK
<1>2. o0 \in Request  BY <1>1 DEF TypeInv, TellersKnow
<1>3. told' = [told EXCEPT ![o0] = @ + 1] /\ UNCHANGED <<mark, excused>>  BY DEF SendNotice
<1>4. \A r \in Request : IF r = q THEN request'[r].pc = "marking" /\ request'[r].about = o0
                                  ELSE request'[r] = request[r]
  BY <1>1 DEF SendNotice, Go, TypeInv, GateTypeOK, RequestState
<1>5. \A o \in Request : Telling(o)' = Telling(o)  BY <1>1, <1>4 DEF Telling
<1>6. q \in Telling(o0)  BY <1>1 DEF Telling
<1>7. ASSUME NEW o \in Request \ excused PROVE TellsOnce(o)'
  <2>1. TellsOnce(o)  BY DEF TellInv
  <2>2. CASE o # o0
    <3>1. told'[o] = told[o]  BY <1>1, <1>3, <2>2
    <3>2. q \notin Telling(o)  BY <2>2 DEF Telling
    <3>3. \A r \in Telling(o) : r \in Request /\ r # q  BY <3>2 DEF Telling
    <3>4. \A r \in Telling(o)' : At(r, "notify")' => told'[o] = 0
      BY <1>4, <1>5, <2>1, <3>1, <3>3 DEF TellsOnce
    <3> QED BY <1>3, <1>5, <2>1, <3>1, <3>4 DEF TellsOnce
  <2>3. CASE o = o0
    <3>1. told[o] = 0 /\ \A p \in Telling(o) : p = q  BY <1>1, <1>6, <2>1, <2>3 DEF TellsOnce
    <3>2. told'[o] = 1  BY <1>1, <1>2, <1>3, <2>3, <3>1
    <3>3. \A p \in Telling(o)' : ~At(p, "notify")'  BY <1>4, <1>5, <3>1
    <3> QED BY <1>5, <1>6, <2>1, <2>3, <3>2, <3>3 DEF TellsOnce
  <2> QED BY <2>2, <2>3
<1>8. ToldOfClaimed'
  <2>1. \A o \in Request : ~Unclaimed(o) => ~Unclaimed(o)'  BY <1>1, <1>4 DEF Unclaimed
  <2>2. ~Unclaimed(o0)  BY <1>2, <1>6 DEF TellInv, ToldOfClaimed
  <2> QED BY <1>1, <1>3, <1>5, <2>1, <2>2 DEF TellInv, ToldOfClaimed
<1>9. MarkingHasTold'
  <2>1. ASSUME NEW r \in Request, At(r, "marking")' PROVE told'[request'[r].about] > 0
    <3>1. CASE r = q  BY <1>1, <1>2, <1>3, <1>4, <3>1
    <3>2. CASE r # q
      <4>1. request'[r] = request[r] /\ request[r].about \in Request /\ told[request[r].about] > 0
        BY <1>1, <1>4, <2>1, <3>2 DEF TellInv, MarkingHasTold, TypeInv, TellersKnow
      <4> QED BY <1>1, <1>2, <1>3, <4>1
    <3> QED BY <3>1, <3>2
  <2> QED BY <2>1 DEF MarkingHasTold
<1>10. NoticeWasSent'
  <2>1. mark.owner \in Request => told'[mark.owner] >= told[mark.owner]  BY <1>1, <1>2, <1>3
  <2>2. mark.owner \in Request \cup {NoOwner}  BY <1>1 DEF TypeInv, GateTypeOK, Mark, Owner
  <2>3. told[mark.owner] > 0 /\ Held => told'[mark.owner] > 0  BY <1>1, <1>2, <1>3, <2>2 DEF Held
  <2> QED BY <1>3, <2>3 DEF TellInv, NoticeWasSent, Held
<1> QED BY <1>3, <1>7, <1>8, <1>9, <1>10 DEF TellInv

LEMMA MarkTells == ASSUME TellInv, GateInv', NEW q \in Request, MarkNoticeSent(q) PROVE TellInv'
<1> USE DEF At
<1> DEFINE o0 == request[q].about
<1>1. TypeInv /\ request[q].pc = "marking" /\ told[o0] > 0
  BY DEF TellInv, GateInv, MarkNoticeSent, MarkingHasTold
<1>2. o0 \in Request  BY <1>1 DEF TypeInv, TellersKnow
<1>3. /\ \A o \in Request : Telling(o)' = Telling(o) \ {q}
      /\ \A r \in Request : At(r, "notify")' => At(r, "notify")
      /\ \A r \in Request : At(r, "marking")' => At(r, "marking") /\ request'[r].about = request[r].about
  BY <1>1, StopsTelling DEF MarkNoticeSent
<1>4. UNCHANGED <<told, excused>>  BY DEF MarkNoticeSent
<1>5. mark'.owner = mark.owner /\ (mark'.notice <=> mark.notice \/ mark.owner = o0)
  BY <1>1 DEF MarkNoticeSent, TypeInv, GateTypeOK, Mark
<1>6. ASSUME NEW o \in Request \ excused PROVE TellsOnce(o)'
  <2>1. TellsOnce(o)  BY DEF TellInv
  <2>2. \A p \in Telling(o)' : p \in Telling(o) /\ p \in Request  BY <1>3 DEF Telling
  <2>3. told'[o] <= 1 /\ (\A p, r \in Telling(o)' : p = r)  BY <1>4, <2>1, <2>2 DEF TellsOnce
  <2>4. \A p \in Telling(o)' : At(p, "notify")' => told'[o] = 0  BY <1>3, <1>4, <2>1, <2>2 DEF TellsOnce
  <2>5. q \in Telling(o) => o = o0  BY DEF Telling
  <2>6. mark'.owner = o /\ told'[o] > 0 => mark'.notice \/ Telling(o)' # {}
    BY <1>3, <1>4, <1>5, <2>1, <2>5 DEF TellsOnce
  <2> QED BY <2>3, <2>4, <2>6 DEF TellsOnce
<1>7. ToldOfClaimed'
  <2>1. \A r \in Request : Unclaimed(r)' => Unclaimed(r)  BY <1>1, GoesOn DEF MarkNoticeSent, Pc
  <2> QED BY <1>3, <1>4, <2>1 DEF TellInv, ToldOfClaimed
<1>8. MarkingHasTold'  BY <1>3, <1>4 DEF TellInv, MarkingHasTold
<1>9. NoticeWasSent'
  BY <1>1, <1>2, <1>4, <1>5, OwnerAssumption DEF TellInv, NoticeWasSent, Held
<1> QED BY <1>4, <1>6, <1>7, <1>8, <1>9 DEF TellInv

LEMMA CutTells == ASSUME TellInv, GateInv', NEW q \in Request, CutRequest(q) PROVE TellInv'
<1> USE DEF At
<1> DEFINE o0 == request[q].about
<1>1. TypeInv  BY DEF TellInv, GateInv
<1>2. /\ \A o \in Request : Telling(o)' = Telling(o) \ {q}
      /\ \A r \in Request : At(r, "notify")' => At(r, "notify")
      /\ \A r \in Request : At(r, "marking")' => At(r, "marking") /\ request'[r].about = request[r].about
  BY <1>1, StopsTelling DEF CutRequest
<1>3. UNCHANGED <<told, mark>>  BY DEF CutRequest
<1>4. excused' = IF request[q].pc = "marking" THEN excused \cup {o0} ELSE excused  BY DEF CutRequest
<1>5. ASSUME NEW o \in Request \ excused' PROVE TellsOnce(o)'
  <2>1. TellsOnce(o)  BY <1>4 DEF TellInv
  <2>2. \A p \in Telling(o)' : p \in Telling(o) /\ p \in Request  BY <1>2 DEF Telling
  <2>3. told'[o] <= 1 /\ (\A p, r \in Telling(o)' : p = r)  BY <1>3, <2>1, <2>2 DEF TellsOnce
  <2>4. \A p \in Telling(o)' : At(p, "notify")' => told'[o] = 0  BY <1>2, <1>3, <2>1, <2>2 DEF TellsOnce
  <2>5. q \in Telling(o) => told[o] = 0
    <3>1. q \in Telling(o) => o = o0 /\ request[q].pc \in {"notify", "marking"}  BY DEF Telling
    <3> QED BY <1>4, <2>1, <3>1 DEF TellsOnce
  <2>6. told[o] \in Nat  BY <1>1 DEF TypeInv, GateTypeOK
  <2>7. mark'.owner = o /\ told'[o] > 0 => mark'.notice \/ Telling(o)' # {}
    BY <1>2, <1>3, <2>1, <2>5, <2>6 DEF TellsOnce
  <2> QED BY <2>3, <2>4, <2>7 DEF TellsOnce
<1>6. ToldOfClaimed'
  <2>1. \A r \in Request : Unclaimed(r)' => Unclaimed(r)  BY <1>1, GoesOn DEF CutRequest, Pc
  <2> QED BY <1>2, <1>3, <2>1 DEF TellInv, ToldOfClaimed
<1>7. MarkingHasTold'  BY <1>2, <1>3 DEF TellInv, MarkingHasTold
<1>8. NoticeWasSent'  BY <1>3 DEF TellInv, NoticeWasSent, Held
<1> QED BY <1>5, <1>6, <1>7, <1>8 DEF TellInv

LEMMA TellStep == ASSUME TellInv, GateInv', GateNext PROVE TellInv'
<1>1. TypeInv  BY DEF TellInv, GateInv
<1>2. ASSUME NEW q \in Request, NEW p \in Pc, Go(q, p), p \notin {"new", "notify", "marking", "claiming"},
             request[q].pc \notin {"notify", "marking"}, UNCHANGED <<told, excused>>,
             \/ mark'.owner = mark.owner /\ mark'.notice = mark.notice
             \/ ~mark'.notice /\ (mark'.owner = NoOwner \/ told[mark'.owner] = 0)
      PROVE  TellInv'
  BY <1>1, <1>2, GoTellsNobody, GoesOn, QuietTell
<1>3. ASSUME UNCHANGED <<request, told, excused>>,
             \/ mark'.owner = mark.owner /\ mark'.notice = mark.notice
             \/ ~mark'.notice /\ (mark'.owner = NoOwner \/ told[mark'.owner] = 0)
      PROVE  TellInv'
  BY <1>3, QuietTell DEF Telling, At, Unclaimed
<1>4. ~NoMark.notice /\ NoMark.owner = NoOwner  BY DEF NoMark
<1>5. ASSUME NEW q \in Request, Webhook(q) PROVE TellInv'
  <2> USE DEF At
  <2>1. CASE Admit(q)
    <3>1. \A r \in Request : Unclaimed(r)' => Unclaimed(r)  BY <1>1, <2>1, GoesOn DEF Admit, Pc, Unclaimed
    <3> QED BY <1>1, <2>1, <3>1, GoTellsNobody, QuietTell DEF Admit, Pc
  <2>2. CASE ClaimBusy(q)
    <3>1. told[q] = 0
      <4>1. Unclaimed(q)  BY <2>2 DEF ClaimBusy, Unclaimed
      <4> QED BY <1>1, <4>1 DEF TellInv, ToldOfClaimed, TypeInv, GateTypeOK
    <3>2. CASE mark' = [owner |-> q, age |-> "young", notice |-> FALSE] /\ Go(q, "claimed")
      BY <1>2, <2>2, <3>1, <3>2 DEF ClaimBusy, Pc
    <3>3. CASE Go(q, "dropped") /\ UNCHANGED mark  BY <1>2, <2>2, <3>3 DEF ClaimBusy, Pc
    <3> QED BY <2>2, <3>2, <3>3 DEF ClaimBusy
  <2>3. CASE EnqueueJob(q)  BY <1>2, <2>3 DEF EnqueueJob, Pc
  <2>4. CASE GiveUp(q)  BY <1>2, <1>4, <2>4 DEF GiveUp, ReleaseBusy, Pc
  <2> QED BY <1>5, <2>1, <2>2, <2>3, <2>4, RejectTells, SendTells, MarkTells, CutTells DEF Webhook
<1>6. ASSUME NEW s \in Slot, Job(s) PROVE TellInv'
  <2>1. ASSUME NEW q \in Request, VerifyBusyOwner(s, q) PROVE TellInv'  BY <1>3, <2>1 DEF VerifyBusyOwner
  <2>2. CASE FinishTurn(s)  BY <1>3, <1>4, <2>2 DEF FinishTurn, ReleaseBusy
  <2>3. CASE CutTurn(s)  BY <1>3, <2>3 DEF CutTurn
  <2> QED BY <1>6, <2>1, <2>2, <2>3 DEF Job
<1>7. CASE MarkAges
  <2>1. mark'.owner = mark.owner /\ mark'.notice = mark.notice  BY <1>1, <1>7 DEF MarkAges, TypeInv, GateTypeOK, Mark
  <2> QED BY <1>3, <1>7, <2>1 DEF MarkAges
<1>8. CASE ForceClearBusy  BY <1>3, <1>4, <1>8 DEF ForceClearBusy
<1>9. CASE DeleteSender  BY <1>3, <1>4, <1>9 DEF DeleteSender
<1>10. CASE CreateRow  BY <1>3, <1>10 DEF CreateRow
<1> QED BY <1>5, <1>6, <1>7, <1>8, <1>9, <1>10 DEF GateNext

LEMMA TellInvariant == GateSpec => []TellInv
<1>1. GateInit /\ GateInv => TellInv
  <2> SUFFICES ASSUME GateInit, GateInv PROVE TellInv  OBVIOUS
  <2>1. \A o \in Request : told[o] = 0 /\ Telling(o) = {}  BY DEF GateInit, Telling
  <2>2. ~mark.notice  BY DEF GateInit, NoMark
  <2>3. MarkingHasTold  BY DEF GateInit, MarkingHasTold, At
  <2> QED BY <2>1, <2>2, <2>3 DEF TellInv, TellsOnce, ToldOfClaimed, NoticeWasSent
<1>2. TellInv /\ GateInv' /\ [GateNext]_gateVars => TellInv'
  <2>1. ASSUME TellInv, GateInv', UNCHANGED gateVars PROVE TellInv'
    BY <2>1, QuietTell DEF gateVars, Telling, At, Unclaimed
  <2> QED BY <2>1, TellStep
<1> QED BY <1>1, <1>2, GateInvariant, PTL DEF GateSpec

\* For any number of messages turned away: one notice for each request worked on,
\* but for overlaps and cuts, and a notice that was sent wherever the row says so.
THEOREM NoticesAreHonest == GateSpec => []NoticesAgree
<1>1. TellInv => NoticesAgree  BY DEF TellInv, TellsOnce, ToldOnce, NoticesAgree
<1> QED BY <1>1, TellInvariant, PTL
=============================================================================
