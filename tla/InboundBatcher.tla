--------------------------- MODULE InboundBatcher ---------------------------
(***************************************************************************)
(* The quiet-window batch of one sender in the web process                 *)
(* (app/services/inbound_batcher.py). Text messages that arrive close      *)
(* together are collected and handed to one turn. Every section under the  *)
(* batcher's lock is one action; a threading.Timer that has gone off and   *)
(* waits for the lock can no longer be cancelled, so timers of one batch   *)
(* may run against a later one.                                            *)
(*                                                                         *)
(* Clocks are ages that stop at the limit they are compared with.          *)
(***************************************************************************)
EXTENDS Naturals, Sequences

CONSTANTS
  Msg,                           \* inbound text messages
  Timer,                         \* threading.Timer objects; an idle one is reused
  NoTimer,                       \* batch.timer is None
  Quiet, MaxWait, MaxMessages    \* BATCH_QUIET_SECONDS, BATCH_MAX_WAIT_SECONDS, BATCH_MAX_MESSAGES

ASSUME TimerAssumption == NoTimer \notin Timer
ASSUME LimitAssumption == Quiet \in Nat /\ MaxWait \in Nat \ {0} /\ MaxMessages \in Nat \ {0}

VARIABLES
  batch,       \* the sender's entry of _batches
  timer,       \* [Timer -> TimerState]
  flushers,    \* threads that left enqueue's lock with flush_now set
  delivering,  \* batches whose on_flush callback has not returned
  handed,      \* [Msg -> Nat] how often a callback that succeeded got the message
  dropped      \* messages of a callback that raised, and cancelled ones

batchVars == <<batch, timer, flushers, delivering, handed, dropped>>

\* raised: on_first_message raised for the only message, so no timer was started.
Batch == [msgs : Seq(Msg), age : 0..MaxWait, quiet : 0..Quiet,
          timer : Timer \cup {NoTimer}, raised : BOOLEAN]
NoBatch == [msgs |-> <<>>, age |-> 0, quiet |-> 0, timer |-> NoTimer, raised |-> FALSE]

TimerState == [state : {"idle", "armed", "fired"}, left : 0..Quiet]
Idle == [state |-> "idle", left |-> 0]

BatcherTypeOK == /\ batch \in Batch
                 /\ timer \in [Timer -> TimerState]
                 /\ flushers \in Nat
                 /\ delivering \subseteq Seq(Msg)
                 /\ handed \in [Msg -> Nat]
                 /\ dropped \subseteq Msg

BatcherInit == /\ batch = NoBatch
               /\ timer = [t \in Timer |-> Idle]
               /\ flushers = 0
               /\ delivering = {}
               /\ handed = [m \in Msg |-> 0]
               /\ dropped = {}

-----------------------------------------------------------------------------
MsgsOf(s) == {s[i] : i \in 1..Len(s)}
Lower(a, b) == IF a < b THEN a ELSE b

\* timer.cancel() stops a timer that has not gone off.
Cancelled(b) == IF b.timer # NoTimer /\ timer[b.timer].state = "armed"
                  THEN [timer EXCEPT ![b.timer] = Idle] ELSE timer

\* What remains of the quiet window, or of the maximal wait if that is less.
Delay(b, late, quiet) == Lower(quiet, MaxWait - b.age - late)

\* There is one as long as Timer has an element for each enqueue: TLC stops if not.
NewTimer(ts) == CHOOSE t \in Timer : ts[t].state = "idle"

\* Slip: the old timer is cancelled after the new one was stored.
ArmThenCancel(b, ts, t, delay) ==
  /\ timer' = [ts EXCEPT ![t] = Idle]
  /\ batch' = [b EXCEPT !.timer = t]
  /\ UNCHANGED delivering

\* _schedule_timer_locked arms t.
ArmTimer(b, ts, t, delay) ==
  /\ timer' = [ts EXCEPT ![t] = [state |-> "armed", left |-> delay]]
  /\ batch' = [b EXCEPT !.timer = t]
  /\ UNCHANGED delivering

\* _schedule_timer_locked for the batch b, whose old timer is stopped in ts. The
\* clock is read again (late): if no delay is left the batch is popped at once.
Schedule(b, ts, quiet) ==
  \E late \in {0, 1} :
    IF b.age + late < MaxWait
      THEN LET t == NewTimer(ts)
           IN t \in Timer /\ ArmTimer(b, ts, t, Delay(b, late, quiet))
      ELSE /\ timer' = ts
           /\ batch' = NoBatch
           /\ delivering' = delivering \cup {b.msgs}

Full(b) == Len(b.msgs) >= MaxMessages \/ b.age >= MaxWait \/ Quiet = 0

\* enqueue appends the message; on_first_message runs under the lock and may raise.
Enqueue(m) ==
  LET b == [batch EXCEPT !.msgs = Append(@, m), !.quiet = 0, !.raised = FALSE]
  IN /\ \/ /\ batch.msgs = <<>>
           /\ batch' = [b EXCEPT !.raised = TRUE]
           /\ UNCHANGED <<timer, flushers, delivering>>
        \/ /\ Full(b)
           /\ batch' = b
           /\ flushers' = flushers + 1
           /\ UNCHANGED <<timer, delivering>>
        \/ /\ ~Full(b)
           /\ Schedule(b, Cancelled(b), Quiet)
           /\ UNCHANGED flushers
     /\ UNCHANGED <<handed, dropped>>

\* flush_now takes whatever batch is there when it gets the lock.
FlushNow ==
  /\ flushers > 0
  /\ flushers' = flushers - 1
  /\ timer' = Cancelled(batch)
  /\ batch' = NoBatch
  /\ delivering' = IF batch.msgs = <<>> THEN delivering ELSE delivering \cup {batch.msgs}
  /\ UNCHANGED <<handed, dropped>>

\* cancel_pending
CancelPending ==
  /\ batch.msgs # <<>>
  /\ timer' = Cancelled(batch)
  /\ batch' = NoBatch
  /\ dropped' = dropped \cup MsgsOf(batch.msgs)
  /\ UNCHANGED <<flushers, delivering, handed>>

\* The delay of a timer is over: its thread goes for the lock.
TimerGoesOff(t) ==
  /\ timer[t].state = "armed" /\ timer[t].left = 0
  /\ timer' = [timer EXCEPT ![t].state = "fired"]
  /\ UNCHANGED <<batch, flushers, delivering, handed, dropped>>

\* Slip: a timer that runs flushes without looking at the batch's clocks.
TimerFireAtOnce(t) ==
  /\ timer[t].state = "fired"
  /\ timer' = [timer EXCEPT ![t] = Idle]
  /\ batch' = NoBatch
  /\ delivering' = IF batch.msgs = <<>> THEN delivering ELSE delivering \cup {batch.msgs}
  /\ UNCHANGED <<flushers, handed, dropped>>

\* Slip: a timer that finds the batch not yet quiet leaves it to the next one.
TimerFireOnce(t) ==
  /\ timer[t].state = "fired"
  /\ timer' = [timer EXCEPT ![t] = Idle]
  /\ IF batch.quiet < Quiet /\ batch.age < MaxWait
       THEN batch' = [batch EXCEPT !.timer = NoTimer] /\ UNCHANGED delivering
       ELSE /\ batch' = NoBatch
            /\ delivering' = IF batch.msgs = <<>> THEN delivering ELSE delivering \cup {batch.msgs}
  /\ UNCHANGED <<flushers, handed, dropped>>

\* _timer_fire works on the batch it finds, which may not be the one that started
\* the timer, and forgets the timer the batch refers to without stopping it.
TimerFire(t) ==
  LET b  == [batch EXCEPT !.timer = NoTimer]
      ts == [timer EXCEPT ![t] = Idle]
  IN /\ timer[t].state = "fired"
     /\ \/ /\ batch.msgs = <<>>
           /\ timer' = ts
           /\ UNCHANGED <<batch, delivering>>
        \/ /\ batch.msgs # <<>>
           /\ batch.quiet < Quiet /\ batch.age < MaxWait
           /\ Schedule(b, ts, Quiet - batch.quiet)
        \/ /\ batch.msgs # <<>>
           /\ batch.quiet >= Quiet \/ batch.age >= MaxWait
           /\ timer' = ts
           /\ batch' = NoBatch
           /\ delivering' = delivering \cup {batch.msgs}
     /\ UNCHANGED <<flushers, handed, dropped>>

\* _invoke_flush: the callback takes the batch, or raises and the batch is gone.
InvokeFlush(s) ==
  /\ s \in delivering
  /\ delivering' = delivering \ {s}
  /\ \/ /\ handed' = [m \in Msg |-> handed[m] + (IF m \in MsgsOf(s) THEN 1 ELSE 0)]
        /\ UNCHANGED dropped
     \/ /\ dropped' = dropped \cup MsgsOf(s)
        /\ UNCHANGED handed
  /\ UNCHANGED <<batch, timer, flushers>>

\* Time passes.
Tick ==
  /\ batch' = IF batch.msgs = <<>> THEN batch
              ELSE [batch EXCEPT !.age = Lower(@ + 1, MaxWait), !.quiet = Lower(@ + 1, Quiet)]
  /\ timer' = [t \in Timer |-> IF timer[t].left > 0 THEN [timer[t] EXCEPT !.left = @ - 1] ELSE timer[t]]
  /\ UNCHANGED <<flushers, delivering, handed, dropped>>

\* The process dies: everything here is in its memory.
ProcessDies ==
  /\ batch' = NoBatch
  /\ timer' = [t \in Timer |-> Idle]
  /\ flushers' = 0
  /\ delivering' = {}
  /\ UNCHANGED <<handed, dropped>>

BatcherStep == \/ \E t \in Timer : TimerGoesOff(t) \/ TimerFire(t)
               \/ \E s \in delivering : InvokeFlush(s)
               \/ FlushNow \/ CancelPending \/ Tick

\* Threads get the lock, callbacks return and time passes; nobody has to cancel.
BatcherFairness == /\ \A t \in Timer : WF_batchVars(TimerGoesOff(t)) /\ WF_batchVars(TimerFire(t))
                   /\ WF_batchVars(FlushNow)
                   /\ WF_batchVars(\E s \in delivering : InvokeFlush(s))
                   /\ WF_batchVars(Tick)

-----------------------------------------------------------------------------
\* A collected message is never forgotten: while a batch waits, some timer is
\* still to run or some thread is about to flush. Timers are cancelled, orphaned
\* and run late, and yet one always remains, except for a batch whose only
\* enqueue raised in on_first_message.
PendingIsTimed ==
  batch.msgs # <<>> /\ ~batch.raised =>
    flushers > 0 \/ \E t \in Timer : timer[t].state # "idle"

\* A batch may pass MAX_MESSAGES, by threads that get the lock before the flush,
\* but each of them is about to flush it.
OverfullIsFlushed ==
  Len(batch.msgs) >= MaxMessages /\ ~batch.raised =>
    flushers > 0 /\ MaxMessages + flushers >= Len(batch.msgs)

\* Together: whatever is collected is on its way to a callback.
BatchIsOnItsWay == PendingIsTimed /\ OverfullIsFlushed

\* A timer, be it one of an earlier batch, flushes a batch only after the quiet
\* window or the maximal wait.
TimersWaitForQuiet ==
  [][\A t \in Timer : /\ timer[t].state = "fired" /\ timer'[t].state # "fired"
                      /\ batch.msgs \in delivering' \ delivering
                      => batch.quiet = Quiet \/ batch.age + 1 >= MaxWait]_batchVars
=============================================================================
