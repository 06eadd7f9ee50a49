------------------------------- MODULE Worker -------------------------------
(* The worker process (workers/runner.py): slots that poll the kinds of jobs   *)
(* in their fixed order, the reaper, the stop signal. One of the jobs is the   *)
(* chat turn of Progress; of the others it matters only whether one is due     *)
(* (JobQueue has their rows). A process that dies is started again.            *)
EXTENDS Progress, Sequences

CONSTANTS
  Slots,      \* WORKER_CONCURRENCY threads, if there is more than one
  Kinds,      \* _order_kinds_for_poll: the kinds in the order in which they are polled
  TurnKind,   \* the kind of the chat turn
  MaxFaults   \* deaths of the process

ASSUME WorkerAssumption == Slots # {} /\ Kinds # <<>> /\ MaxFaults \in Nat

Kind == {Kinds[i] : i \in DOMAIN Kinds}

VARIABLES
  stop,    \* _stop_flag
  main,    \* the thread of _run_concurrent_worker_loop; "serial" if there is but one slot
  slot,    \* where each slot is in its pass over the kinds
  queue,   \* kinds of which another job is due
  stale,   \* kinds of which a job's lease expired with the process that held it
  turn,    \* the row of the chat turn's job
  attempt, \* its attempt
  faults

workerVars == <<stop, main, slot, queue, stale, turn, attempt, faults>>
vars == <<progressVars, workerVars>>

FirstKind == [pc |-> "poll", k |-> 1, e |-> None]
NextKind(s) == [FirstKind EXCEPT !.k = slot[s].k + 1]
Ended == [FirstKind EXCEPT !.pc = "ended"]
Serial == main = "serial"
KindOf(s) == Kinds[slot[s].k]

(* ---- a slot's pass ---------------------------------------------------------- *)

Polling(s) == slot[s].pc = "poll" /\ slot[s].k <= Len(Kinds) /\ ~stop

ClaimTurn(s) ==
  /\ Polling(s) /\ KindOf(s) = TurnKind /\ turn = "due" /\ attempt < MaxAttempts
  /\ turn' = "running" /\ attempt' = attempt + 1
  /\ slot' = [slot EXCEPT ![s].pc = "busy", ![s].e = attempt + 1]
  /\ EnterRun(attempt + 1)
  /\ UNCHANGED <<live, recorded, told, lost, feedback, active, registryLock, late, stop, main, queue, stale, faults>>

ClaimOther(s) ==
  /\ Polling(s) /\ KindOf(s) \in queue
  /\ queue' = queue \ {KindOf(s)} /\ slot' = [slot EXCEPT ![s].pc = "busy"]
  /\ UNCHANGED <<progressVars, stop, main, stale, turn, attempt, faults>>

TurnIsClaimable(s) == KindOf(s) = TurnKind /\ turn = "due" /\ attempt < MaxAttempts

ClaimNothing(s) ==
  /\ Polling(s) /\ KindOf(s) \notin queue /\ ~TurnIsClaimable(s)
  /\ slot' = [slot EXCEPT ![s] = NextKind(s)]
  /\ UNCHANGED <<progressVars, stop, main, queue, stale, turn, attempt, faults>>

\* Slip: after work the slot begins again with the first kind.
BeginAgain(s) == FirstKind

\* The loop goes on to the next kind.
AfterWork(s) == NextKind(s)

\* The handler returned, or it failed and the job will be due again.
FinishOther(s) ==
  /\ slot[s].pc = "busy" /\ slot[s].e = None
  /\ queue' \in {queue, queue \cup {KindOf(s)}}
  /\ slot' = [slot EXCEPT ![s] = AfterWork(s)]
  /\ UNCHANGED <<progressVars, stop, main, stale, turn, attempt, faults>>

\* By id: also if the row is no longer this attempt's.
FinishTurn(s) ==
  /\ slot[s].pc = "busy" /\ slot[s].e # None /\ At(slot[s].e, "over")
  /\ turn' \in {"due", "settled"}
  /\ slot' = [slot EXCEPT ![s] = AfterWork(s)]
  /\ UNCHANGED <<progressVars, stop, main, queue, stale, attempt, faults>>

EndPass(s) ==
  /\ slot[s].pc = "poll" /\ (slot[s].k > Len(Kinds) \/ stop)
  /\ slot' = [slot EXCEPT ![s].pc = "pass"]
  /\ UNCHANGED <<progressVars, stop, main, queue, stale, turn, attempt, faults>>

NextPass(s) ==
  /\ slot[s].pc = "pass"
  /\ slot' = [slot EXCEPT ![s] = IF stop THEN Ended ELSE FirstKind]
  /\ UNCHANGED <<progressVars, stop, main, queue, stale, turn, attempt, faults>>

(* ---- the reaper, the signal, the process ------------------------------------ *)

\* In the serial loop after a pass, else in the main thread.
Reaping == IF Serial THEN \E s \in Slots : slot[s].pc = "pass" ELSE main = "watching"

\* An error of the database is caught in reclaim_stale_jobs: nothing has changed, and
\* the loop calls it again a minute later.
ReclaimStaleJobs ==
  /\ Reaping /\ (stale # {} \/ turn = "stale")
  /\ queue' = queue \cup stale /\ stale' = {}
  /\ turn' = IF turn = "stale" /\ attempt < MaxAttempts THEN "due" ELSE turn
  /\ UNCHANGED <<progressVars, stop, main, slot, attempt, faults>>

HandleSignal ==
  /\ ~stop /\ stop' = TRUE
  /\ UNCHANGED <<progressVars, main, slot, queue, stale, turn, attempt, faults>>

MainStops ==
  /\ main = "watching" /\ stop /\ main' = "waiting"
  /\ UNCHANGED <<progressVars, stop, slot, queue, stale, turn, attempt, faults>>

\* The jobs in hand keep their rows until the reaper finds them.
Dies ==
  /\ faults < MaxFaults /\ faults' = faults + 1 /\ CutRuns
  /\ stale' = stale \cup {KindOf(s) : s \in {t \in Slots : slot[t].pc = "busy" /\ slot[t].e = None}}
  /\ turn' = IF turn = "running" THEN "stale" ELSE turn
  /\ stop' = FALSE /\ main' = (IF Serial THEN main ELSE "watching")
  /\ slot' = [s \in Slots |-> IF Serial /\ slot[s].pc = "unused" THEN slot[s] ELSE FirstKind]
  /\ UNCHANGED <<queue, attempt>>

\* A turn that outlives its lease.
LeaseExpires ==
  /\ turn = "running" /\ turn' = "stale"
  /\ UNCHANGED <<progressVars, stop, main, slot, queue, stale, attempt, faults>>

Arrive(kind) ==
  /\ kind \notin queue /\ queue' = queue \cup {kind}
  /\ UNCHANGED <<progressVars, stop, main, slot, stale, turn, attempt, faults>>

(* ---- specification ------------------------------------------------------------ *)

Init ==
  /\ ProgressInit
  /\ stop = FALSE /\ queue = {} /\ stale = {} /\ turn \in {"due", "settled"} /\ attempt = 0 /\ faults = 0
  /\ \/ main = "watching" /\ slot = [s \in Slots |-> FirstKind]
     \/ /\ main = "serial"
        /\ \E one \in Slots :
             slot = [s \in Slots |-> IF s = one THEN FirstKind ELSE [FirstKind EXCEPT !.pc = "unused"]]

SlotStep(s) ==
  \/ ClaimTurn(s) \/ ClaimOther(s) \/ ClaimNothing(s)
  \/ FinishOther(s) \/ FinishTurn(s) \/ EndPass(s) \/ NextPass(s)

TurnStep(e) == (RunStep(e) \/ ThreadStep(e)) /\ UNCHANGED workerVars

Next ==
  \/ \E s \in Slots : SlotStep(s)
  \/ \E e \in Runs : TurnStep(e)
  \/ ReclaimStaleJobs \/ HandleSignal \/ MainStops
  \/ Dies \/ LeaseExpires
  \/ NewGeneration /\ UNCHANGED workerVars
  \/ \E kind \in Kind : Arrive(kind)

(* Threads run and handlers return. The reaper's minute is over again and      *)
(* again, in the serial loop not at every pass, and its statement does not     *)
(* fail every time. Nothing promises work, faults or a signal.                 *)
Fairness ==
  /\ \A s \in Slots : WF_vars(SlotStep(s))
  /\ \A e \in Runs : WF_vars(TurnStep(e))
  /\ SF_vars(ReclaimStaleJobs) /\ WF_vars(MainStops)

Spec == Init /\ [][Next]_vars /\ Fairness

(* ---- what must hold ------------------------------------------------------------ *)

(* A due job of any kind is claimed however much work the kinds before it have, *)
(* and a job that died with its process becomes due again, until a signal stops *)
(* the worker.                                                                  *)
NoKindStarves ==
  /\ \A kind \in Kind : kind \in queue ~> kind \notin queue \/ stop
  /\ stale # {} ~> stale = {} \/ stop

(* After the signal every slot finishes its job and ends, or the process dies.  *)
TheSignalStopsAll == stop ~> ~stop \/ \A s \in Slots : slot[s].pc \in {"ended", "unused"}

(* Both: nothing that is due waits for ever, and nothing outlasts the signal.   *)
WorkGoesOn == NoKindStarves /\ TheSignalStopsAll
=============================================================================
