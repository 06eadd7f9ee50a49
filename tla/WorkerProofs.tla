---------------------------- MODULE WorkerProofs ----------------------------
(* What jobs that are retried, overlap and are cut do to a customer: the        *)
(* support handoff and the progress of a chat turn, for any number of           *)
(* executions.                                                                  *)
EXTENDS Worker, SupportHandoff, FiniteSetTheorems, TLAPS

-----------------------------------------------------------------------------
(* The support handoff. *)

\* An execution that goes on, or finishes, is an execution.
LEMMA GoType ==
  ASSUME exec \in [Exec -> Execution], NEW e \in Exec, NEW p \in Pc, Go(e, p)
  PROVE  exec' \in [Exec -> Execution]
BY DEF Go, Execution

LEMMA FinishType ==
  ASSUME exec \in [Exec -> Execution], NEW e \in Exec, NEW s \in Stage, Finish(e, s)
  PROVE  exec' \in [Exec -> Execution]
BY DEF Finish, Execution, Pc

\* So every step of an execution leaves executions.
LEMMA StepType ==
  ASSUME exec \in [Exec -> Execution], ticket \in Ticket, NEW e \in Exec, Step(e)
  PROVE  exec' \in [Exec -> Execution]
<1>1. CASE \E p \in Pc : Go(e, p)  BY <1>1, GoType
<1>2. CASE \E s \in Stage : Finish(e, s)  BY <1>2, FinishType
<1>3. CASE exec' = [exec EXCEPT ![e].pc = "state", ![e].row = ticket]  BY <1>3 DEF Execution, Pc
<1> DEFINE Outcome == \/ \E p \in Pc : Go(e, p)
                      \/ \E s \in Stage : Finish(e, s)
                      \/ exec' = [exec EXCEPT ![e].pc = "state", ![e].row = ticket]
<1>4. EnsureSupportTicket(e) => Outcome  BY DEF EnsureSupportTicket, Pc, Stage
<1>5. FetchTicket(e) => Outcome  BY DEF FetchTicket, Pc, Stage
<1>6. AfterTakeover(e) => Outcome  BY DEF AfterTakeover, Pc, Stage
<1>7. TransitionSupportHandoffState(e) => Outcome  BY <1>6 DEF TransitionSupportHandoffState, Pc
<1>8. EnterAssistantTakeover(e) => Outcome  BY DEF EnterAssistantTakeover, Pc, Stage
<1>9. MarkTakeoverCompleted(e) => Outcome  BY <1>6 DEF MarkTakeoverCompleted, Stage
<1>10. DeliverConfirmation(e) => Outcome  BY DEF DeliverConfirmation, Pc, Stage
<1>11. MarkAckSent(e) => Outcome  BY DEF MarkAckSent, Stage
<1>12. Cut(e) => Outcome  BY DEF Cut, Stage
<1> QED BY <1>1, <1>2, <1>3, <1>4, <1>5, <1>7, <1>8, <1>9, <1>10, <1>11, <1>12 DEF Step

\* The variables keep their types, for any executions.
THEOREM HandoffTypeCorrect == HandoffSpec => []TypeOK
<1>1. HandoffInit => TypeOK
  <2> SUFFICES ASSUME HandoffInit PROVE TypeOK  OBVIOUS
  <2>1. NoTicket \in Ticket  BY DEF NoTicket, Ticket
  <2>2. exec \in [Exec -> Execution]  BY <2>1 DEF HandoffInit, Execution, Pc, Stage
  <2>3. acks \in Nat /\ takeovers \in Nat /\ returns \in 0..MaxReturns /\ deletions \in 0..MaxDeletions
    BY HandoffBounds DEF HandoffInit
  <2>4. confirm \in BOOLEAN /\ excused \in BOOLEAN  BY Zenon DEF HandoffInit
  <2> QED BY <2>1, <2>2, <2>3, <2>4, Zenon DEF HandoffInit, TypeOK
<1>2. TypeOK /\ [HandoffNext]_handoffVars => TypeOK'
  <2> SUFFICES ASSUME TypeOK, [HandoffNext]_handoffVars PROVE TypeOK'  OBVIOUS
  <2>1. ASSUME NEW e \in Exec, Step(e) PROVE TypeOK'
    <3>1. exec' \in [Exec -> Execution]  BY <2>1, StepType DEF TypeOK
    <3>2. ticket' \in Ticket
      BY <2>1 DEF TypeOK, Ticket, Step, EnsureSupportTicket, FetchTicket, TransitionSupportHandoffState,
         EnterAssistantTakeover, MarkTakeoverCompleted, MarkTakeover, DeliverConfirmation, MarkAckSent,
         MarkAck, Cut
    <3>3. /\ owner' \in {"bot", "assistant"} /\ confirm' = confirm
          /\ acks' \in {acks, acks + 1} /\ takeovers' \in {takeovers, takeovers + 1}
          /\ UNCHANGED <<returns, deletions>>
      BY <2>1 DEF TypeOK, Step, EnsureSupportTicket, FetchTicket, TransitionSupportHandoffState,
         EnterAssistantTakeover, MarkTakeoverCompleted, DeliverConfirmation, MarkAckSent, Cut
    <3>4. excused' \in BOOLEAN
      BY <2>1, Zenon DEF TypeOK, Step, EnsureSupportTicket, FetchTicket, TransitionSupportHandoffState,
         EnterAssistantTakeover, MarkTakeoverCompleted, DeliverConfirmation, MarkAckSent, Cut
    <3> QED BY <3>1, <3>2, <3>3, <3>4 DEF TypeOK
  <2>2. CASE ReturnToBot  BY <2>2, HandoffBounds DEF ReturnToBot, TypeOK
  <2>3. CASE DeleteSender  BY <2>3, HandoffBounds DEF DeleteSender, NoTicket, TypeOK, Ticket
  <2>4. CASE UNCHANGED handoffVars  BY <2>4 DEF handoffVars, TypeOK
  <2> QED BY <2>1, <2>2, <2>3, <2>4 DEF HandoffNext
<1> QED BY <1>1, <1>2, PTL DEF HandoffSpec

-----------------------------------------------------------------------------
(* What the stages mean, deletions and overlaps included. *)

\* Behind every takeover that is marked, read or assumed there was one.
TakeoverHappened ==
  /\ ticket.takeover => takeovers > 0
  /\ \A e \in Exec : /\ exec[e].row.takeover => takeovers > 0
                     /\ exec[e].pc \in {"mark_takeover", "confirm", "mark_ack"} => takeovers > 0

\* Behind every confirmation that is marked there was one, after a takeover.
ConfirmationHappened ==
  /\ ticket.ack => acks > 0
  /\ acks > 0 => takeovers > 0
  /\ \A e \in Exec : exec[e].pc = "mark_ack" => acks > 0

\* Until the ticket is deleted it keeps what executions rely on.
TicketKept ==
  deletions = 0 =>
    /\ ticket.ack => ticket.takeover
    /\ \A e \in Exec : /\ exec[e].pc \notin {"idle", "end"} => ticket.exists
                       /\ exec[e].row.takeover => ticket.takeover
                       /\ exec[e].pc \in {"confirm", "mark_ack"} => ticket.takeover

\* The inductive invariant behind ConfirmedAfterTakeover and SuccessIsComplete.
StagesHold == /\ TakeoverHappened
              /\ ConfirmationHappened
              /\ TicketKept
              /\ SuccessIsComplete
              /\ \A e \in Exec : exec[e].pc # "end" => exec[e].stage = "none"

\* A success was a handover: the bot was silenced before the customer was told, and
\* the ticket says both, for any executions that overlap or are cut anywhere.
THEOREM HandoffIsComplete == HandoffSpec => []HandoffIsWhole
<1> USE DEF StagesHold, TakeoverHappened, ConfirmationHappened, TicketKept, SuccessIsComplete
<1>1. HandoffInit => StagesHold
  BY DEF HandoffInit, NoTicket
<1>2. TypeOK /\ StagesHold /\ [HandoffNext]_handoffVars => StagesHold'
  <2> SUFFICES ASSUME TypeOK, StagesHold, [HandoffNext]_handoffVars PROVE StagesHold'  OBVIOUS
  <2> USE DEF TypeOK, Ticket, Execution, Pc, Go, Finish, AfterTakeover, AtStep
  <2>1. ASSUME NEW e \in Exec, Step(e) PROVE StagesHold'
    <3>1. CASE EnsureSupportTicket(e)
      <4>1. CASE Go(e, "fetch")  BY <3>1, <4>1 DEF EnsureSupportTicket
      <4>2. CASE Finish(e, "ticket_failed")  BY <3>1, <4>2 DEF EnsureSupportTicket
      <4> QED BY <3>1, <4>1, <4>2 DEF EnsureSupportTicket
    <3>2. CASE FetchTicket(e)  BY <3>2 DEF FetchTicket
    <3>3. CASE TransitionSupportHandoffState(e)
      <4>1. CASE exec[e].row.takeover /\ ~confirm  BY <3>3, <4>1 DEF TransitionSupportHandoffState
      <4>2. CASE exec[e].row.takeover /\ confirm  BY <3>3, <4>2, SMTT(30) DEF TransitionSupportHandoffState
      <4>3. CASE ~exec[e].row.takeover  BY <3>3, <4>3, SMTT(30) DEF TransitionSupportHandoffState
      <4> QED BY <4>1, <4>2, <4>3
    <3>4. CASE EnterAssistantTakeover(e)  BY <3>4 DEF EnterAssistantTakeover
    <3>5. CASE MarkTakeoverCompleted(e)  BY <3>5 DEF MarkTakeoverCompleted, MarkTakeover
    <3>6. CASE DeliverConfirmation(e)  BY <3>6 DEF DeliverConfirmation
    <3>7. CASE MarkAckSent(e)  BY <3>7 DEF MarkAckSent, MarkAck
    <3>8. CASE Cut(e)  BY <3>8 DEF Cut, Active
    <3> QED BY <2>1, <3>1, <3>2, <3>3, <3>4, <3>5, <3>6, <3>7, <3>8 DEF Step
  <2>2. CASE ReturnToBot  BY <2>2 DEF ReturnToBot
  <2>3. CASE DeleteSender  BY <2>3 DEF DeleteSender, NoTicket
  <2>4. CASE UNCHANGED handoffVars  BY <2>4 DEF handoffVars
  <2> QED BY <2>1, <2>2, <2>3, <2>4 DEF HandoffNext
<1>3. StagesHold => HandoffIsWhole
  BY DEF ConfirmedAfterTakeover, HandoffIsWhole
<1> QED BY <1>1, <1>2, <1>3, HandoffTypeCorrect, PTL DEF HandoffSpec

-----------------------------------------------------------------------------
(* Retries. *)

\* Executions follow one another, and an effect that is not yet on the ticket
\* belongs to the one that is active and about to mark it.
OneAfterTheOther ==
  ~excused =>
    /\ \A e, f \in Active : e = f
    /\ \A e \in Active : ticket.exists
    /\ acks <= 1 /\ takeovers <= 1
    /\ acks = 1 => ticket.ack \/ \E e \in Active : exec[e].pc = "mark_ack"
    /\ takeovers = 1 => ticket.takeover \/ \E e \in Active : exec[e].pc = "mark_takeover"
    /\ \A e \in Active :
         /\ exec[e].pc = "state" => acks = 0 /\ exec[e].row.takeover = ticket.takeover
         /\ exec[e].pc = "enter" => acks = 0 /\ takeovers = 0
         /\ exec[e].pc \in {"mark_takeover", "confirm"} => acks = 0

\* However many times a request is executed, it silences the bot once and confirms
\* once, unless an execution was cut before a mark, two overlapped, or the ticket
\* was deleted.
THEOREM HandoffOncePerRequest == HandoffSpec => []OncePerRequest
<1> USE DEF OneAfterTheOther, Active
<1>1. HandoffInit => OneAfterTheOther
  BY DEF HandoffInit
<1>2. TypeOK /\ OneAfterTheOther /\ [HandoffNext]_handoffVars => OneAfterTheOther'
  <2> SUFFICES ASSUME TypeOK, OneAfterTheOther, [HandoffNext]_handoffVars PROVE OneAfterTheOther'  OBVIOUS
  <2> USE DEF TypeOK, Ticket, Execution, Pc, Go, Finish, AfterTakeover, AtStep
  <2>1. ASSUME NEW e \in Exec, Step(e) PROVE OneAfterTheOther'
    <3>1. CASE EnsureSupportTicket(e)
      <4> SUFFICES ASSUME ~excused' PROVE OneAfterTheOther'  OBVIOUS
      <4>1. Active = {} /\ ~excused  BY <3>1 DEF EnsureSupportTicket
      <4>2. CASE Go(e, "fetch") /\ ticket' = [ticket EXCEPT !.exists = TRUE]
        BY <3>1, <4>1, <4>2 DEF EnsureSupportTicket
      <4>3. CASE Finish(e, "ticket_failed") /\ UNCHANGED ticket
        BY <3>1, <4>1, <4>3 DEF EnsureSupportTicket
      <4> QED BY <3>1, <4>2, <4>3 DEF EnsureSupportTicket
    <3>2. CASE FetchTicket(e)  BY <3>2 DEF FetchTicket
    <3>3. CASE TransitionSupportHandoffState(e)  BY <3>3 DEF TransitionSupportHandoffState
    <3>4. CASE EnterAssistantTakeover(e)  BY <3>4 DEF EnterAssistantTakeover
    <3>5. CASE MarkTakeoverCompleted(e)  BY <3>5, SMTT(30) DEF MarkTakeoverCompleted, MarkTakeover
    <3>6. CASE DeliverConfirmation(e)  BY <3>6, SMTT(30) DEF DeliverConfirmation
    <3>7. CASE MarkAckSent(e)  BY <3>7 DEF MarkAckSent, MarkAck
    <3>8. CASE Cut(e)  BY <3>8 DEF Cut
    <3> QED BY <2>1, <3>1, <3>2, <3>3, <3>4, <3>5, <3>6, <3>7, <3>8 DEF Step
  <2>2. CASE ReturnToBot  BY <2>2 DEF ReturnToBot
  <2>3. CASE DeleteSender  BY <2>3 DEF DeleteSender, NoTicket
  <2>4. CASE UNCHANGED handoffVars  BY <2>4 DEF handoffVars
  <2> QED BY <2>1, <2>2, <2>3, <2>4 DEF HandoffNext
<1>3. TypeOK /\ OneAfterTheOther => OncePerRequest
  BY DEF OncePerRequest, TypeOK
<1> QED BY <1>1, <1>2, <1>3, HandoffTypeCorrect, PTL DEF HandoffSpec

-----------------------------------------------------------------------------
(* The runs of a chat turn. *)

RunPc == {"none", "begin", "join old", "start", "work", "send", "stopping", "stop", "join", "over"}
RunState == [pc : RunPc, own : BOOLEAN, stage : Stages \cup {Idle}, old : Runs \cup {None}]
FeedbackState == [pc : {"none", "waiting", "check", "send", "done"}, stop : BOOLEAN, gaveUp : BOOLEAN,
                  takenBy : Runs \cup {None}]

TurnTypeOK ==
  /\ live \in BOOLEAN /\ recorded \subseteq Stages \cup {Queued} /\ lost \subseteq Stages \cup {Queued}
  /\ told \in [Stages \cup {Queued} -> Nat]
  /\ run \in [Runs -> RunState] /\ feedback \in [Runs -> FeedbackState]
  /\ active \in Runs \cup {None} /\ registryLock \in Runs \cup {None} /\ late \subseteq Runs
  /\ attempt \in 0..MaxAttempts

\* Another run took the feedback of e off the registry.
Taken(e) == feedback[e].takenBy \notin {None, e}

\* An attempt is the run of one claim; a run that stops a feedback stops one there was.
RunsAreNew == \A e \in Runs : /\ e > attempt => run[e] = NoRun /\ feedback[e] = NoFeedback
                              /\ run[e].old <= attempt

\* While a run joins the thread of an earlier one, nothing is registered; what is
\* registered was taken by nobody, and its run has not ended.
RegistryOK ==
  /\ registryLock # None => active = None
  /\ \A e \in Runs : At(e, "join old") => registryLock = e
  /\ active # None => /\ ~run[active].own /\ feedback[active].takenBy = None
                      /\ run[active].pc \in {"start", "work", "send", "stopping"}

\* Which feedback a run stops, and what has become of its own.
RunOK(e) ==
  /\ run[e].own => feedback[e].takenBy = None /\ ~At(e, "begin") /\ ~At(e, "join old")
  /\ run[e].pc \in {"none", "begin", "join old", "start"} => feedback[e].pc = "none"
  /\ run[e].pc \in {"none", "begin", "join old"} => feedback[e].takenBy = None
  /\ run[e].pc \in {"start", "work", "send", "stopping"} => run[e].own \/ active = e \/ Taken(e)
  /\ run[e].pc \in {"join old", "stop", "join"} => run[e].old \in Runs
  /\ run[e].pc \in {"stop", "join"} => run[e].old = e \/ (~run[e].own /\ Taken(e))
  /\ At(e, "join") /\ run[e].old = e => feedback[e].stop
  /\ At(e, "send") => run[e].stage \in Stages
  /\ At(e, "over") => \/ feedback[e].pc \in {"none", "done"} \/ Taken(e)
                      \/ feedback[e].pc = "waiting" /\ feedback[e].stop
                      \/ feedback[e].gaveUp
  /\ feedback[e].pc = "check" => run[e].own
  /\ e \in late => feedback[e].gaveUp \/ Taken(e)

TurnInv == TurnTypeOK /\ RunsAreNew /\ RegistryOK /\ \A e \in Runs : RunOK(e)

\* Who is about to tell a stage.
Tellers(st) == IF st = Queued THEN {e \in Runs : AckPromised(e)}
               ELSE {e \in Runs : At(e, "send") /\ run[e].stage = st}

\* A stage is untouched, told, lost, or about to be told by one run.
Fate(st) ==
  \/ st \notin recorded /\ told[st] = 0 /\ st \notin lost /\ Tellers(st) = {}
  \/ st \in recorded /\ told[st] = 1 /\ st \notin lost /\ Tellers(st) = {}
  \/ st \in recorded /\ told[st] = 0 /\ st \in lost /\ Tellers(st) = {}
  \/ st \in recorded /\ told[st] = 0 /\ st \notin lost /\ \E e \in Runs : Tellers(st) = {e}

FatesInv == \A st \in Stages \cup {Queued} : Fate(st)


\* What the worker does to a turn: it lets a run or its thread go on, starts the run
\* of a new attempt, cuts all of them, or leaves them alone.
LEMMA TurnSteps ==
  ASSUME [Next]_vars
  PROVE  \/ \E e \in Runs : (RunStep(e) \/ ThreadStep(e)) /\ attempt' = attempt
         \/ /\ attempt < MaxAttempts /\ attempt' = attempt + 1 /\ EnterRun(attempt + 1)
            /\ UNCHANGED <<live, recorded, told, lost, feedback, active, registryLock, late>>
         \/ CutRuns /\ attempt' = attempt
         \/ NewGeneration /\ attempt' = attempt
         \/ UNCHANGED progressVars /\ attempt' = attempt
<1>1. ASSUME NEW s \in Slots, SlotStep(s), ~ClaimTurn(s) PROVE UNCHANGED progressVars /\ attempt' = attempt
  BY <1>1 DEF SlotStep, ClaimOther, ClaimNothing, FinishOther, FinishTurn, EndPass, NextPass
<1>2. ASSUME NEW s \in Slots, ClaimTurn(s)
      PROVE  /\ attempt < MaxAttempts /\ attempt' = attempt + 1 /\ EnterRun(attempt + 1)
             /\ UNCHANGED <<live, recorded, told, lost, feedback, active, registryLock, late>>
  BY <1>2 DEF ClaimTurn
<1>3. ASSUME NEW e \in Runs, TurnStep(e) PROVE (RunStep(e) \/ ThreadStep(e)) /\ attempt' = attempt
  BY <1>3 DEF TurnStep, workerVars
<1>4. CASE ReclaimStaleJobs \/ HandleSignal \/ MainStops \/ LeaseExpires
  BY <1>4 DEF ReclaimStaleJobs, HandleSignal, MainStops, LeaseExpires
<1>5. ASSUME NEW kind \in Kind, Arrive(kind) PROVE UNCHANGED progressVars /\ attempt' = attempt
  BY <1>5 DEF Arrive
<1>6. CASE Dies  BY <1>6 DEF Dies
<1>7. CASE NewGeneration /\ UNCHANGED workerVars  BY <1>7 DEF workerVars
<1>8. CASE UNCHANGED vars  BY <1>8 DEF vars, workerVars
<1> QED BY <1>1, <1>2, <1>3, <1>4, <1>5, <1>6, <1>7, <1>8 DEF Next

\* A thread may be told to stop, or given up, by a run other than its own.
Raised(q) == /\ feedback'[q].pc = feedback[q].pc /\ feedback'[q].takenBy = feedback[q].takenBy
             /\ feedback[q].stop => feedback'[q].stop
             /\ feedback[q].gaveUp => feedback'[q].gaveUp

\* What holds of a run holds while it does nothing, though others are registered.
LEMMA RunFrame ==
  ASSUME NEW q \in Runs, RunOK(q), run'[q] = run[q], Raised(q),
         active' = active \/ active # q, q \in late' => q \in late
  PROVE  RunOK(q)'
BY DEF RunOK, At, Taken, Raised

LEMMA RunsAreFinite == Runs \subseteq Nat \ {0} /\ None \notin Runs
BY ProgressAssumption DEF Runs, None


LEMMA AttemptsAreCounted == ASSUME TurnInv, NEW e \in Runs PROVE attempt \in Nat /\ e \in Nat
BY RunsAreFinite DEF TurnInv, TurnTypeOK

LEMMA NotBeyond == ASSUME NEW m \in Nat, NEW n \in Nat, m <= n PROVE ~(m > n)
OBVIOUS

\* A step of one run that registers nothing, and may stop a thread or give one up.
LEMMA RunKeepsInv ==
  ASSUME TurnInv, TurnTypeOK', NEW e \in Runs, e <= attempt, attempt' = attempt,
         active' = active, registryLock' = registryLock,
         \A q \in Runs : q # e => run'[q] = run[q] /\ Raised(q) /\ (q \in late' => q \in late),
         \A q \in Runs : q > attempt => feedback'[q] = feedback[q],
         ~At(e, "join old"), ~At(e, "join old")', run'[e].old <= attempt,
         run'[e].own = run[e].own, feedback'[e].takenBy = feedback[e].takenBy,
         active = e => run'[e].pc \in {"start", "work", "send", "stopping"},
         RunOK(e)'
  PROVE  TurnInv'
<1>1. ASSUME NEW q \in Runs PROVE RunOK(q)'
  <2>1. CASE q = e  BY <2>1
  <2>2. CASE q # e  BY <2>2, RunFrame DEF TurnInv
  <2> QED BY <2>1, <2>2
<1>2. attempt \in Nat /\ e \in Nat  BY AttemptsAreCounted
<1>3. RunsAreNew'
  <2> SUFFICES ASSUME NEW q \in Runs
               PROVE  (q > attempt => run'[q] = NoRun /\ feedback'[q] = NoFeedback) /\ run'[q].old <= attempt
    BY DEF RunsAreNew, NoRun, NoFeedback
  <2>1. CASE q = e
    <3>1. ~(e > attempt)  BY <1>2, NotBeyond
    <3> QED BY <2>1, <3>1
  <2>2. CASE q # e  BY <2>2 DEF TurnInv, RunsAreNew
  <2> QED BY <2>1, <2>2
<1>4. RegistryOK'
  <2>1. \A q \in Runs : At(q, "join old")' <=> At(q, "join old")  BY DEF At
  <2>2. ASSUME active # None
        PROVE  /\ ~run'[active].own /\ feedback'[active].takenBy = None
               /\ run'[active].pc \in {"start", "work", "send", "stopping"}
    <3>1. active \in Runs  BY <2>2 DEF TurnInv, TurnTypeOK
    <3> QED BY <2>2, <3>1 DEF TurnInv, RegistryOK, Raised
  <2> QED BY <2>1, <2>2 DEF TurnInv, RegistryOK
<1> QED BY <1>1, <1>3, <1>4 DEF TurnInv

\* A run that does something is an attempt that was made.
LEMMA RunWasMade ==
  ASSUME TurnInv, NEW e \in Runs, run[e].pc # "none" \/ feedback[e].pc # "none"
  PROVE  e <= attempt /\ attempt \in Nat /\ e \in Nat
BY RunsAreFinite DEF TurnInv, TurnTypeOK, RunsAreNew, NoRun, NoFeedback

LEMMA StartKeepsInv ==
  ASSUME TurnInv, NEW e \in Runs, attempt' = attempt, StartFeedback(e)
  PROVE  TurnInv'
<1>1. run \in [Runs -> RunState] /\ feedback \in [Runs -> FeedbackState] /\ RunOK(e)
  BY DEF TurnInv, TurnTypeOK
<1>2. /\ run[e].pc = "start" /\ run'[e].pc = "work" /\ run'[e].own = run[e].own
      /\ run'[e].old = run[e].old /\ run' \in [Runs -> RunState]
      /\ \A q \in Runs : q # e => run'[q] = run[q]
  BY <1>1 DEF StartFeedback, At, RunState, RunPc
<1>3. /\ feedback'[e].pc = "waiting" /\ feedback'[e].takenBy = feedback[e].takenBy
      /\ feedback' \in [Runs -> FeedbackState]
      /\ \A q \in Runs : q # e => feedback'[q] = feedback[q]
  BY <1>1 DEF StartFeedback, FeedbackState
<1>4. e <= attempt /\ attempt \in Nat /\ run[e].old <= attempt
  BY <1>2, RunWasMade DEF TurnInv, RunsAreNew
<1>5. UNCHANGED <<live, recorded, told, lost, active, registryLock, late>>  BY DEF StartFeedback
<1>6. TurnTypeOK'  BY <1>2, <1>3, <1>5 DEF TurnInv, TurnTypeOK
<1>7. RunOK(e)'  BY <1>1, <1>2, <1>3, <1>5 DEF RunOK, At, Taken, StartFeedback
<1>8. \A q \in Runs : q > attempt => feedback'[q] = feedback[q]
  <2> SUFFICES ASSUME NEW q \in Runs, q > attempt PROVE feedback'[q] = feedback[q]  OBVIOUS
  <2>1. q # e
    <3> HIDE DEF Runs
    <3>1. q \in Nat /\ e \in Nat  BY RunsAreFinite
    <3> QED BY <1>4, <3>1
  <2> QED BY <1>3, <2>1
<1> QED
  BY <1>2, <1>3, <1>4, <1>5, <1>6, <1>7, <1>8, RunKeepsInv DEF At, Raised


\* Steps that change the state of one run only.
LEMMA RunOnlyKeepsInv ==
  ASSUME TurnInv, NEW e \in Runs, attempt' = attempt,
         ~At(e, "none"), ~At(e, "join old"),
         NEW pc \in RunPc \ {"join old"}, NEW stage \in Stages \cup {Idle}, NEW old \in {run[e].old, e},
         run' = [run EXCEPT ![e].pc = pc, ![e].stage = stage, ![e].old = old],
         UNCHANGED <<feedback, active, registryLock, late>>,
         recorded' \subseteq Stages \cup {Queued}, lost' \subseteq Stages \cup {Queued},
         told' \in [Stages \cup {Queued} -> Nat], live' \in BOOLEAN,
         active = e => pc \in {"start", "work", "send", "stopping"},
         RunOK(e)'
  PROVE  TurnInv'
<1>1. run \in [Runs -> RunState] /\ feedback \in [Runs -> FeedbackState] /\ run[e].old \in Runs \cup {None}
  BY DEF TurnInv, TurnTypeOK, RunState
<1>0. old \in Runs \cup {None} /\ pc \in RunPc  BY <1>1
<1>8. PICK r \in RunState : r = [run[e] EXCEPT !.pc = pc, !.stage = stage, !.old = old]
  <2>1. run[e] \in RunState  BY <1>1
  <2> QED BY <1>0, <2>1 DEF RunState
<1>9. run' = [run EXCEPT ![e] = r]  BY <1>1, <1>8
<1>2. /\ run'[e].pc = pc /\ run'[e].own = run[e].own /\ run'[e].old = old
      /\ run' \in [Runs -> RunState]
      /\ \A q \in Runs : q # e => run'[q] = run[q]
  <2>1. r.pc = pc /\ r.own = run[e].own /\ r.old = old  BY <1>1, <1>8 DEF RunState
  <2>2. run \in [Runs -> RunState] /\ r \in RunState  BY <1>1, <1>8
  <2>3. run' \in [Runs -> RunState] /\ \A q \in Runs : q # e => run'[q] = run[q]  BY <1>9, <2>2, ZenonT(60)
  <2>4. run'[e] = r  BY <1>9, <2>2
  <2> QED BY <2>1, <2>3, <2>4
<1>3. e <= attempt /\ run[e].old <= attempt  BY RunWasMade DEF At, TurnInv, RunsAreNew
<1>4. TurnTypeOK'  BY <1>2 DEF TurnInv, TurnTypeOK
<1>5. \A q \in Runs : Raised(q)  BY DEF Raised
<1>6. run'[e].old <= attempt  BY <1>2, <1>3
<1>7. ~At(e, "join old")'  BY <1>2 DEF At
<1> QED BY <1>2, <1>3, <1>4, <1>5, <1>6, <1>7, RunKeepsInv

LEMMA StopOwnKeepsInv ==
  ASSUME TurnInv, NEW e \in Runs, attempt' = attempt, StopOwn(e)
  PROVE  TurnInv'
<1>1. /\ run \in [Runs -> RunState] /\ RunOK(e) /\ RegistryOK
  BY DEF TurnInv, TurnTypeOK
<1>2. PICK stage \in Stages \cup {Idle} : stage = run[e].stage  BY <1>1 DEF RunState
<1>3. /\ run[e].pc \in {"work", "stopping"} /\ run[e].own
      /\ run' = [run EXCEPT ![e].pc = "stop", ![e].stage = stage, ![e].old = e]
      /\ run'[e].pc = "stop" /\ run'[e].own /\ run'[e].old = e
      /\ UNCHANGED <<live, recorded, told, lost, feedback, active, registryLock, late>>
  BY <1>1, <1>2 DEF StopOwn, RunState
<1>4. active # e  BY <1>1, <1>3, RunsAreFinite DEF RegistryOK
<1>5. RunOK(e)'  BY <1>1, <1>3 DEF RunOK, At, Taken
<1>6. ~At(e, "none") /\ ~At(e, "join old")  BY <1>3 DEF At
<1>7. "stop" \in RunPc \ {"join old"}  BY DEF RunPc
<1> QED BY <1>3, <1>4, <1>5, <1>6, <1>7, RunOnlyKeepsInv DEF TurnInv, TurnTypeOK

LEMMA CheckFreshKeepsInv ==
  ASSUME TurnInv, NEW e \in Runs, attempt' = attempt, CheckFresh(e)
  PROVE  TurnInv'
<1>1. /\ run \in [Runs -> RunState] /\ RunOK(e) /\ RegistryOK
  BY DEF TurnInv, TurnTypeOK
<1>2. PICK stage \in Stages \cup {Idle} : stage = run[e].stage  BY <1>1 DEF RunState
<1>3. /\ run[e].pc = "work"
      /\ run' = [run EXCEPT ![e].pc = "stopping", ![e].stage = stage, ![e].old = run[e].old]
      /\ run'[e].pc = "stopping" /\ run'[e].own = run[e].own /\ run'[e].old = run[e].old
      /\ UNCHANGED <<live, recorded, told, lost, feedback, active, registryLock, late>>
  BY <1>1, <1>2 DEF CheckFresh, RunState, At
<1>5. RunOK(e)'  BY <1>1, <1>3 DEF RunOK, At, Taken
<1>6. ~At(e, "none") /\ ~At(e, "join old")  BY <1>3 DEF At
<1>7. "stopping" \in RunPc \ {"join old"}  BY DEF RunPc
<1> QED BY <1>3, <1>5, <1>6, <1>7, RunOnlyKeepsInv DEF TurnInv, TurnTypeOK

LEMMA RecordKeepsInv ==
  ASSUME TurnInv, NEW e \in Runs, attempt' = attempt, NEW st \in Stages, RecordProgressSent(e, st)
  PROVE  TurnInv'
<1>1. /\ run \in [Runs -> RunState] /\ RunOK(e)
  BY DEF TurnInv, TurnTypeOK
<1>3. /\ run[e].pc = "work"
      /\ run' = [run EXCEPT ![e].pc = "send", ![e].stage = st, ![e].old = run[e].old]
      /\ run'[e].pc = "send" /\ run'[e].own = run[e].own /\ run'[e].old = run[e].old
      /\ run'[e].stage = st
      /\ UNCHANGED <<live, told, lost, feedback, active, registryLock, late>>
      /\ recorded' = recorded \cup {st}
  BY <1>1 DEF RecordProgressSent, RunState, At
<1>4. recorded' \subseteq Stages \cup {Queued}  BY <1>3 DEF TurnInv, TurnTypeOK
<1>5. RunOK(e)'  BY <1>1, <1>3 DEF RunOK, At, Taken
<1>6. ~At(e, "none") /\ ~At(e, "join old")  BY <1>3 DEF At
<1>7. "send" \in RunPc \ {"join old"}  BY DEF RunPc
<1> QED BY <1>3, <1>4, <1>5, <1>6, <1>7, RunOnlyKeepsInv DEF TurnInv, TurnTypeOK

LEMMA SendKeepsInv ==
  ASSUME TurnInv, NEW e \in Runs, attempt' = attempt, SendStage(e)
  PROVE  TurnInv'
<1>1. /\ run \in [Runs -> RunState] /\ RunOK(e) /\ told \in [Stages \cup {Queued} -> Nat]
      /\ lost \subseteq Stages \cup {Queued}
  BY DEF TurnInv, TurnTypeOK
<1>2. /\ run[e].pc = "send" /\ run[e].stage \in Stages
      /\ UNCHANGED <<live, recorded, feedback, active, registryLock, late>>
  BY <1>1 DEF SendStage, At, RunOK
<1>3. PICK pc \in {"work", "stopping"} :
        run' = [run EXCEPT ![e].pc = pc, ![e].stage = Idle, ![e].old = run[e].old]
  BY <1>1 DEF SendStage, RunState
<1>4. /\ run'[e].pc = pc /\ run'[e].own = run[e].own /\ run'[e].old = run[e].old
  BY <1>1, <1>3 DEF RunState
<1>5. told' \in [Stages \cup {Queued} -> Nat] /\ lost' \subseteq Stages \cup {Queued}
  BY <1>1, <1>2 DEF SendStage
<1>6. RunOK(e)'  BY <1>1, <1>2, <1>4 DEF RunOK, At, Taken
<1>7. ~At(e, "none") /\ ~At(e, "join old")  BY <1>2 DEF At
<1>8. pc \in RunPc \ {"join old"}  BY DEF RunPc
<1> QED BY <1>2, <1>3, <1>5, <1>6, <1>7, <1>8, RunOnlyKeepsInv DEF TurnInv, TurnTypeOK


\* A thread goes on.
LEMMA ThreadKeepsInv ==
  ASSUME TurnInv, NEW e \in Runs, attempt' = attempt, NEW pc \in {"check", "send", "done"},
         feedback[e].pc # "none", feedback' = [feedback EXCEPT ![e].pc = pc],
         UNCHANGED <<live, run, lost, active, registryLock>>, late' \in {late, late \cup {e}},
         recorded' \subseteq Stages \cup {Queued}, told' \in [Stages \cup {Queued} -> Nat],
         At(e, "over") => \/ pc = "done" \/ Taken(e) \/ feedback[e].gaveUp,
         pc = "check" => run[e].own,
         e \in late' => feedback[e].gaveUp \/ Taken(e)
  PROVE  TurnInv'
<1>1. /\ run \in [Runs -> RunState] /\ feedback \in [Runs -> FeedbackState] /\ RunOK(e) /\ late \subseteq Runs
  BY DEF TurnInv, TurnTypeOK
<1>2. /\ feedback'[e].pc = pc /\ feedback'[e].takenBy = feedback[e].takenBy
      /\ feedback'[e].stop = feedback[e].stop /\ feedback'[e].gaveUp = feedback[e].gaveUp
      /\ feedback' \in [Runs -> FeedbackState]
      /\ \A q \in Runs : q # e => feedback'[q] = feedback[q]
  BY <1>1 DEF FeedbackState
<1>3. e <= attempt /\ run[e].old <= attempt  BY RunWasMade DEF TurnInv, RunsAreNew
<1>4. late' \subseteq Runs  BY <1>1
<1>5. TurnTypeOK'  BY <1>2, <1>4 DEF TurnInv, TurnTypeOK
<1>6. run[e].pc \notin {"none", "begin", "join old", "start"}  BY <1>1 DEF RunOK
<1>7. RunOK(e)'  BY <1>1, <1>2, <1>6 DEF RunOK, At, Taken
<1>8. \A q \in Runs : q > attempt => feedback'[q] = feedback[q]
  BY <1>2, <1>3, AttemptsAreCounted
<1>9. ~At(e, "join old") /\ ~At(e, "join old")'  BY <1>6 DEF At
<1>10. active = e => run'[e].pc \in {"start", "work", "send", "stopping"}
  BY RunsAreFinite DEF TurnInv, RegistryOK
<1>11. \A q \in Runs : q # e => run'[q] = run[q] /\ Raised(q) /\ (q \in late' => q \in late)
  BY <1>2 DEF Raised
<1>12. run'[e].old <= attempt  BY <1>3
<1> QED BY <1>2, <1>3, <1>5, <1>7, <1>8, <1>9, <1>10, <1>11, <1>12, RunKeepsInv

LEMMA ThreadStepKeepsInv ==
  ASSUME TurnInv, NEW e \in Runs, attempt' = attempt, ThreadStep(e)
  PROVE  TurnInv'
<1>1. /\ RunOK(e) /\ told \in [Stages \cup {Queued} -> Nat] /\ recorded \subseteq Stages \cup {Queued}
  BY DEF TurnInv, TurnTypeOK
<1>2. CASE AckDelay(e)
  <2>1. PICK pc : pc = CASE feedback[e].stop -> "done"
                         [] ~feedback[e].stop /\ run[e].own -> "check"
                         [] OTHER -> "send"
    OBVIOUS
  <2>2. /\ pc \in {"check", "send", "done"} /\ (feedback[e].stop => pc = "done")
        /\ pc = "check" => run[e].own
    BY <2>1, Zenon
  <2>3. /\ feedback[e].pc = "waiting" /\ feedback' = [feedback EXCEPT ![e].pc = pc]
        /\ UNCHANGED <<live, recorded, told, lost, run, active, registryLock, late>>
    BY <1>2, <2>1, Zenon DEF AckDelay, Thread
  <2>4. At(e, "over") => pc = "done" \/ Taken(e) \/ feedback[e].gaveUp
    BY <1>1, <2>2, <2>3 DEF RunOK
  <2>5. e \in late => feedback[e].gaveUp \/ Taken(e)  BY <1>1 DEF RunOK
  <2> QED BY <1>1, <2>2, <2>3, <2>4, <2>5, ThreadKeepsInv
<1>3. CASE AckRecord(e)
  <2>1. PICK pc \in {"send", "done"} : pc = IF live /\ Queued \notin recorded THEN "send" ELSE "done"
    OBVIOUS
  <2>2. /\ feedback[e].pc = "check" /\ feedback' = [feedback EXCEPT ![e].pc = pc]
        /\ UNCHANGED <<live, told, lost, run, active, registryLock, late>>
    BY <1>3, <2>1 DEF AckRecord, Thread
  <2>3. recorded' \subseteq Stages \cup {Queued}  BY <1>1, <1>3 DEF AckRecord
  <2>4. At(e, "over") => Taken(e) \/ feedback[e].gaveUp
    BY <1>1, <2>2 DEF RunOK
  <2>5. e \in late => feedback[e].gaveUp \/ Taken(e)  BY <1>1 DEF RunOK
  <2> QED BY <1>1, <2>2, <2>3, <2>4, <2>5, ThreadKeepsInv
<1>4. CASE AckSend(e)
  <2>1. /\ feedback[e].pc = "send" /\ feedback' = [feedback EXCEPT ![e].pc = "done"]
        /\ UNCHANGED <<live, recorded, lost, run, active, registryLock>>
        /\ late' = IF At(e, "over") THEN late \cup {e} ELSE late
    BY <1>4 DEF AckSend, Thread
  <2>2. told' \in [Stages \cup {Queued} -> Nat]
    BY <1>1, <1>4 DEF AckSend
  <2>3. At(e, "over") \/ e \in late => Taken(e) \/ feedback[e].gaveUp
    BY <1>1, <2>1 DEF RunOK
  <2> QED BY <1>1, <2>1, <2>2, <2>3, ThreadKeepsInv
<1> QED BY <1>2, <1>3, <1>4 DEF ThreadStep

\* The last two steps of a stop: the event is set, the thread is joined.
LEMMA StopKeepsInv ==
  ASSUME TurnInv, NEW e \in Runs, attempt' = attempt, SetStop(e) \/ JoinStopped(e)
  PROVE  TurnInv'
<1>1. /\ run \in [Runs -> RunState] /\ feedback \in [Runs -> FeedbackState] /\ RunOK(e)
  BY DEF TurnInv, TurnTypeOK
<1>2. /\ run[e].pc \in {"stop", "join"}
      /\ UNCHANGED <<live, recorded, told, lost, active, registryLock, late>>
  BY DEF SetStop, JoinStopped, At
<1>3. PICK o \in Runs : o = run[e].old  BY <1>1, <1>2 DEF RunOK
<1>4. o = e \/ (~run[e].own /\ Taken(e))  BY <1>1, <1>2, <1>3 DEF RunOK
<1>5. e <= attempt /\ o <= attempt  BY <1>2, <1>3, RunWasMade DEF TurnInv, RunsAreNew
<1>6. /\ \A q \in Runs : q # o => feedback'[q] = feedback[q]
      /\ feedback' \in [Runs -> FeedbackState] /\ Raised(o)
      /\ feedback'[o].stop = (IF At(e, "stop") THEN TRUE ELSE feedback[o].stop)
      /\ At(e, "join") => feedback'[o].gaveUp = (feedback[o].gaveUp \/ Acking(o))
  <2>1. CASE SetStop(e)
    <3>1. feedback' = [feedback EXCEPT ![o].stop = TRUE] /\ At(e, "stop") /\ ~At(e, "join")
      BY <1>3, <2>1 DEF SetStop, At
    <3> QED BY <1>1, <3>1 DEF FeedbackState, Raised
  <2>2. CASE JoinStopped(e)
    <3>1. PICK b \in BOOLEAN : b = (feedback[o].gaveUp \/ Acking(o))  OBVIOUS
    <3>2. feedback' = [feedback EXCEPT ![o].gaveUp = b] /\ At(e, "join") /\ ~At(e, "stop")
      BY <1>1, <1>3, <2>2, <3>1 DEF JoinStopped, Joined, At
    <3> QED BY <1>1, <3>1, <3>2 DEF FeedbackState, Raised
  <2> QED BY <2>1, <2>2
<1>7. \A q \in Runs : Raised(q)  BY <1>6 DEF Raised
<1>8. \A q \in Runs : q > attempt => feedback'[q] = feedback[q]
  BY <1>5, <1>6, AttemptsAreCounted
<1>9. /\ run' \in [Runs -> RunState] /\ \A q \in Runs : q # e => run'[q] = run[q]
      /\ run'[e].own = run[e].own
      /\ \/ At(e, "stop") /\ run'[e].pc = "join" /\ run'[e].old = o
         \/ At(e, "join") /\ run'[e].pc = "over" /\ run'[e].old = None
  <2>1. CASE SetStop(e)
    <3>1. PICK r \in RunState : r = [run[e] EXCEPT !.pc = "join"]
      BY <1>1 DEF RunState, RunPc
    <3>2. run' = [run EXCEPT ![e] = r] /\ At(e, "stop")  BY <1>1, <2>1, <3>1 DEF SetStop
    <3>3. r.pc = "join" /\ r.own = run[e].own /\ r.old = o  BY <1>1, <1>3, <3>1 DEF RunState
    <3>4. run \in [Runs -> RunState] /\ r \in RunState  BY <1>1, <3>1
    <3>5. run' \in [Runs -> RunState] /\ \A q \in Runs : q # e => run'[q] = run[q]  BY <3>2, <3>4
    <3>6. run'[e] = r  BY <3>2, <3>4
    <3> QED BY <3>2, <3>3, <3>5, <3>6
  <2>2. CASE JoinStopped(e)
    <3>1. PICK r \in RunState : r = [run[e] EXCEPT !.pc = "over", !.old = None]
      BY <1>1 DEF RunState, RunPc
    <3>2. run' = [run EXCEPT ![e] = r] /\ At(e, "join")  BY <1>1, <2>2, <3>1 DEF JoinStopped
    <3>3. r.pc = "over" /\ r.own = run[e].own /\ r.old = None  BY <1>1, <3>1 DEF RunState
    <3>4. run \in [Runs -> RunState] /\ r \in RunState  BY <1>1, <3>1
    <3>5. run' \in [Runs -> RunState] /\ \A q \in Runs : q # e => run'[q] = run[q]  BY <3>2, <3>4
    <3>6. run'[e] = r  BY <3>2, <3>4
    <3> QED BY <3>2, <3>3, <3>5, <3>6
  <2> QED BY <2>1, <2>2
<1>10. RunOK(e)'
  <2>1. CASE At(e, "stop")
    <3>1. o = e => feedback'[e].stop  BY <1>6, <2>1
    <3> QED BY <1>1, <1>2, <1>3, <1>4, <1>7, <1>9, <2>1, <3>1 DEF RunOK, At, Taken, Raised
  <2>2. CASE At(e, "join")
    <3>1. o = e => feedback[e].stop  BY <1>1, <1>3, <2>2 DEF RunOK
    <3>2. o = e => /\ feedback'[e].gaveUp = (feedback[e].gaveUp \/ Acking(e))
                   /\ feedback'[e].stop = feedback[e].stop
      BY <1>6, <2>2 DEF At
    <3>3. \/ feedback'[e].pc \in {"none", "done"} \/ Taken(e)'
          \/ feedback'[e].pc = "waiting" /\ feedback'[e].stop
          \/ feedback'[e].gaveUp
      BY <1>1, <1>4, <1>7, <3>1, <3>2 DEF Taken, Raised, Acking, FeedbackState
    <3> QED BY <1>1, <1>2, <1>7, <1>9, <2>2, <3>3 DEF RunOK, At, Taken, Raised
  <2> QED BY <1>2, <2>1, <2>2 DEF At
<1>11. TurnTypeOK'  BY <1>2, <1>6, <1>9 DEF TurnInv, TurnTypeOK
<1>12. run'[e].old <= attempt
  <2>1. None <= attempt  BY AttemptsAreCounted DEF None
  <2> QED BY <1>5, <1>9, <2>1
<1>13. ~At(e, "join old") /\ ~At(e, "join old")'  BY <1>2, <1>9 DEF At
<1>14. active # e  BY <1>2, RunsAreFinite DEF TurnInv, RegistryOK
<1>15. feedback'[e].takenBy = feedback[e].takenBy  BY <1>7 DEF Raised
<1> QED BY <1>2, <1>5, <1>7, <1>8, <1>9, <1>10, <1>11, <1>12, <1>13, <1>14, <1>15, RunKeepsInv


\* ---- The registry.

\* The run whose feedback another run takes off the registry.
LEMMA RunTaken ==
  ASSUME NEW q \in Runs, RunOK(q), run'[q] = run[q], ~run[q].own,
         run[q].pc \in {"start", "work", "send", "stopping"}, Taken(q)',
         feedback'[q].pc = feedback[q].pc
  PROVE  RunOK(q)'
BY DEF RunOK, At

\* Steps that change the registry keep the invariant when they keep its parts.
LEMMA RegistryStepKeepsInv ==
  ASSUME TurnInv, TurnTypeOK', NEW e \in Runs, e <= attempt, attempt' = attempt,
         \A q \in Runs : q # e => run'[q] = run[q],
         \A q \in Runs : q > attempt => feedback'[q] = feedback[q],
         run'[e].old <= attempt, RegistryOK', \A q \in Runs : RunOK(q)'
  PROVE  TurnInv'
<1>1. attempt \in Nat /\ e \in Nat  BY AttemptsAreCounted
<1>2. RunsAreNew'
  <2> SUFFICES ASSUME NEW q \in Runs
               PROVE  (q > attempt => run'[q] = NoRun /\ feedback'[q] = NoFeedback) /\ run'[q].old <= attempt
    BY DEF RunsAreNew, NoRun, NoFeedback
  <2>1. CASE q = e
    <3>1. ~(e > attempt)  BY <1>1, NotBeyond
    <3> QED BY <2>1, <3>1
  <2>2. CASE q # e  BY <2>2 DEF TurnInv, RunsAreNew
  <2> QED BY <2>1, <2>2
<1> QED BY <1>2 DEF TurnInv

\* A record of a run with other values of pc and old is the record of a run.
LEMMA RunMoves ==
  ASSUME run \in [Runs -> RunState], NEW e \in Runs, NEW pc \in RunPc, NEW old, old \in Runs \/ old = None,
         run' = [run EXCEPT ![e].pc = pc, ![e].old = old]
  PROVE  /\ run' \in [Runs -> RunState] /\ \A q \in Runs : q # e => run'[q] = run[q]
         /\ run'[e].pc = pc /\ run'[e].old = old /\ run'[e].own = run[e].own
         /\ run'[e].stage = run[e].stage
<1>1. PICK r \in RunState : r = [run[e] EXCEPT !.pc = pc, !.old = old]
  <2>1. run[e] \in RunState  OBVIOUS
  <2> QED BY <2>1 DEF RunState
<1>2. run' = [run EXCEPT ![e] = r]  BY <1>1
<1>3. r.pc = pc /\ r.own = run[e].own /\ r.old = old /\ r.stage = run[e].stage  BY <1>1 DEF RunState
<1>4. run \in [Runs -> RunState] /\ r \in RunState  BY <1>1
<1>5. run' \in [Runs -> RunState] /\ \A q \in Runs : q # e => run'[q] = run[q]  BY <1>2, <1>4
<1>6. run'[e] = r  BY <1>2, <1>4
<1> QED BY <1>3, <1>5, <1>6

LEMMA BeginKeepsInv ==
  ASSUME TurnInv, NEW e \in Runs, attempt' = attempt, BeginProcessingFeedback(e)
  PROVE  TurnInv'
<1>1. /\ run \in [Runs -> RunState] /\ feedback \in [Runs -> FeedbackState]
      /\ RunOK(e) /\ RegistryOK /\ TurnTypeOK /\ active \in Runs \cup {None}
      /\ run[e].old \in Runs \cup {None}
  BY DEF TurnInv, TurnTypeOK, RunState
<1>2. /\ run[e].pc = "begin" /\ registryLock = None
      /\ UNCHANGED <<live, recorded, told, lost, late>>
  BY DEF BeginProcessingFeedback, At
<1>3. e <= attempt /\ run[e].old <= attempt  BY <1>2, RunWasMade DEF TurnInv, RunsAreNew
<1>4. /\ ~run[e].own /\ feedback[e].pc = "none" /\ feedback[e].takenBy = None
  BY <1>1, <1>2 DEF RunOK, At
<1>5. \A q \in Runs : ~At(q, "join old")  BY <1>1, <1>2, RunsAreFinite DEF RegistryOK
<1>6. CASE active = None
  <2>1. /\ active' = e /\ UNCHANGED <<feedback, registryLock>>
        /\ run' = [run EXCEPT ![e].pc = "start", ![e].old = run[e].old]
    BY <1>1, <1>6 DEF BeginProcessingFeedback, RunState
  <2>2. /\ run' \in [Runs -> RunState] /\ \A q \in Runs : q # e => run'[q] = run[q]
        /\ run'[e].pc = "start" /\ run'[e].old = run[e].old /\ run'[e].own = run[e].own
    <3>1. "start" \in RunPc  BY DEF RunPc
    <3> QED BY <1>1, <2>1, <3>1, RunMoves, ZenonT(60)
  <2>3. TurnTypeOK'  BY <1>1, <1>2, <2>1, <2>2 DEF TurnTypeOK
  <2>4. ASSUME NEW q \in Runs PROVE RunOK(q)'
    <3>1. CASE q = e  BY <1>1, <1>2, <1>4, <2>1, <2>2, <3>1 DEF RunOK, At, Taken
    <3>2. CASE q # e
      <4>1. Raised(q)  BY <2>1 DEF Raised
      <4>2. active # q  BY <1>6, RunsAreFinite
      <4> QED BY <1>2, <2>2, <3>2, <4>1, <4>2, RunFrame DEF TurnInv
    <3> QED BY <3>1, <3>2
  <2>5. RegistryOK'
    <3>1. \A q \in Runs : ~At(q, "join old")'  BY <1>5, <2>2 DEF At
    <3> QED BY <1>2, <1>4, <2>1, <2>2, <3>1 DEF RegistryOK
  <2>6. run'[e].old <= attempt  BY <1>3, <2>2
  <2> QED BY <1>3, <2>1, <2>2, <2>3, <2>4, <2>5, <2>6, RegistryStepKeepsInv
<1>7. CASE active # None
  <2>1. PICK a \in Runs : a = active  BY <1>1, <1>7
  <2>2. /\ ~run[a].own /\ feedback[a].takenBy = None
        /\ run[a].pc \in {"start", "work", "send", "stopping"} /\ a # e
    BY <1>1, <1>2, <1>7, <2>1 DEF RegistryOK
  <2>3. /\ active' = None /\ registryLock' = e
        /\ run' = [run EXCEPT ![e].pc = "join old", ![e].old = a]
        /\ feedback' = [feedback EXCEPT ![a].stop = TRUE, ![a].takenBy = e]
    BY <1>7, <2>1 DEF BeginProcessingFeedback
  <2>4. /\ run' \in [Runs -> RunState] /\ \A q \in Runs : q # e => run'[q] = run[q]
        /\ run'[e].pc = "join old" /\ run'[e].old = a /\ run'[e].own = run[e].own
    <3>1. "join old" \in RunPc  BY DEF RunPc
    <3>2. run' = [run EXCEPT ![e].pc = "join old", ![e].old = a]  BY <2>3
    <3>3. a \in Runs \/ a = None  OBVIOUS
    <3>4. run \in [Runs -> RunState]  BY <1>1
    <3>5. /\ run' \in [Runs -> RunState] /\ \A q \in Runs : q # e => run'[q] = run[q]
      BY <3>1, <3>2, <3>3, <3>4, RunMoves
    <3>6. run'[e].own = run[e].own /\ run'[e].pc = "join old"
      BY <3>1, <3>2, <3>3, <3>4, RunMoves
    <3>7. run'[e].old = a  BY <3>2, <3>4 DEF RunState
    <3> QED BY <3>5, <3>6, <3>7
  <2>5. /\ feedback' \in [Runs -> FeedbackState] /\ \A q \in Runs : q # a => feedback'[q] = feedback[q]
        /\ feedback'[a].pc = feedback[a].pc /\ feedback'[a].takenBy = e
    <3>1. PICK f \in FeedbackState : f = [feedback[a] EXCEPT !.stop = TRUE, !.takenBy = e]
      <4>1. feedback[a] \in FeedbackState  BY <1>1
      <4> QED BY <4>1 DEF FeedbackState
    <3>2. feedback' = [feedback EXCEPT ![a] = f]  BY <1>1, <2>3, <3>1
    <3>3. f.pc = feedback[a].pc /\ f.takenBy = e  BY <1>1, <3>1 DEF FeedbackState
    <3>4. feedback \in [Runs -> FeedbackState] /\ f \in FeedbackState  BY <1>1, <3>1
    <3>5. feedback' \in [Runs -> FeedbackState] /\ \A q \in Runs : q # a => feedback'[q] = feedback[q]
      BY <3>2, <3>4
    <3>6. feedback'[a] = f  BY <3>2, <3>4
    <3> QED BY <3>3, <3>5, <3>6
  <2>6. TurnTypeOK'  BY <1>1, <1>2, <2>3, <2>4, <2>5 DEF TurnTypeOK
  <2>7. ASSUME NEW q \in Runs PROVE RunOK(q)'
    <3>1. CASE q = e  BY <1>1, <1>2, <1>4, <2>2, <2>3, <2>4, <2>5, <3>1 DEF RunOK, At, Taken
    <3>2. CASE q = a
      <4>1. Taken(q)'  BY <2>2, <2>5, <3>2, RunsAreFinite DEF Taken
      <4> QED BY <2>2, <2>4, <2>5, <3>2, <4>1, RunTaken DEF TurnInv
    <3>3. CASE q # e /\ q # a
      <4>1. Raised(q)  BY <2>5, <3>3 DEF Raised
      <4> QED BY <1>2, <2>1, <2>4, <3>3, <4>1, RunFrame DEF TurnInv
    <3> QED BY <3>1, <3>2, <3>3
  <2>8. RegistryOK'
    <3>1. \A q \in Runs : At(q, "join old")' => q = e  BY <1>5, <2>4 DEF At
    <3> QED BY <2>3, <3>1 DEF RegistryOK
  <2>9. a <= attempt /\ attempt \in Nat  BY <2>2, RunWasMade
  <2>10. \A q \in Runs : q > attempt => feedback'[q] = feedback[q]
    BY <2>5, <2>9, RunsAreFinite
  <2>11. run'[e].old <= attempt  BY <2>4, <2>9
  <2> QED BY <1>3, <2>4, <2>6, <2>7, <2>8, <2>10, <2>11, RegistryStepKeepsInv
<1> QED BY <1>6, <1>7

\* The join ends: the thread that is joined is raised at most.
LEMMA JoinedRaises ==
  ASSUME TurnInv, NEW e \in Runs, NEW o \in Runs, run[e].old = o, Joined(e)
  PROVE  /\ feedback' \in [Runs -> FeedbackState]
         /\ \A q \in Runs : Raised(q) /\ (q # o => feedback'[q] = feedback[q])
<1>1. feedback \in [Runs -> FeedbackState]  BY DEF TurnInv, TurnTypeOK
<1>2. PICK b \in BOOLEAN : b = (feedback[o].gaveUp \/ Acking(o))  OBVIOUS
<1>3. feedback' = [feedback EXCEPT ![o].gaveUp = b]  BY <1>1, <1>2 DEF Joined
<1> QED BY <1>1, <1>2, <1>3, ZenonT(60) DEF FeedbackState, Raised

LEMMA JoinOldKeepsInv ==
  ASSUME TurnInv, NEW e \in Runs, attempt' = attempt, JoinOld(e)
  PROVE  TurnInv'
<1>1. /\ run \in [Runs -> RunState] /\ RunOK(e) /\ RegistryOK /\ TurnTypeOK
  BY DEF TurnInv, TurnTypeOK
<1>2. /\ run[e].pc = "join old" /\ Joined(e) /\ active' = e /\ registryLock' = None
      /\ run' = [run EXCEPT ![e].pc = "start", ![e].old = None]
      /\ UNCHANGED <<live, recorded, told, lost, late>>
  BY DEF JoinOld, At
<1>3. registryLock = e /\ active = None  BY <1>1, <1>2, RunsAreFinite DEF RegistryOK, At
<1>4. PICK o \in Runs : o = run[e].old  BY <1>1, <1>2 DEF RunOK
<1>5. e <= attempt /\ o <= attempt /\ attempt \in Nat
  BY <1>2, <1>4, RunWasMade DEF TurnInv, RunsAreNew
<1>6. /\ feedback' \in [Runs -> FeedbackState]
      /\ \A q \in Runs : Raised(q) /\ (q # o => feedback'[q] = feedback[q])
  BY <1>2, <1>4, JoinedRaises
<1>7. /\ run' \in [Runs -> RunState] /\ \A q \in Runs : q # e => run'[q] = run[q]
      /\ run'[e].pc = "start" /\ run'[e].old = None /\ run'[e].own = run[e].own
  <2>1. "start" \in RunPc  BY DEF RunPc
  <2> QED BY <1>1, <1>2, <2>1, RunMoves
<1>8. ~run[e].own /\ feedback[e].pc = "none" /\ feedback[e].takenBy = None
  BY <1>1, <1>2 DEF RunOK, At
<1>9. TurnTypeOK'  BY <1>1, <1>2, <1>6, <1>7 DEF TurnTypeOK
<1>10. ASSUME NEW q \in Runs PROVE RunOK(q)'
  <2>1. CASE q = e  BY <1>1, <1>2, <1>6, <1>7, <1>8, <2>1 DEF RunOK, At, Taken, Raised
  <2>2. CASE q # e
    <3>1. active # q  BY <1>3, RunsAreFinite
    <3> QED BY <1>2, <1>6, <1>7, <2>2, <3>1, RunFrame DEF TurnInv
  <2> QED BY <2>1, <2>2
<1>11. RegistryOK'
  <2>1. \A q \in Runs : ~At(q, "join old")'
    BY <1>1, <1>3, <1>7 DEF At, RegistryOK
  <2>2. feedback'[e].takenBy = None  BY <1>6, <1>8 DEF Raised
  <2> QED BY <1>2, <1>7, <1>8, <2>1, <2>2 DEF RegistryOK
<1>12. \A q \in Runs : q > attempt => feedback'[q] = feedback[q]
  BY <1>5, <1>6, RunsAreFinite
<1>13. run'[e].old <= attempt  BY <1>5, <1>7 DEF None
<1> QED BY <1>5, <1>7, <1>9, <1>10, <1>11, <1>12, <1>13, RegistryStepKeepsInv

LEMMA StopRegisteredKeepsInv ==
  ASSUME TurnInv, NEW e \in Runs, attempt' = attempt, StopProcessingFeedback(e)
  PROVE  TurnInv'
<1>1. /\ run \in [Runs -> RunState] /\ feedback \in [Runs -> FeedbackState]
      /\ RunOK(e) /\ RegistryOK /\ TurnTypeOK /\ active \in Runs \cup {None}
      /\ run[e].old \in Runs \cup {None}
  BY DEF TurnInv, TurnTypeOK, RunState
<1>2. /\ run[e].pc \in {"work", "stopping"} /\ ~run[e].own /\ registryLock = None /\ active' = None
      /\ UNCHANGED <<live, recorded, told, lost, registryLock, late>>
  BY DEF StopProcessingFeedback
<1>3. e <= attempt /\ run[e].old <= attempt  BY <1>2, RunWasMade DEF TurnInv, RunsAreNew
<1>4. active = e \/ Taken(e)  BY <1>1, <1>2 DEF RunOK
<1>5. \A q \in Runs : ~At(q, "join old")  BY <1>1, <1>2, RunsAreFinite DEF RegistryOK
<1>6. CASE active = None
  <2>1. /\ UNCHANGED feedback
        /\ run' = [run EXCEPT ![e].pc = "over", ![e].old = run[e].old]
    BY <1>1, <1>6 DEF StopProcessingFeedback, RunState
  <2>2. /\ run' \in [Runs -> RunState] /\ \A q \in Runs : q # e => run'[q] = run[q]
        /\ run'[e].pc = "over" /\ run'[e].old = run[e].old /\ run'[e].own = run[e].own
    <3>1. "over" \in RunPc  BY DEF RunPc
    <3> QED BY <1>1, <2>1, <3>1, RunMoves, ZenonT(60)
  <2>3. TurnTypeOK'  BY <1>1, <1>2, <2>1, <2>2 DEF TurnTypeOK
  <2>4. ASSUME NEW q \in Runs PROVE RunOK(q)'
    <3>1. CASE q = e
      <4>1. Taken(e)  BY <1>4, <1>6, RunsAreFinite
      <4> QED BY <1>1, <1>2, <2>1, <2>2, <3>1, <4>1 DEF RunOK, At, Taken
    <3>2. CASE q # e
      <4>1. Raised(q)  BY <2>1 DEF Raised
      <4>2. active # q  BY <1>6, RunsAreFinite
      <4> QED BY <1>2, <2>2, <3>2, <4>1, <4>2, RunFrame DEF TurnInv
    <3> QED BY <3>1, <3>2
  <2>5. RegistryOK'
    <3>1. \A q \in Runs : ~At(q, "join old")'  BY <1>5, <2>2 DEF At
    <3> QED BY <1>2, <3>1 DEF RegistryOK
  <2>6. run'[e].old <= attempt  BY <1>3, <2>2
  <2> QED BY <1>3, <2>1, <2>2, <2>3, <2>4, <2>5, <2>6, RegistryStepKeepsInv
<1>7. CASE active # None
  <2>1. PICK a \in Runs : a = active  BY <1>1, <1>7
  <2>2. /\ ~run[a].own /\ feedback[a].takenBy = None
        /\ run[a].pc \in {"start", "work", "send", "stopping"}
    BY <1>1, <1>2, <1>7, <2>1 DEF RegistryOK
  <2>3. /\ run' = [run EXCEPT ![e].pc = "stop", ![e].old = a]
        /\ feedback' = [feedback EXCEPT ![a].takenBy = e]
    BY <1>7, <2>1 DEF StopProcessingFeedback
  <2>4. /\ run' \in [Runs -> RunState] /\ \A q \in Runs : q # e => run'[q] = run[q]
        /\ run'[e].pc = "stop" /\ run'[e].old = a /\ run'[e].own = run[e].own
    <3>1. "stop" \in RunPc  BY DEF RunPc
    <3>2. run' = [run EXCEPT ![e].pc = "stop", ![e].old = a]  BY <2>3
    <3>3. a \in Runs \/ a = None  OBVIOUS
    <3>4. run \in [Runs -> RunState]  BY <1>1
    <3>5. /\ run' \in [Runs -> RunState] /\ \A q \in Runs : q # e => run'[q] = run[q]
      BY <3>1, <3>2, <3>3, <3>4, RunMoves
    <3>6. run'[e].own = run[e].own /\ run'[e].pc = "stop"
      BY <3>1, <3>2, <3>3, <3>4, RunMoves
    <3>7. run'[e].old = a  BY <3>2, <3>4 DEF RunState
    <3> QED BY <3>5, <3>6, <3>7
  <2>5. /\ feedback' \in [Runs -> FeedbackState] /\ \A q \in Runs : q # a => feedback'[q] = feedback[q]
        /\ feedback'[a].pc = feedback[a].pc /\ feedback'[a].takenBy = e
        /\ feedback'[a].gaveUp = feedback[a].gaveUp
    <3>1. PICK f \in FeedbackState : f = [feedback[a] EXCEPT !.takenBy = e]
      <4>1. feedback[a] \in FeedbackState  BY <1>1
      <4> QED BY <4>1 DEF FeedbackState
    <3>2. feedback' = [feedback EXCEPT ![a] = f]  BY <1>1, <2>3, <3>1
    <3>3. f.pc = feedback[a].pc /\ f.takenBy = e /\ f.gaveUp = feedback[a].gaveUp
      BY <1>1, <3>1 DEF FeedbackState
    <3>4. feedback \in [Runs -> FeedbackState] /\ f \in FeedbackState  BY <1>1, <3>1
    <3>5. feedback' \in [Runs -> FeedbackState] /\ \A q \in Runs : q # a => feedback'[q] = feedback[q]
      BY <3>2, <3>4
    <3>6. feedback'[a] = f  BY <3>2, <3>4
    <3> QED BY <3>3, <3>5, <3>6
  <2>6. TurnTypeOK'  BY <1>1, <1>2, <2>3, <2>4, <2>5 DEF TurnTypeOK
  <2>7. ASSUME NEW q \in Runs PROVE RunOK(q)'
    <3>1. CASE q = e /\ a = e
      <4>1. ~Taken(e)  BY <2>2, <3>1 DEF Taken
      <4> QED BY <1>1, <1>2, <2>4, <2>5, <3>1, <4>1 DEF RunOK, At
    <3>2. CASE q = e /\ a # e
      <4>1. Taken(e)  BY <1>4, <2>1, <3>2
      <4> QED BY <1>1, <1>2, <2>4, <2>5, <3>2, <4>1 DEF RunOK, At, Taken
    <3>3. CASE q = a /\ a # e
      <4>1. Taken(q)'  BY <2>2, <2>5, <3>3, RunsAreFinite DEF Taken
      <4> QED BY <2>2, <2>4, <2>5, <3>3, <4>1, RunTaken DEF TurnInv
    <3>4. CASE q # e /\ q # a
      <4>1. Raised(q)  BY <2>5, <3>4 DEF Raised
      <4> QED BY <1>2, <2>1, <2>4, <3>4, <4>1, RunFrame DEF TurnInv
    <3> QED BY <3>1, <3>2, <3>3, <3>4
  <2>8. RegistryOK'
    <3>1. \A q \in Runs : ~At(q, "join old")'  BY <1>5, <2>4 DEF At
    <3> QED BY <1>2, <3>1 DEF RegistryOK
  <2>9. a <= attempt /\ attempt \in Nat  BY <2>2, RunWasMade
  <2>10. \A q \in Runs : q > attempt => feedback'[q] = feedback[q]
    BY <2>5, <2>9, RunsAreFinite
  <2>11. run'[e].old <= attempt  BY <2>4, <2>9
  <2> QED BY <1>3, <2>4, <2>6, <2>7, <2>8, <2>10, <2>11, RegistryStepKeepsInv
<1> QED BY <1>6, <1>7


\* ---- The turn as a whole.

\* A run takes the steps of its own code.
LEMMA RunStepKeepsInv ==
  ASSUME TurnInv, NEW e \in Runs, attempt' = attempt, RunStep(e) \/ ThreadStep(e)
  PROVE  TurnInv'
BY BeginKeepsInv, JoinOldKeepsInv, StartKeepsInv, StopRegisteredKeepsInv, StopOwnKeepsInv, StopKeepsInv,
   CheckFreshKeepsInv, RecordKeepsInv, SendKeepsInv, ThreadStepKeepsInv DEF RunStep

\* A claim enters the run of the next attempt.
LEMMA EnterKeepsInv ==
  ASSUME TurnInv, attempt < MaxAttempts, attempt' = attempt + 1, EnterRun(attempt + 1),
         UNCHANGED <<live, recorded, told, lost, feedback, active, registryLock, late>>
  PROVE  TurnInv'
<1>1. attempt \in Nat /\ attempt + 1 \in Runs  BY ProgressAssumption DEF TurnInv, TurnTypeOK, Runs
<1>2. PICK e \in Runs : e = attempt + 1 /\ e > attempt  BY <1>1
<1>3. /\ run \in [Runs -> RunState] /\ run[e] = NoRun /\ feedback[e] = NoFeedback
      /\ RegistryOK /\ RunOK(e) /\ TurnTypeOK
  BY <1>2 DEF TurnInv, TurnTypeOK, RunsAreNew
<1>4. PICK own \in BOOLEAN :
        run' = [run EXCEPT ![e].pc = IF own THEN "start" ELSE "begin", ![e].own = own]
  BY <1>2 DEF EnterRun
<1>5. PICK r \in RunState : r = [NoRun EXCEPT !.pc = IF own THEN "start" ELSE "begin", !.own = own]
  BY DEF NoRun, RunState, RunPc
<1>6. /\ r.pc = (IF own THEN "start" ELSE "begin") /\ r.own = own /\ r.old = None /\ r.stage = Idle
  BY <1>5 DEF NoRun
<1>7. run' = [run EXCEPT ![e] = r]  BY <1>3, <1>4, <1>5
<1>8. /\ run' \in [Runs -> RunState] /\ \A q \in Runs : q # e => run'[q] = run[q]
      /\ run'[e] = r
  <2>1. run \in [Runs -> RunState] /\ r \in RunState  BY <1>3, <1>5
  <2> QED BY <1>7, <2>1
<1>9. active # e
  <2>1. run[e].pc = "none" /\ e # None  BY <1>3, RunsAreFinite DEF NoRun
  <2> QED BY <1>3, <2>1 DEF RegistryOK
<1>10. TurnTypeOK'
  <2>1. attempt' \in 0..MaxAttempts  BY <1>1, ProgressAssumption DEF Runs
  <2> QED BY <1>3, <1>8, <2>1 DEF TurnTypeOK
<1>11. ASSUME NEW q \in Runs PROVE RunOK(q)'
  <2>1. CASE q = e
    <3>1. /\ feedback'[e].pc = "none" /\ feedback'[e].takenBy = None
          /\ feedback[e].takenBy = None /\ ~feedback[e].gaveUp
      BY <1>3 DEF NoFeedback
    <3>2. e \notin late  BY <1>3, <3>1 DEF Taken, RunOK
    <3> QED BY <1>6, <1>8, <2>1, <3>1, <3>2 DEF RunOK, At, Taken
  <2>2. CASE q # e
    <3>1. Raised(q)  BY DEF Raised
    <3> QED BY <1>8, <2>2, <3>1, RunFrame DEF TurnInv
  <2> QED BY <2>1, <2>2
<1>12. RegistryOK'
  <2>1. \A q \in Runs : At(q, "join old")' => At(q, "join old")
    BY <1>6, <1>8 DEF At
  <2>2. active # None => active \in Runs /\ run'[active] = run[active]
    BY <1>3, <1>8, <1>9 DEF TurnTypeOK
  <2> QED BY <1>3, <2>1, <2>2 DEF RegistryOK
<1>13. RunsAreNew'
  <2> SUFFICES ASSUME NEW q \in Runs
               PROVE  (q > attempt + 1 => run'[q] = NoRun /\ feedback'[q] = NoFeedback)
                      /\ run'[q].old <= attempt + 1
    BY DEF RunsAreNew, NoRun, NoFeedback
  <2>1. q \in Nat  BY RunsAreFinite
  <2>2. CASE q = e
    <3>1. run'[q].old <= attempt + 1  BY <1>1, <1>6, <1>8, <2>2 DEF None
    <3> QED BY <1>1, <1>2, <2>2, <3>1
  <2>3. CASE q # e
    <3>1. (q > attempt => run[q] = NoRun /\ feedback[q] = NoFeedback) /\ run[q].old <= attempt
      BY DEF TurnInv, RunsAreNew
    <3>2. run[q].old \in Nat
      <4>1. run[q].old \in Runs \cup {None}  BY <1>3 DEF RunState
      <4> QED BY <4>1, RunsAreFinite DEF None
    <3>3. PICK n \in Nat : n = run[q].old  BY <3>2
    <3>4. n <= attempt + 1  BY <1>1, <3>1, <3>3
    <3>5. run'[q] = run[q]  BY <1>8, <2>3
    <3>6. q > attempt + 1 => q > attempt  BY <1>1, <2>1
    <3> QED BY <3>1, <3>3, <3>4, <3>5, <3>6
  <2> QED BY <2>2, <2>3
<1> QED BY <1>10, <1>11, <1>12, <1>13 DEF TurnInv

\* The process dies.
LEMMA CutKeepsInv ==
  ASSUME TurnInv, attempt' = attempt, CutRuns
  PROVE  TurnInv'
<1>1. /\ run \in [Runs -> RunState] /\ feedback \in [Runs -> FeedbackState] /\ TurnTypeOK
      /\ lost \subseteq Stages \cup {Queued} /\ attempt \in Nat
  BY RunsAreFinite, ProgressAssumption DEF TurnInv, TurnTypeOK
<1>2. ASSUME NEW q \in Runs
      PROVE  /\ run'[q] \in RunState /\ run'[q].old = None
             /\ \/ At(q, "none") /\ run'[q] = NoRun
                \/ run'[q].pc = "over" /\ run'[q].own = run[q].own
  <2>1. run[q] \in RunState  BY <1>1
  <2>2. CASE At(q, "none")
    <3>1. run'[q] = NoRun  BY <2>2 DEF CutRuns
    <3> QED BY <2>2, <3>1 DEF NoRun, RunState, RunPc
  <2>3. CASE ~At(q, "none")
    <3>1. run'[q] = [run[q] EXCEPT !.pc = "over", !.stage = Idle, !.old = None]  BY <2>3 DEF CutRuns
    <3> QED BY <2>1, <2>3, <3>1 DEF RunState, RunPc
  <2> QED BY <2>2, <2>3
<1>3. ASSUME NEW q \in Runs
      PROVE  /\ feedback'[q] \in FeedbackState /\ feedback'[q].takenBy = feedback[q].takenBy
             /\ feedback'[q].stop = feedback[q].stop /\ feedback'[q].gaveUp = feedback[q].gaveUp
             /\ feedback'[q].pc \in {"none", "done"}
             /\ feedback[q].pc = "none" => feedback'[q] = feedback[q]
  <2>1. feedback[q] \in FeedbackState  BY <1>1
  <2>2. PICK pc \in {"none", "done"} : pc = IF feedback[q].pc = "none" THEN feedback[q].pc ELSE "done"  OBVIOUS
  <2>3. feedback'[q] = [feedback[q] EXCEPT !.pc = pc]  BY <2>2 DEF CutRuns
  <2> QED BY <2>1, <2>2, <2>3 DEF FeedbackState
<1>4. /\ active' = None /\ registryLock' = None /\ UNCHANGED <<live, recorded, told, late>>
      /\ lost' = lost \cup {run[e].stage : e \in {r \in Runs : At(r, "send")}}
                      \cup {Queued : e \in {r \in Runs : AckPromised(r)}}
  BY DEF CutRuns
<1>5. TurnTypeOK'
  <2>1. run' \in [Runs -> RunState]
    <3>1. run' = [q \in Runs |-> run'[q]]  BY DEF CutRuns
    <3> QED BY <1>2, <3>1
  <2>2. feedback' \in [Runs -> FeedbackState]
    <3>1. feedback' = [q \in Runs |-> feedback'[q]]  BY DEF CutRuns
    <3> QED BY <1>3, <3>1
  <2>3. lost' \subseteq Stages \cup {Queued}
    <3>1. \A q \in Runs : At(q, "send") => run[q].stage \in Stages  BY DEF TurnInv, RunOK
    <3> QED BY <1>1, <1>4, <3>1
  <2> QED BY <1>1, <1>4, <2>1, <2>2, <2>3 DEF TurnTypeOK
<1>6. ASSUME NEW q \in Runs PROVE RunOK(q)'
  <2>1. RunOK(q)  BY DEF TurnInv
  <2>2. (q \in late)' => (feedback[q].gaveUp \/ Taken(q))'  BY <1>3, <1>4, <2>1 DEF RunOK, Taken
  <2>3. CASE At(q, "none") /\ run'[q] = NoRun
    <3>1. feedback'[q].pc = "none" /\ feedback'[q].takenBy = None
      BY <1>3, <2>1, <2>3 DEF RunOK, At
    <3> QED BY <2>2, <2>3, <3>1 DEF RunOK, At, NoRun
  <2>4. CASE run'[q].pc = "over" /\ run'[q].own = run[q].own
    <3>1. run'[q].own => feedback'[q].takenBy = None  BY <1>3, <2>1, <2>4 DEF RunOK
    <3> QED BY <1>3, <2>2, <2>4, <3>1 DEF RunOK, At
  <2> QED BY <1>2, <2>3, <2>4
<1>7. RegistryOK'
  <2>1. ASSUME NEW q \in Runs PROVE run'[q].pc # "join old"
    <3>1. NoRun.pc = "none"  BY DEF NoRun
    <3> QED BY <1>2, <3>1
  <2> QED BY <1>4, <2>1 DEF RegistryOK, At
<1>8. RunsAreNew'
  <2> SUFFICES ASSUME NEW q \in Runs
               PROVE  (q > attempt => run'[q] = NoRun /\ feedback'[q] = NoFeedback)
                      /\ run'[q].old <= attempt
    BY DEF RunsAreNew, NoRun, NoFeedback
  <2>1. run'[q].old <= attempt
    <3>1. None <= attempt  BY <1>1 DEF None
    <3> QED BY <1>2, <3>1
  <2>2. ASSUME q > attempt PROVE run'[q] = NoRun /\ feedback'[q] = NoFeedback
    <3>1. run[q] = NoRun /\ feedback[q] = NoFeedback  BY <2>2 DEF TurnInv, RunsAreNew
    <3>2. At(q, "none")  BY <3>1 DEF At, NoRun
    <3>4. run'[q] = NoRun  BY <3>2 DEF CutRuns
    <3> QED BY <1>3, <3>1, <3>4 DEF NoFeedback
  <2> QED BY <2>1, <2>2
<1> QED BY <1>5, <1>6, <1>7, <1>8 DEF TurnInv

LEMMA TurnInvHolds == Spec => []TurnInv
<1>1. Init => TurnInv
  <2> SUFFICES ASSUME Init PROVE TurnInv  OBVIOUS
  <2>1. ProgressInit /\ attempt = 0 /\ MaxAttempts \in Nat /\ Runs \subseteq Nat \ {0}
    BY ProgressAssumption, RunsAreFinite DEF Init
  <2>2. /\ run \in [Runs -> RunState] /\ feedback \in [Runs -> FeedbackState]
        /\ \A q \in Runs : run[q] = NoRun /\ feedback[q] = NoFeedback
    BY <2>1 DEF ProgressInit, NoRun, NoFeedback, RunState, RunPc, FeedbackState
  <2>3. TurnTypeOK  BY <2>1, <2>2 DEF ProgressInit, TurnTypeOK
  <2>4. RunsAreNew  BY <2>1, <2>2 DEF RunsAreNew, NoRun, None
  <2>5. RegistryOK  BY <2>1, <2>2 DEF RegistryOK, ProgressInit, At, NoRun
  <2>6. ASSUME NEW q \in Runs PROVE RunOK(q)
    <3>1. run[q] = NoRun /\ feedback[q] = NoFeedback /\ q \notin late  BY <2>1, <2>2 DEF ProgressInit
    <3> QED BY <3>1 DEF RunOK, At, NoRun, NoFeedback
  <2> QED BY <2>3, <2>4, <2>5, <2>6 DEF TurnInv
<1>2. TurnInv /\ [Next]_vars => TurnInv'
  <2> SUFFICES ASSUME TurnInv, [Next]_vars PROVE TurnInv'  OBVIOUS
  <2>1. CASE UNCHANGED progressVars /\ attempt' = attempt
    BY <2>1 DEF progressVars, turnVars, TurnInv, TurnTypeOK, RunsAreNew, RegistryOK, RunOK, At, Taken
  <2>2. CASE NewGeneration /\ attempt' = attempt
    BY <2>2 DEF NewGeneration, turnVars, TurnInv, TurnTypeOK, RunsAreNew, RegistryOK, RunOK, At, Taken
  <2> QED BY <2>1, <2>2, TurnSteps, RunStepKeepsInv, EnterKeepsInv, CutKeepsInv
<1> QED BY <1>1, <1>2, PTL DEF Spec

(* The worker acknowledges a turn after its end only where the code gives up    *)
(* waiting for the ack, or another run has taken the feedback off the registry. *)
THEOREM AcksAreInTime == Spec => []AcksComeInTime
<1>1. TurnInv => AcksComeInTime
  BY DEF TurnInv, TurnTypeOK, RunOK, Taken, AcksComeInTime
<1> QED BY <1>1, TurnInvHolds, PTL


\* ---- What becomes of a stage.

\* A run that promises the same before a step and after it.
SamePromise(q) ==
  /\ (run'[q].pc = "send") <=> (run[q].pc = "send")
  /\ run[q].pc = "send" => run'[q].stage = run[q].stage
  /\ (run'[q].own /\ feedback'[q].pc = "send") <=> (run[q].own /\ feedback[q].pc = "send")

LEMMA TellersKept ==
  ASSUME \A q \in Runs : SamePromise(q), NEW st
  PROVE  Tellers(st)' = Tellers(st)
BY DEF Tellers, SamePromise, AckPromised, At

LEMMA FateKept ==
  ASSUME NEW st, Fate(st), Tellers(st)' = Tellers(st), told'[st] = told[st],
         (st \in recorded') <=> (st \in recorded), (st \in lost') <=> (st \in lost)
  PROVE  Fate(st)'
BY DEF Fate

\* Steps that tell, record and promise nothing.
LEMMA QuietKeepsFates ==
  ASSUME FatesInv, UNCHANGED <<recorded, told, lost>>, \A q \in Runs : SamePromise(q)
  PROVE  FatesInv'
BY TellersKept, FateKept DEF FatesInv

LEMMA QuietRunSteps ==
  ASSUME TurnInv, NEW e \in Runs,
         \/ BeginProcessingFeedback(e) \/ JoinOld(e) \/ StartFeedback(e)
         \/ StopProcessingFeedback(e) \/ StopOwn(e) \/ SetStop(e) \/ JoinStopped(e) \/ CheckFresh(e)
  PROVE  UNCHANGED <<recorded, told, lost>> /\ \A q \in Runs : SamePromise(q)
<1>1. /\ run \in [Runs -> RunState] /\ feedback \in [Runs -> FeedbackState] /\ RunOK(e)
  BY DEF TurnInv, TurnTypeOK
<1>2. UNCHANGED <<recorded, told, lost>>
  BY DEF BeginProcessingFeedback, JoinOld, StartFeedback, StopProcessingFeedback, StopOwn, SetStop,
         JoinStopped, CheckFresh
<1>3. ASSUME NEW q \in Runs
      PROVE  /\ run'[q].own = run[q].own
             /\ (run'[q].pc = "send") <=> (run[q].pc = "send")
             /\ run[q].pc = "send" => run'[q].stage = run[q].stage
  <2>1. run[e].pc # "send"
    BY DEF BeginProcessingFeedback, JoinOld, StartFeedback, StopProcessingFeedback, StopOwn, SetStop,
           JoinStopped, CheckFresh, At
  <2>2. \E pc \in RunPc \ {"send"} : \/ run' = [run EXCEPT ![e].pc = pc]
                                     \/ \E old : run' = [run EXCEPT ![e].pc = pc, ![e].old = old]
    BY DEF BeginProcessingFeedback, JoinOld, StartFeedback, StopProcessingFeedback, StopOwn, SetStop,
           JoinStopped, CheckFresh, RunPc
  <2>3. PICK pc \in RunPc \ {"send"} : \/ run' = [run EXCEPT ![e].pc = pc]
                                      \/ \E old : run' = [run EXCEPT ![e].pc = pc, ![e].old = old]
    BY <2>2
  <2>4. run'[e].own = run[e].own /\ run'[e].pc = pc  BY <1>1, <2>3 DEF RunState
  <2>5. q # e => run'[q] = run[q]  BY <1>1, <2>3
  <2> QED BY <2>1, <2>3, <2>4, <2>5
<1>4. ASSUME NEW q \in Runs PROVE (feedback'[q].pc = "send") <=> (feedback[q].pc = "send")
  <2>1. CASE StartFeedback(e)
    <3>1. feedback[e].pc = "none"  BY <1>1, <2>1 DEF RunOK, At, StartFeedback
    <3> QED BY <1>1, <2>1, <3>1 DEF StartFeedback, FeedbackState
  <2>2. CASE JoinOld(e) \/ JoinStopped(e)
    <3>1. PICK o \in Runs : o = run[e].old  BY <1>1, <2>2 DEF RunOK, At, JoinOld, JoinStopped
    <3>2. Joined(e)  BY <2>2 DEF JoinOld, JoinStopped
    <3> QED BY <3>1, <3>2, JoinedRaises DEF Raised
  <2>3. CASE BeginProcessingFeedback(e) \/ StopProcessingFeedback(e)
    <3>1. active \in Runs \cup {None}  BY DEF TurnInv, TurnTypeOK
    <3>2. CASE active = None
      BY <2>3, <3>2 DEF BeginProcessingFeedback, StopProcessingFeedback
    <3>3. CASE active # None
      <4>1. PICK a \in Runs : a = active  BY <3>1, <3>3
      <4>2. \/ feedback' = [feedback EXCEPT ![a].stop = TRUE, ![a].takenBy = e]
            \/ feedback' = [feedback EXCEPT ![a].takenBy = e]
        BY <2>3, <3>3, <4>1 DEF BeginProcessingFeedback, StopProcessingFeedback
      <4> QED BY <1>1, <4>2 DEF FeedbackState
    <3> QED BY <3>2, <3>3
  <2>4. CASE StopOwn(e) \/ CheckFresh(e)  BY <2>4 DEF StopOwn, CheckFresh
  <2>5. CASE SetStop(e)  BY <1>1, <2>5 DEF SetStop, FeedbackState
  <2> QED BY <2>1, <2>2, <2>3, <2>4, <2>5
<1>5. ASSUME NEW q \in Runs PROVE SamePromise(q)
  <2>1. run'[q].own <=> run[q].own  BY <1>3
  <2>2. (run'[q].own /\ feedback'[q].pc = "send") <=> (run[q].own /\ feedback[q].pc = "send")
    BY <1>4, <2>1, Zenon
  <2>3. (run'[q].pc = "send") <=> (run[q].pc = "send")  BY <1>3
  <2>4. run[q].pc = "send" => run'[q].stage = run[q].stage  BY <1>3
  <2> QED BY <2>2, <2>3, <2>4, Zenon DEF SamePromise
<1> QED BY <1>2, <1>5

LEMMA RecordKeepsFates ==
  ASSUME TurnInv, FatesInv, NEW e \in Runs, NEW s \in Stages, RecordProgressSent(e, s)
  PROVE  FatesInv'
<1>1. /\ run \in [Runs -> RunState] /\ s # Queued
  BY ProgressAssumption DEF TurnInv, TurnTypeOK
<1>2. /\ run[e].pc = "work" /\ s \notin recorded /\ recorded' = recorded \cup {s}
      /\ run' = [run EXCEPT ![e].pc = "send", ![e].stage = s]
      /\ UNCHANGED <<told, lost, feedback>>
  BY DEF RecordProgressSent, At
<1>3. /\ run'[e].pc = "send" /\ run'[e].stage = s /\ run'[e].own = run[e].own
      /\ \A q \in Runs : q # e => run'[q] = run[q]
  BY <1>1, <1>2 DEF RunState
<1>4. ASSUME NEW st \in Stages \cup {Queued}, st # s PROVE Fate(st)'
  <2>1. Tellers(st)' = Tellers(st)  BY <1>1, <1>2, <1>3, <1>4 DEF Tellers, AckPromised, At
  <2> QED BY <1>2, <1>4, <2>1, FateKept DEF FatesInv
<1>5. Fate(s)'
  <2>1. told[s] = 0 /\ s \notin lost /\ Tellers(s) = {}  BY <1>2 DEF FatesInv, Fate
  <2>2. Tellers(s)' = {e}  BY <1>1, <1>2, <1>3, <2>1 DEF Tellers, At
  <2> QED BY <1>2, <2>1, <2>2 DEF Fate
<1> QED BY <1>4, <1>5 DEF FatesInv

LEMMA SendKeepsFates ==
  ASSUME TurnInv, FatesInv, NEW e \in Runs, SendStage(e)
  PROVE  FatesInv'
<1>1. /\ run \in [Runs -> RunState] /\ RunOK(e) /\ told \in [Stages \cup {Queued} -> Nat]
  BY DEF TurnInv, TurnTypeOK
<1>2. PICK s \in Stages : s = run[e].stage /\ run[e].pc = "send"
  BY <1>1 DEF RunOK, At, SendStage
<1>3. s # Queued /\ UNCHANGED <<recorded, feedback>>
  BY ProgressAssumption DEF SendStage
<1>4. \/ told' = [told EXCEPT ![s] = @ + 1] /\ lost' = lost
      \/ told' = told /\ lost' = lost \cup {s}
  BY <1>2 DEF SendStage
<1>5. /\ run'[e].pc # "send" /\ run'[e].own = run[e].own
      /\ \A q \in Runs : q # e => run'[q] = run[q]
  BY <1>1 DEF SendStage, RunState
<1>6. ASSUME NEW st \in Stages \cup {Queued}, st # s PROVE Fate(st)'
  <2>1. Tellers(st)' = Tellers(st)  BY <1>2, <1>3, <1>5, <1>6 DEF Tellers, AckPromised, At
  <2>2. told'[st] = told[st] /\ ((st \in lost') <=> (st \in lost))  BY <1>1, <1>4, <1>6
  <2> QED BY <1>3, <2>1, <2>2, FateKept DEF FatesInv
<1>7. Fate(s)'
  <2>1. e \in Tellers(s)  BY <1>2, <1>3 DEF Tellers, At
  <2>2. s \in recorded /\ told[s] = 0 /\ s \notin lost /\ Tellers(s) = {e}
    BY <2>1 DEF FatesInv, Fate
  <2>3. Tellers(s)' = {}  BY <1>3, <1>5, <2>2 DEF Tellers, At
  <2>4. (told'[s] = 1 /\ s \notin lost') \/ (told'[s] = 0 /\ s \in lost')
    <3>1. CASE told' = [told EXCEPT ![s] = @ + 1] /\ lost' = lost
      <4>1. told'[s] = told[s] + 1  BY <1>1, <3>1
      <4>2. told[s] = 0 /\ s \notin lost  BY <2>2
      <4>3. told'[s] = 1  BY <4>1, <4>2
      <4> QED BY <3>1, <4>2, <4>3, Zenon
    <3>2. CASE told' = told /\ lost' = lost \cup {s}  BY <2>2, <3>2
    <3> QED BY <1>4, <3>1, <3>2
  <2> QED BY <1>3, <2>2, <2>3, <2>4 DEF Fate
<1> QED BY <1>6, <1>7 DEF FatesInv

\* A thread's own step changes the promise of its own run only.
LEMMA ThreadMoves ==
  ASSUME TurnInv, NEW e \in Runs, NEW from, NEW pc, Thread(e, from, pc), run' = run
  PROVE  /\ feedback[e].pc = from /\ feedback'[e].pc = pc
         /\ \A q \in Runs : q # e => feedback'[q] = feedback[q]
         /\ \A q \in Runs : q # e => SamePromise(q)
<1>1. feedback \in [Runs -> FeedbackState]  BY DEF TurnInv, TurnTypeOK
<1>2. feedback[e].pc = from /\ feedback' = [feedback EXCEPT ![e].pc = pc]  BY DEF Thread
<1>3. feedback'[e].pc = pc /\ \A q \in Runs : q # e => feedback'[q] = feedback[q]
  BY <1>1, <1>2 DEF FeedbackState
<1> QED BY <1>2, <1>3 DEF SamePromise

LEMMA ThreadKeepsFates ==
  ASSUME TurnInv, FatesInv, NEW e \in Runs, ThreadStep(e)
  PROVE  FatesInv'
<1>1. /\ RunOK(e) /\ told \in [Stages \cup {Queued} -> Nat] /\ Fate(Queued) /\ Queued \notin Stages
  BY ProgressAssumption DEF TurnInv, TurnTypeOK, FatesInv
<1>2. run' = run  BY DEF ThreadStep, AckDelay, AckRecord, AckSend
<1>3. CASE AckDelay(e)
  <2>1. PICK pc : pc = CASE feedback[e].stop -> "done"
                         [] ~feedback[e].stop /\ run[e].own -> "check"
                         [] OTHER -> "send"
    OBVIOUS
  <2>2. pc = "send" => ~run[e].own  BY <2>1, Zenon
  <2>3. Thread(e, "waiting", pc) /\ UNCHANGED <<recorded, told, lost>>  BY <1>3, <2>1, Zenon DEF AckDelay
  <2>4. SamePromise(e)  BY <1>2, <2>2, <2>3, ThreadMoves DEF SamePromise
  <2>5. \A q \in Runs : SamePromise(q)  BY <1>2, <2>3, <2>4, ThreadMoves
  <2> QED BY <2>3, <2>5, QuietKeepsFates
<1>4. CASE AckRecord(e)
  <2>1. /\ UNCHANGED <<told, lost>> /\ recorded' = IF live THEN recorded \cup {Queued} ELSE recorded
        /\ Thread(e, "check", IF live /\ Queued \notin recorded THEN "send" ELSE "done")
    BY <1>4 DEF AckRecord
  <2>2. feedback[e].pc = "check" /\ run[e].own  BY <1>1, <2>1 DEF RunOK, Thread
  <2>3. CASE live /\ Queued \notin recorded
    <3>1. Thread(e, "check", "send")  BY <2>1, <2>3
    <3>2. /\ feedback'[e].pc = "send" /\ \A q \in Runs : q # e => feedback'[q] = feedback[q]
      BY <1>2, <3>1, ThreadMoves
    <3>3. Queued \in recorded' /\ \A st \in Stages : st \in recorded' <=> st \in recorded
      BY <1>1, <2>1, <2>3
    <3>4. Fate(Queued)'
      <4>1. told[Queued] = 0 /\ Queued \notin lost /\ Tellers(Queued) = {}  BY <1>1, <2>3 DEF Fate
      <4>2. Tellers(Queued)' = {e}  BY <1>2, <2>2, <3>2, <4>1 DEF Tellers, AckPromised
      <4> QED BY <2>1, <3>3, <4>1, <4>2 DEF Fate
    <3>5. ASSUME NEW st \in Stages PROVE Fate(st)'
      <4>1. Tellers(st)' = Tellers(st)  BY <1>1, <1>2 DEF Tellers, At
      <4> QED BY <2>1, <3>3, <4>1, FateKept DEF FatesInv
    <3> QED BY <3>4, <3>5 DEF FatesInv
  <2>4. CASE ~(live /\ Queued \notin recorded)
    <3>1. Thread(e, "check", "done") /\ recorded' = recorded  BY <2>1, <2>4
    <3>2. SamePromise(e)  BY <1>2, <2>2, <3>1, ThreadMoves DEF SamePromise
    <3>3. \A q \in Runs : SamePromise(q)  BY <1>2, <3>1, <3>2, ThreadMoves
    <3> QED BY <2>1, <3>1, <3>3, QuietKeepsFates
  <2> QED BY <2>3, <2>4
<1>5. CASE AckSend(e)
  <2>1. /\ UNCHANGED <<recorded, lost>> /\ Thread(e, "send", "done")
        /\ told' = IF run[e].own THEN [told EXCEPT ![Queued] = @ + 1] ELSE told
    BY <1>5 DEF AckSend
  <2>2. /\ feedback[e].pc = "send" /\ feedback'[e].pc = "done"
        /\ \A q \in Runs : q # e => feedback'[q] = feedback[q]
    BY <1>2, <2>1, ThreadMoves
  <2>3. CASE run[e].own
    <3>1. e \in Tellers(Queued)  BY <2>2, <2>3 DEF Tellers, AckPromised
    <3>2. Queued \in recorded /\ told[Queued] = 0 /\ Queued \notin lost /\ Tellers(Queued) = {e}
      BY <1>1, <3>1 DEF Fate
    <3>3. Tellers(Queued)' = {}  BY <1>2, <2>2, <3>2 DEF Tellers, AckPromised
    <3>4. told'[Queued] = 1 /\ \A st \in Stages : told'[st] = told[st]  BY <1>1, <2>1, <2>3, <3>2
    <3>5. Fate(Queued)'  BY <2>1, <3>2, <3>3, <3>4 DEF Fate
    <3>6. ASSUME NEW st \in Stages PROVE Fate(st)'
      <4>1. Tellers(st)' = Tellers(st)  BY <1>1, <1>2 DEF Tellers, At
      <4> QED BY <2>1, <3>4, <4>1, FateKept DEF FatesInv
    <3> QED BY <3>5, <3>6 DEF FatesInv
  <2>4. CASE ~run[e].own
    <3>1. SamePromise(e)  BY <1>2, <2>4 DEF SamePromise
    <3>2. \A q \in Runs : SamePromise(q)  BY <1>2, <2>1, <3>1, ThreadMoves
    <3> QED BY <2>1, <2>4, <3>2, QuietKeepsFates
  <2> QED BY <2>3, <2>4
<1> QED BY <1>3, <1>4, <1>5 DEF ThreadStep


LEMMA CutKeepsFates ==
  ASSUME TurnInv, FatesInv, CutRuns
  PROVE  FatesInv'
<1>1. /\ feedback \in [Runs -> FeedbackState] /\ Queued \notin Stages
      /\ \A q \in Runs : At(q, "send") => run[q].stage \in Stages
  BY ProgressAssumption DEF TurnInv, TurnTypeOK, RunOK
<1>2. /\ UNCHANGED <<told, recorded>>
      /\ lost' = lost \cup {run[q].stage : q \in {r \in Runs : At(r, "send")}}
                      \cup {Queued : q \in {r \in Runs : AckPromised(r)}}
  BY DEF CutRuns
<1>3. ASSUME NEW q \in Runs PROVE run'[q].pc # "send" /\ feedback'[q].pc # "send"
  <2>1. run'[q].pc # "send"
    <3>1. CASE At(q, "none")
      <4>1. run'[q] = NoRun  BY <3>1 DEF CutRuns
      <4> QED BY <4>1 DEF NoRun
    <3>2. CASE ~At(q, "none")
      <4>1. run'[q] = [run[q] EXCEPT !.pc = "over", !.stage = Idle, !.old = None]  BY <3>2 DEF CutRuns
      <4>2. run[q] \in RunState  BY DEF TurnInv, TurnTypeOK
      <4> QED BY <4>1, <4>2 DEF RunState
    <3> QED BY <3>1, <3>2
  <2>2. feedback'[q].pc # "send"
    <3>1. feedback[q] \in FeedbackState  BY <1>1
    <3>2. PICK pc \in {"none", "done"} : pc = IF feedback[q].pc = "none" THEN feedback[q].pc ELSE "done"  OBVIOUS
    <3>3. feedback'[q] = [feedback[q] EXCEPT !.pc = pc]  BY <3>2 DEF CutRuns
    <3> QED BY <3>1, <3>2, <3>3 DEF FeedbackState
  <2> QED BY <2>1, <2>2
<1>4. ASSUME NEW st PROVE Tellers(st)' = {}
  BY <1>3 DEF Tellers, AckPromised, At
<1>5. ASSUME NEW st \in Stages \cup {Queued}
      PROVE  st \in lost' <=> st \in lost \/ Tellers(st) # {}
  <2>1. CASE st = Queued
    BY <1>1, <1>2, <2>1 DEF Tellers
  <2>2. CASE st # Queued
    BY <1>2, <2>2 DEF Tellers
  <2> QED BY <2>1, <2>2
<1>6. ASSUME NEW st \in Stages \cup {Queued} PROVE Fate(st)'
  <2>1. Fate(st)  BY DEF FatesInv
  <2>2. (Tellers(st) = {} \/ \E q \in Runs : Tellers(st) = {q})  BY <2>1 DEF Fate
  <2>3. CASE Tellers(st) = {}
    <3>1. st \in lost' <=> st \in lost  BY <1>5, <2>3
    <3> QED BY <1>2, <1>4, <2>1, <2>3, <3>1 DEF Fate
  <2>4. CASE Tellers(st) # {}
    <3>1. st \in recorded /\ told[st] = 0  BY <2>1, <2>4 DEF Fate
    <3>2. st \in lost'  BY <1>5, <2>4
    <3> QED BY <1>2, <1>4, <3>1, <3>2 DEF Fate
  <2> QED BY <2>3, <2>4
<1> QED BY <1>6 DEF FatesInv

LEMMA EnterKeepsFates ==
  ASSUME TurnInv, FatesInv, attempt < MaxAttempts, EnterRun(attempt + 1),
         UNCHANGED <<recorded, told, lost, feedback>>
  PROVE  FatesInv'
<1>1. attempt \in Nat /\ attempt + 1 \in Runs  BY ProgressAssumption DEF TurnInv, TurnTypeOK, Runs
<1>2. PICK e \in Runs : e = attempt + 1 /\ e > attempt  BY <1>1
<1>3. /\ run \in [Runs -> RunState] /\ run[e] = NoRun /\ feedback[e] = NoFeedback
  BY <1>2 DEF TurnInv, TurnTypeOK, RunsAreNew
<1>4. run[e].pc = "none" /\ feedback[e].pc = "none"  BY <1>3 DEF NoRun, NoFeedback
<1>5. PICK own \in BOOLEAN, pc \in {"start", "begin"} :
        run' = [run EXCEPT ![e].pc = pc, ![e].own = own]
  BY <1>2 DEF EnterRun
<1>6. run'[e].pc = pc /\ \A q \in Runs : q # e => run'[q] = run[q]  BY <1>3, <1>5 DEF RunState
<1>7. ASSUME NEW q \in Runs PROVE SamePromise(q)
  <2>1. CASE q = e  BY <1>4, <1>6, <2>1 DEF SamePromise
  <2>2. CASE q # e  BY <1>6, <2>2 DEF SamePromise
  <2> QED BY <2>1, <2>2
<1> QED BY <1>7, QuietKeepsFates

LEMMA FatesHold == Spec => []FatesInv
<1>1. Init => FatesInv
  <2> SUFFICES ASSUME Init PROVE FatesInv  OBVIOUS
  <2>1. ProgressInit  BY DEF Init
  <2>2. \A q \in Runs : run[q].pc = "none" /\ feedback[q].pc = "none"
    BY <2>1 DEF ProgressInit, NoRun, NoFeedback
  <2>3. \A st : Tellers(st) = {}  BY <2>2 DEF Tellers, AckPromised, At
  <2> QED BY <2>1, <2>3 DEF ProgressInit, FatesInv, Fate
<1>2. TurnInv /\ FatesInv /\ [Next]_vars => FatesInv'
  <2> SUFFICES ASSUME TurnInv, FatesInv, [Next]_vars PROVE FatesInv'  OBVIOUS
  <2>1. CASE UNCHANGED progressVars
    BY <2>1 DEF progressVars, turnVars, FatesInv, Fate, Tellers, AckPromised, At
  <2>2. CASE NewGeneration
    BY <2>2 DEF NewGeneration, turnVars, FatesInv, Fate, Tellers, AckPromised, At
  <2>3. ASSUME NEW e \in Runs, RunStep(e) \/ ThreadStep(e) PROVE FatesInv'
    <3>1. CASE ThreadStep(e)  BY <3>1, ThreadKeepsFates
    <3>2. CASE RunStep(e)
      <4>1. CASE SendStage(e)  BY <4>1, SendKeepsFates
      <4>2. CASE \E s \in Stages : RecordProgressSent(e, s)  BY <4>2, RecordKeepsFates
      <4>3. CASE \/ BeginProcessingFeedback(e) \/ JoinOld(e) \/ StartFeedback(e)
                 \/ StopProcessingFeedback(e) \/ StopOwn(e) \/ SetStop(e) \/ JoinStopped(e) \/ CheckFresh(e)
        BY <4>3, QuietRunSteps, QuietKeepsFates
      <4> QED BY <3>2, <4>1, <4>2, <4>3 DEF RunStep
    <3> QED BY <2>3, <3>1, <3>2
  <2> QED BY <2>1, <2>2, <2>3, TurnSteps, EnterKeepsFates, CutKeepsFates
<1> QED BY <1>1, <1>2, TurnInvHolds, PTL DEF Spec

(* Whatever attempts of a turn overlap, are retried or cut off, no stage of it   *)
(* is told twice, and one that was recorded is told, about to be told, or lost.  *)
THEOREM StagesToldOnce == Spec => []StagesAreToldOnce
<1>1. TurnInv /\ FatesInv => StagesAreToldOnce
  <2> SUFFICES ASSUME TurnInv, FatesInv, NEW st \in Stages \cup {Queued}
               PROVE  LET senders == Cardinality({e \in Runs : At(e, "send") /\ run[e].stage = st})
                            + (IF st = Queued THEN Cardinality({e \in Runs : AckPromised(e)}) ELSE 0)
                      IN told[st] + senders + (IF st \in lost THEN 1 ELSE 0) = IF st \in recorded THEN 1 ELSE 0
    BY DEF StagesAreToldOnce
  <2>1. PICK n : n = Cardinality({e \in Runs : At(e, "send") /\ run[e].stage = st})
                     + (IF st = Queued THEN Cardinality({e \in Runs : AckPromised(e)}) ELSE 0)
    OBVIOUS
  <2>0. Tellers(st) = {} \/ \E e \in Runs : Tellers(st) = {e}  BY DEF FatesInv, Fate
  <2>2. n = Cardinality(Tellers(st))
    <3>1. CASE st = Queued
      <4>1. {e \in Runs : At(e, "send") /\ run[e].stage = st} = {}
        BY <3>1, ProgressAssumption DEF TurnInv, RunOK
      <4>2. Cardinality({e \in Runs : At(e, "send") /\ run[e].stage = st}) = 0  BY <4>1, FS_EmptySet
      <4>3. Tellers(st) = {e \in Runs : AckPromised(e)}  BY <3>1 DEF Tellers
      <4>4. Cardinality(Tellers(st)) \in Nat
        <5>1. CASE Tellers(st) = {}  BY <5>1, FS_EmptySet
        <5>2. ASSUME NEW e \in Runs, Tellers(st) = {e} PROVE Cardinality(Tellers(st)) \in Nat
          BY <5>2, FS_Singleton
        <5> QED BY <2>0, <5>1, <5>2
      <4> QED BY <2>1, <3>1, <4>2, <4>3, <4>4
    <3>2. CASE st # Queued
      <4>1. Tellers(st) = {e \in Runs : At(e, "send") /\ run[e].stage = st}  BY <3>2 DEF Tellers
      <4>2. Cardinality(Tellers(st)) \in Nat
        <5>1. CASE Tellers(st) = {}  BY <5>1, FS_EmptySet
        <5>2. ASSUME NEW e \in Runs, Tellers(st) = {e} PROVE Cardinality(Tellers(st)) \in Nat
          BY <5>2, FS_Singleton
        <5> QED BY <2>0, <5>1, <5>2
      <4> QED BY <2>1, <3>2, <4>1, <4>2
    <3> QED BY <3>1, <3>2
  <2>3. told[st] + n + (IF st \in lost THEN 1 ELSE 0) = IF st \in recorded THEN 1 ELSE 0
    <3>1. Fate(st)  BY DEF FatesInv
    <3>2. Tellers(st) = {} => n = 0  BY <2>2, FS_EmptySet
    <3>3. (\E e \in Runs : Tellers(st) = {e}) => n = 1  BY <2>2, FS_Singleton
    <3> QED BY <3>1, <3>2, <3>3 DEF Fate
  <2> QED BY <2>1, <2>3
<1> QED BY <1>1, TurnInvHolds, FatesHold, PTL

=============================================================================
