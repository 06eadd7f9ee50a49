------------------------------ MODULE Progress ------------------------------
(* What a customer is told while a chat turn is worked on. Each attempt of the *)
(* turn's job is a run: it starts a feedback thread that acknowledges the turn *)
(* if it takes long (services/messenger_processing_feedback.py), and tells its *)
(* stages (services/job_progress.py). Runs of one job may overlap, a thread    *)
(* may outlive the run that stopped it, and the session may get a new          *)
(* generation meanwhile. The handlers that call these services are not in the  *)
(* repository: a run has the feedback of its sender's registry, or one of its  *)
(* own that acknowledges through make_queued_ack_sender, from entry to end.    *)
EXTENDS Naturals, FiniteSets

CONSTANTS
  MaxAttempts,   \* attempts that the job has
  Stages         \* what a run tells of itself: the stages that have a message

Queued == "queued"
Runs == 1..MaxAttempts
None == 0
Idle == "idle"

ASSUME ProgressAssumption == MaxAttempts \in Nat \ {0} /\ Queued \notin Stages /\ Idle \notin Stages

VARIABLES
  live,          \* is the generation of the job that of the session?
  recorded,      \* the job's rows of job_progress_sent
  told,          \* how often each stage was told
  lost,          \* stages whose sender was cut or refused between the row and the message
  run,           \* the run of each attempt
  feedback,      \* the thread of each run's ProcessingFeedback
  active,        \* _active of the sender: the run whose feedback is registered
  registryLock,  \* the run that holds _registry_lock for longer than one statement
  late           \* runs that were acknowledged after their feedback had been stopped

turnVars == <<recorded, told, lost, run, feedback, active, registryLock, late>>
progressVars == <<live, turnVars>>

NoRun == [pc |-> "none", own |-> FALSE, stage |-> Idle, old |-> None]
NoFeedback == [pc |-> "none", stop |-> FALSE, gaveUp |-> FALSE, takenBy |-> None]

ProgressInit ==
  /\ live = TRUE /\ recorded = {} /\ told = [st \in Stages \cup {Queued} |-> 0] /\ lost = {}
  /\ run = [e \in Runs |-> NoRun] /\ feedback = [e \in Runs |-> NoFeedback]
  /\ active = None /\ registryLock = None /\ late = {}

At(e, pc) == run[e].pc = pc
Acking(e) == feedback[e].pc \in {"check", "send"}

\* A reset or a correction of the session.
NewGeneration == live /\ live' = FALSE /\ UNCHANGED turnVars

(* ---- ProcessingFeedback: the calls of a run -------------------------------- *)

EnterRun(e) ==
  \E own \in BOOLEAN :
    run' = [run EXCEPT ![e].pc = IF own THEN "start" ELSE "begin", ![e].own = own]

\* pop takes the old one off the registry; its stop() follows under the same lock.
BeginProcessingFeedback(e) ==
  /\ At(e, "begin") /\ registryLock = None
  /\ IF active = None
     THEN /\ active' = e /\ run' = [run EXCEPT ![e].pc = "start"]
          /\ UNCHANGED <<feedback, registryLock>>
     ELSE /\ active' = None /\ registryLock' = e
          /\ feedback' = [feedback EXCEPT ![active].stop = TRUE, ![active].takenBy = e]
          /\ run' = [run EXCEPT ![e].pc = "join old", ![e].old = active]
  /\ UNCHANGED <<live, recorded, told, lost, late>>

\* The join ends with the thread, or after two seconds: it gives up an ack under way.
Joined(e) ==
  feedback' = [feedback EXCEPT ![run[e].old].gaveUp = @ \/ Acking(run[e].old)]

JoinOld(e) ==
  /\ At(e, "join old") /\ Joined(e)
  /\ active' = e /\ registryLock' = None
  /\ run' = [run EXCEPT ![e].pc = "start", ![e].old = None]
  /\ UNCHANGED <<live, recorded, told, lost, late>>

StartFeedback(e) ==
  /\ At(e, "start")
  /\ feedback' = [feedback EXCEPT ![e].pc = "waiting"]
  /\ run' = [run EXCEPT ![e].pc = "work"]
  /\ UNCHANGED <<live, recorded, told, lost, active, registryLock, late>>

\* stop_processing_feedback pops whatever is registered, and stops it after the lock.
StopProcessingFeedback(e) ==
  /\ run[e].pc \in {"work", "stopping"} /\ ~run[e].own /\ registryLock = None /\ active' = None
  /\ IF active = None
     THEN run' = [run EXCEPT ![e].pc = "over"] /\ UNCHANGED feedback
     ELSE /\ run' = [run EXCEPT ![e].pc = "stop", ![e].old = active]
          /\ feedback' = [feedback EXCEPT ![active].takenBy = e]
  /\ UNCHANGED <<live, recorded, told, lost, registryLock, late>>

StopOwn(e) ==
  /\ run[e].pc \in {"work", "stopping"} /\ run[e].own
  /\ run' = [run EXCEPT ![e].pc = "stop", ![e].old = e]
  /\ UNCHANGED <<live, recorded, told, lost, feedback, active, registryLock, late>>

SetStop(e) ==
  /\ At(e, "stop")
  /\ feedback' = [feedback EXCEPT ![run[e].old].stop = TRUE]
  /\ run' = [run EXCEPT ![e].pc = "join"]
  /\ UNCHANGED <<live, recorded, told, lost, active, registryLock, late>>

JoinStopped(e) ==
  /\ At(e, "join") /\ Joined(e)
  /\ run' = [run EXCEPT ![e].pc = "over", ![e].old = None]
  /\ UNCHANGED <<live, recorded, told, lost, active, registryLock, late>>

(* ---- ProcessingFeedback._run and its sender --------------------------------- *)

Thread(e, pc, next) == feedback[e].pc = pc /\ feedback' = [feedback EXCEPT ![e].pc = next]

\* Slip: the event is not looked at after the wait.
AckDeaf(e) ==
  /\ Thread(e, "waiting", IF run[e].own THEN "check" ELSE "send")
  /\ UNCHANGED <<live, recorded, told, lost, run, active, registryLock, late>>

\* _default_send_ack sends at once, the sender of make_queued_ack_sender asks first.
AckDelay(e) ==
  /\ Thread(e, "waiting",
            CASE feedback[e].stop -> "done"
              [] ~feedback[e].stop /\ run[e].own -> "check"
              [] OTHER -> "send")
  /\ UNCHANGED <<live, recorded, told, lost, run, active, registryLock, late>>

\* The session has the job's generation, and the row was not there.
AckRecord(e) ==
  /\ Thread(e, "check", IF live /\ Queued \notin recorded THEN "send" ELSE "done")
  /\ recorded' = IF live THEN recorded \cup {Queued} ELSE recorded
  /\ UNCHANGED <<live, told, lost, run, active, registryLock, late>>

AckSend(e) ==
  /\ Thread(e, "send", "done")
  /\ told' = IF run[e].own THEN [told EXCEPT ![Queued] = @ + 1] ELSE told
  /\ late' = IF At(e, "over") THEN late \cup {e} ELSE late
  /\ UNCHANGED <<live, recorded, lost, run, active, registryLock>>

(* ---- send_progress_stage ---------------------------------------------------- *)

\* check_fresh_or_raise: a superseded turn is told nothing more and ends.
CheckFresh(e) ==
  /\ At(e, "work") /\ ~live
  /\ run' = [run EXCEPT ![e].pc = "stopping"]
  /\ UNCHANGED <<live, recorded, told, lost, feedback, active, registryLock, late>>

\* Slip: the row that is there already is not noticed.
RecordUnasked(e, st) ==
  /\ At(e, "work") /\ live
  /\ recorded' = recorded \cup {st}
  /\ run' = [run EXCEPT ![e].pc = "send", ![e].stage = st]
  /\ UNCHANGED <<live, told, lost, feedback, active, registryLock, late>>

\* INSERT ... ON CONFLICT DO NOTHING RETURNING, of a turn that is still fresh.
RecordProgressSent(e, st) ==
  /\ At(e, "work") /\ live /\ st \notin recorded
  /\ recorded' = recorded \cup {st}
  /\ run' = [run EXCEPT ![e].pc = "send", ![e].stage = st]
  /\ UNCHANGED <<live, told, lost, feedback, active, registryLock, late>>

SendStage(e) ==
  /\ At(e, "send")
  /\ \/ /\ told' = [told EXCEPT ![run[e].stage] = @ + 1] /\ lost' = lost
        /\ run' = [run EXCEPT ![e].pc = "work", ![e].stage = Idle]
     \/ /\ lost' = lost \cup {run[e].stage} /\ told' = told     \* the send raises
        /\ run' = [run EXCEPT ![e].pc = "stopping", ![e].stage = Idle]
  /\ UNCHANGED <<live, recorded, feedback, active, registryLock, late>>

AckPromised(e) == run[e].own /\ feedback[e].pc = "send"

(* ---- together ---------------------------------------------------------------- *)

RunStep(e) ==
  \/ BeginProcessingFeedback(e) \/ JoinOld(e) \/ StartFeedback(e)
  \/ StopProcessingFeedback(e) \/ StopOwn(e) \/ SetStop(e) \/ JoinStopped(e)
  \/ CheckFresh(e) \/ (\E st \in Stages : RecordProgressSent(e, st)) \/ SendStage(e)

ThreadStep(e) == AckDelay(e) \/ AckRecord(e) \/ AckSend(e)

\* A process that dies takes its runs, threads and registry with it.
CutRuns ==
  /\ lost' = lost \cup {run[e].stage : e \in {r \in Runs : At(r, "send")}}
                  \cup {Queued : e \in {r \in Runs : AckPromised(r)}}
  /\ run' = [e \in Runs |-> IF At(e, "none") THEN NoRun ELSE [run[e] EXCEPT !.pc = "over", !.stage = Idle, !.old = None]]
  /\ feedback' = [e \in Runs |-> [feedback[e] EXCEPT !.pc = IF @ = "none" THEN @ ELSE "done"]]
  /\ active' = None /\ registryLock' = None
  /\ UNCHANGED <<live, recorded, told, late>>

(* ---- what must hold ---------------------------------------------------------- *)

(* Whatever runs overlap, are retried or cut: no stage is told twice, and one   *)
(* that was recorded is told, about to be told, or lost with its sender.        *)
StagesAreToldOnce ==
  \A st \in Stages \cup {Queued} :
    LET senders == Cardinality({e \in Runs : At(e, "send") /\ run[e].stage = st})
                 + (IF st = Queued THEN Cardinality({e \in Runs : AckPromised(e)}) ELSE 0)
    IN told[st] + senders + (IF st \in lost THEN 1 ELSE 0) = IF st \in recorded THEN 1 ELSE 0

(* A turn is acknowledged after its end only if the ack was under way when the  *)
(* feedback was stopped and the join gave it up after two seconds, or if        *)
(* another run had taken the feedback off the registry.                         *)
AcksComeInTime == \A e \in late : feedback[e].gaveUp \/ feedback[e].takenBy \notin {None, e}
=============================================================================
