------------------------------- MODULE Inbound -------------------------------
(***************************************************************************)
(* From Meta's webhook to the batch: app/api/messenger.py claims a message *)
(* id in the table webhook_dedupe, answers, and processes the message in a *)
(* background task of the web process, which puts it in the batch. Meta    *)
(* posts a message again when it got no answer. The table survives a       *)
(* restart of the process; tasks, timers and batches do not.               *)
(***************************************************************************)
EXTENDS InboundBatcher

CONSTANTS
  MaxPosts,     \* Meta posts a message at most so often
  MaxDeaths     \* restarts of the process

ASSUME PostAssumption == MaxPosts \in Nat /\ MaxDeaths \in Nat

VARIABLES
  posts,      \* [Msg -> Nat]
  dedupe,     \* the rows of webhook_dedupe
  tasks,      \* [Msg -> Nat] background tasks to run
  unsure,     \* messages let through though they may have been processed: the
              \* claim failed, or its row had been purged
  deaths,     \* restarts so far
  missed        \* messages a restart took away

inboundVars == <<posts, dedupe, tasks, unsure, deaths, missed>>
vars == <<batchVars, inboundVars>>

TypeOK == /\ BatcherTypeOK
          /\ posts \in [Msg -> 0..MaxPosts]
          /\ dedupe \subseteq Msg
          /\ tasks \in [Msg -> Nat]
          /\ unsure \subseteq Msg
          /\ deaths \in 0..MaxDeaths
          /\ missed \subseteq Msg

Init == /\ BatcherInit
        /\ posts = [m \in Msg |-> 0]
        /\ dedupe = {} /\ unsure = {} /\ missed = {}
        /\ tasks = [m \in Msg |-> 0]
        /\ deaths = 0

-----------------------------------------------------------------------------
\* Where a message of this process can be.
InBatch(m)    == m \in MsgsOf(batch.msgs)
InDelivery(m) == \E s \in delivering : m \in MsgsOf(s)
InProcess(m)  == tasks[m] > 0 \/ InBatch(m) \/ InDelivery(m)

\* Slip: the claim is read first and inserted by a later statement, so that two
\* posts of a message both find no row.
ClaimNothing(m) ==
  /\ tasks' = [tasks EXCEPT ![m] = @ + 1]
  /\ UNCHANGED <<dedupe, unsure>>

\* try_claim_webhook_delivery: the insert decides; an error counts as claimed.
TryClaim(m) ==
  \/ /\ m \notin dedupe
     /\ dedupe' = dedupe \cup {m}
     /\ tasks' = [tasks EXCEPT ![m] = @ + 1]
     /\ UNCHANGED unsure
  \/ /\ m \in dedupe
     /\ UNCHANGED <<dedupe, tasks, unsure>>
  \/ /\ unsure' = unsure \cup {m}
     /\ tasks' = [tasks EXCEPT ![m] = @ + 1]
     /\ UNCHANGED dedupe

\* receive_webhook
ReceiveWebhook(m) ==
  /\ posts[m] < MaxPosts
  /\ posts' = [posts EXCEPT ![m] = @ + 1]
  /\ TryClaim(m)
  /\ UNCHANGED <<batchVars, deaths, missed>>

\* The background task, as far as the batch.
RunTask(m) ==
  /\ tasks[m] > 0
  /\ tasks' = [tasks EXCEPT ![m] = @ - 1]
  /\ Enqueue(m)
  /\ UNCHANGED <<posts, dedupe, unsure, deaths, missed>>

\* run_webhook_dedupe_retention_cleanup, 24 hours later, or an erasure; neither asks
\* whether the message was processed.
PurgeDedupe(m) ==
  /\ m \in dedupe
  /\ dedupe' = dedupe \ {m}
  /\ unsure' = unsure \cup {m}
  /\ UNCHANGED <<batchVars, posts, tasks, deaths, missed>>

Restart ==
  /\ deaths < MaxDeaths
  /\ deaths' = deaths + 1
  /\ missed' = missed \cup {m \in Msg : InProcess(m)}
  /\ tasks' = [m \in Msg |-> 0]
  /\ ProcessDies
  /\ UNCHANGED <<posts, dedupe, unsure>>

Next == \/ \E m \in Msg : ReceiveWebhook(m) \/ RunTask(m) \/ PurgeDedupe(m)
        \/ BatcherStep /\ UNCHANGED inboundVars
        \/ Restart

Fairness == BatcherFairness /\ \A m \in Msg : WF_vars(RunTask(m))

Spec == Init /\ [][Next]_vars /\ Fairness

-----------------------------------------------------------------------------
\* However often Meta posts a message, and whenever the process restarts, one
\* callback at most is given it, as long as claims do not fail and are kept.
HandedOnce ==
  \A m \in Msg \ unsure : handed[m] + tasks[m] + (IF InBatch(m) THEN 1 ELSE 0)
                            + (IF InDelivery(m) THEN 1 ELSE 0) <= 1

\* A claimed message reaches a callback, or is cancelled or dropped with a callback
\* that raised, unless a restart takes it away; and a message whose enqueue
\* raised waits for the sender's next one.
ClaimedGetsThrough ==
  \A m \in Msg : m \in dedupe ~> \/ handed[m] > 0
                                \/ m \in dropped \cup missed
                                \/ (batch.raised /\ InBatch(m))
=============================================================================
