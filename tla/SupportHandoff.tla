--------------------------- MODULE SupportHandoff ---------------------------
(***************************************************************************)
(* execute_support_handoff (app/services/support_service.py): one support  *)
(* request, executed by a job and its retries, or by several at once. Each *)
(* execution finds or creates the ticket, reads it once, and then takes    *)
(* the conversation over and confirms to the customer, with a stage        *)
(* timestamp on the ticket written after each. It may raise or die between *)
(* any two of these steps. Staff give a conversation back to the bot, and  *)
(* a customer's data, the ticket with it, can be deleted.                  *)
(***************************************************************************)
EXTENDS Naturals, FiniteSets

CONSTANTS
  Exec,            \* executions with the same request_id
  MaxReturns,      \* staff give the conversation back at most so often
  MaxDeletions     \* deletions of the customer's data

ASSUME HandoffBounds == MaxReturns \in Nat /\ MaxDeletions \in Nat

VARIABLES
  ticket,        \* the row of support_tickets with this idempotency_key
  owner,         \* conversation_owner in the customer's profile
  exec,          \* [Exec -> Execution]
  confirm,       \* the request has a confirmation text
  acks,          \* confirmations the customer got
  takeovers,     \* times the bot was silenced for this request
  returns, deletions,
  excused        \* an execution was cut between an effect and its mark, two
                 \* overlapped, or the ticket was deleted

handoffVars == <<ticket, owner, exec, confirm, acks, takeovers, returns, deletions, excused>>

Stage == {"ticket_failed", "already_completed", "takeover_failed", "ack_failed", "completed",
          "raised", "none"}

\* row is the ticket as the execution read it.
Ticket == [exists : BOOLEAN, takeover : BOOLEAN, ack : BOOLEAN]
Pc        == {"idle", "fetch", "state", "enter", "mark_takeover", "confirm", "mark_ack", "end"}
Execution == [pc : Pc, row : Ticket, stage : Stage]
NoTicket == [exists |-> FALSE, takeover |-> FALSE, ack |-> FALSE]

TypeOK == /\ ticket \in Ticket
          /\ owner \in {"bot", "assistant"}
          /\ exec \in [Exec -> Execution]
          /\ confirm \in BOOLEAN
          /\ acks \in Nat /\ takeovers \in Nat
          /\ returns \in 0..MaxReturns /\ deletions \in 0..MaxDeletions
          /\ excused \in BOOLEAN

HandoffInit == /\ ticket = NoTicket
        /\ owner = "bot"
        /\ exec = [e \in Exec |-> [pc |-> "idle", row |-> NoTicket, stage |-> "none"]]
        /\ confirm \in BOOLEAN
        /\ acks = 0 /\ takeovers = 0 /\ returns = 0 /\ deletions = 0
        /\ excused = FALSE

-----------------------------------------------------------------------------
AtStep(e, pc) == exec[e].pc = pc
Go(e, pc) == exec' = [exec EXCEPT ![e].pc = pc]
Active    == {e \in Exec : exec[e].pc \notin {"idle", "end"}}

\* The ticket's mark is written by a conditional update, which does nothing if the
\* row is gone.
MarkTakeover == ticket' = [ticket EXCEPT !.takeover = ticket.exists]
MarkAck      == ticket' = [ticket EXCEPT !.ack = ticket.exists]

\* The HandoffExecutionResult. After a failed takeover or confirmation an error text
\* is tried first; it changes nothing here.
Finish(e, s) == exec' = [exec EXCEPT ![e].pc = "end", ![e].stage = s]

\* ensure_support_ticket: insert, or find the row another execution inserted.
EnsureSupportTicket(e) ==
  /\ AtStep(e, "idle")
  /\ \/ ticket' = [ticket EXCEPT !.exists = TRUE] /\ Go(e, "fetch")
     \/ UNCHANGED ticket /\ Finish(e, "ticket_failed")
  /\ excused' = (excused \/ Active # {})
  /\ UNCHANGED <<owner, confirm, acks, takeovers, returns, deletions>>

\* Slip: the row is fetched and its acknowledgement not looked at.
FetchAndContinue(e) ==
  /\ AtStep(e, "fetch")
  /\ exec' = [exec EXCEPT ![e].pc = "state", ![e].row = [ticket EXCEPT !.ack = FALSE]]
  /\ UNCHANGED <<ticket, owner, confirm, acks, takeovers, returns, deletions, excused>>

\* _fetch_ticket_by_idempotency_key, the only read of the ticket.
FetchTicket(e) ==
  /\ AtStep(e, "fetch")
  /\ \/ ~ticket.exists /\ Finish(e, "ticket_failed")
     \/ ticket.exists /\ ticket.ack /\ Finish(e, "already_completed")
     \/ /\ ticket.exists /\ ~ticket.ack
        /\ exec' = [exec EXCEPT ![e].pc = "state", ![e].row = ticket]
  /\ UNCHANGED <<ticket, owner, confirm, acks, takeovers, returns, deletions, excused>>

\* Where an execution goes once the takeover is done.
AfterTakeover(e) == IF confirm THEN Go(e, "confirm") ELSE Finish(e, "completed")

\* Slip: the confirmation does not wait for the takeover.
TransitionAndConfirm(e) ==
  /\ AtStep(e, "state")
  /\ AfterTakeover(e)
  /\ UNCHANGED <<ticket, owner, confirm, acks, takeovers, returns, deletions, excused>>

\* _transition_support_handoff_state saves the session; the takeover is skipped if
\* the ticket, as it was read, has it.
TransitionSupportHandoffState(e) ==
  /\ AtStep(e, "state")
  /\ IF exec[e].row.takeover THEN AfterTakeover(e) ELSE Go(e, "enter")
  /\ UNCHANGED <<ticket, owner, confirm, acks, takeovers, returns, deletions, excused>>

\* enter_assistant_takeover may raise before or after it has silenced the bot.
EnterAssistantTakeover(e) ==
  /\ AtStep(e, "enter")
  /\ \/ /\ owner' = "assistant"
        /\ takeovers' = takeovers + 1
        /\ \/ Go(e, "mark_takeover") /\ UNCHANGED excused
           \/ Finish(e, "takeover_failed") /\ excused' = TRUE
     \/ /\ Finish(e, "takeover_failed")
        /\ UNCHANGED <<owner, takeovers, excused>>
  /\ UNCHANGED <<ticket, confirm, acks, returns, deletions>>

\* _mark_takeover_completed; if it fails the execution apologizes for a takeover
\* that was made.
MarkTakeoverCompleted(e) ==
  /\ AtStep(e, "mark_takeover")
  /\ \/ MarkTakeover /\ AfterTakeover(e) /\ UNCHANGED excused
     \/ UNCHANGED ticket /\ Finish(e, "takeover_failed") /\ excused' = TRUE
  /\ UNCHANGED <<owner, confirm, acks, takeovers, returns, deletions>>

\* deliver_assistant_handoff_confirmation may raise before or after the customer
\* has the text.
DeliverConfirmation(e) ==
  /\ AtStep(e, "confirm")
  /\ \/ acks' = acks + 1 /\ Go(e, "mark_ack") /\ UNCHANGED excused
     \/ acks' = acks + 1 /\ Finish(e, "ack_failed") /\ excused' = TRUE
     \/ Finish(e, "ack_failed") /\ UNCHANGED <<acks, excused>>
  /\ UNCHANGED <<ticket, owner, confirm, takeovers, returns, deletions>>

\* _mark_ack_sent
MarkAckSent(e) ==
  /\ AtStep(e, "mark_ack")
  /\ \/ MarkAck /\ Finish(e, "completed") /\ UNCHANGED excused
     \/ UNCHANGED ticket /\ Finish(e, "ack_failed") /\ excused' = TRUE
  /\ UNCHANGED <<owner, confirm, acks, takeovers, returns, deletions>>

\* The execution raises out of the function, or its process dies.
Cut(e) ==
  /\ e \in Active
  /\ Finish(e, "raised")
  /\ excused' = (excused \/ exec[e].pc \in {"mark_takeover", "mark_ack"})
  /\ UNCHANGED <<ticket, owner, confirm, acks, takeovers, returns, deletions>>

\* Staff give the conversation back.
ReturnToBot ==
  /\ owner = "assistant" /\ returns < MaxReturns
  /\ owner' = "bot"
  /\ returns' = returns + 1
  /\ UNCHANGED <<ticket, exec, confirm, acks, takeovers, deletions, excused>>

\* delete_sender_all_data removes the ticket and the profile with the owner.
DeleteSender ==
  /\ deletions < MaxDeletions
  /\ deletions' = deletions + 1
  /\ ticket' = NoTicket
  /\ owner' = "bot"
  /\ excused' = TRUE
  /\ UNCHANGED <<exec, confirm, acks, takeovers, returns>>

Step(e) == \/ EnsureSupportTicket(e) \/ FetchTicket(e) \/ TransitionSupportHandoffState(e)
           \/ EnterAssistantTakeover(e) \/ MarkTakeoverCompleted(e)
           \/ DeliverConfirmation(e) \/ MarkAckSent(e)
           \/ Cut(e)

HandoffNext == (\E e \in Exec : Step(e)) \/ ReturnToBot \/ DeleteSender

HandoffSpec == HandoffInit /\ [][HandoffNext]_handoffVars

-----------------------------------------------------------------------------
\* Retries of a request silence the bot once and confirm once: an execution that
\* begins when the others have ended does neither again, whatever stage they
\* reached and even if staff gave the conversation back, unless one of them was
\* cut between the effect and its mark.
OncePerRequest == acks > 1 \/ takeovers > 1 => excused

\* The customer is told that staff take over only when the bot has been silenced,
\* by this execution or by one whose mark it read.
ConfirmedAfterTakeover == acks > 0 => takeovers > 0

\* An execution that reports success leaves the request handed over: the bot was
\* silenced, the customer told if there is something to tell, and the ticket says
\* so, unless it was deleted.
SuccessIsComplete ==
  \A e \in Exec : exec[e].stage \in {"completed", "already_completed"} =>
    /\ takeovers > 0
    /\ confirm => acks > 0
    /\ deletions = 0 => ticket.takeover /\ (confirm => ticket.ack)

\* Together: what the customer, the caller and the ticket are told is what was done.
HandoffIsWhole == ConfirmedAfterTakeover /\ SuccessIsComplete
=============================================================================
