------------------------------ MODULE MCWorker ------------------------------
(* Worker for TLC: two slots, two kinds, one stage beside the queued ack. A    *)
(* behaviour is about the chat turn, whose runs may overlap, or about the      *)
(* other jobs.                                                                 *)
EXTENDS Worker

MCKinds == <<"chat_turn", "render_reading">>
MCStages == {"charting"}

VARIABLE about

\* Between the claims of the turn's attempts the slots rest, so that liveness is
\* about the other jobs.
WithinTheTopic ==
  IF about = "turn"
  THEN queue = {} /\ ~stop /\ main = "watching" /\ \A s \in Slots : slot[s].k <= 2 /\ slot[s].pc # "pass"
  ELSE live

MCInit == Init /\ about = (IF turn = "due" THEN "turn" ELSE "jobs")
MCNext == Next /\ UNCHANGED about /\ WithinTheTopic'
MCSpec == MCInit /\ [][MCNext]_<<vars, about>> /\ Fairness
=============================================================================
