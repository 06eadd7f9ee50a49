----------------------------- MODULE MCCommerce -----------------------------
(* What a customer asks for, for TLC. A behaviour uses one of the services of  *)
(* Commerce, beside the turns, payloads, resets and erasures that all of them  *)
(* meet, or hands one request to the support staff, which is a ticket's affair *)
(* and not the session's.                                                      *)
EXTENDS Commerce, SupportHandoff, TLC

VARIABLE service

OnlyTheService ==
  /\ order # <<>> \/ (\E c \in Call : At(c, "order")) => service = "order"
  /\ report # <<>> => service = "donation"
  /\ row.cta # NoCta \/ past.told # 0 \/ (\E c \in Call : call[c].pc \in {"meta", "baseline"}) => service = "cta"
  /\ row.usage # NoUsage \/ past.charges # 0 => service = "usage"
  /\ today > 1 => service \in {"cta", "usage"}
  /\ service = "usage" => \E c \in Call : At(c, "idle")   \* a charge is one statement
  /\ past.charges <= Limit + 1   \* a stale save gives charges back, without end

MCInit ==
  /\ Init /\ HandoffInit
  /\ service \in {"order", "donation", "cta", "usage", "support"}
  /\ service # "support" => ~confirm
MCNext ==
  /\ UNCHANGED service
  /\ \/ service # "support" /\ Next /\ OnlyTheService' /\ UNCHANGED handoffVars
     \/ service = "support" /\ HandoffNext /\ UNCHANGED vars
MCSpec == MCInit /\ [][MCNext]_<<vars, handoffVars, service>>

Interchangeable == Permutations(Call)
=============================================================================
