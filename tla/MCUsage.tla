------------------------------ MODULE MCUsage ------------------------------
(* The free usage of Commerce for TLC, with the charges made so far beside it. *)
EXTENDS MCCommerce

VARIABLE charged   \* ids of the charges made

Charging(id) == \E g \in 1..lastGen : ChargeFreeUsage(g, id)

UsageInit == MCInit /\ service = "usage" /\ charged = {}
UsageNext == MCNext /\ charged' = charged \cup {id \in ChargeId : Charging(id)}
UsageSpec == UsageInit /\ [][UsageNext]_<<vars, handoffVars, service, charged>>

(* What charge_free_usage_if_generation says of itself, "charge_id dedupe" and  *)
(* "None if stale/duplicate/at-limit": a charge that was made is not made again *)
(* while the row keeps what it was told. The code does not keep it: the row     *)
(* remembers the last charge only.                                              *)
DuplicatesAreRefused ==
  [][\A id \in charged : ~past.usageLapse => ~Charging(id)]_<<vars, service, charged>>
=============================================================================
