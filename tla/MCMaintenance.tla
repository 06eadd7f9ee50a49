--------------------------- MODULE MCMaintenance ---------------------------
(* Maintenance for TLC: three migrations, and the tables that matter for the   *)
(* order of each operation. A behaviour is about bootstraps alone, about one   *)
(* operation at a time beside bootstraps that nothing cuts, or about uploads   *)
(* of pictures beside the purge and the erasure of their rows.                 *)
EXTENDS Maintenance, Media

MCCreates == <<"profiles", "jobs", "tracking">>

MCScript ==
  [cleanup   |-> <<"jobs", "tracking">>,
   erase     |-> <<"jobs", "readings", "sessions", "profiles", "tracking">>,
   anonymize |-> <<"sessions", "readings", "profiles">>,
   reset     |-> <<"jobs", "readings", "sessions", "profiles", "tracking">>]

VARIABLE about

\* What turns write while the operation runs.
Written == {"jobs", "sessions"}

WithinTheTopic ==
  IF about = "bootstraps" THEN \A p \in Procs : tx[p] = NoTx
  ELSE /\ deaths = 0 /\ \A p \in Procs : boot[p].pc # "failed"
       /\ \A p, q \in Procs : tx[p].op # None /\ tx[q].op # None => p = q

MCInit ==
  /\ Init /\ MediaInit /\ about \in {"bootstraps", "operations", "uploads"}
  /\ about = "uploads" => schema = {} /\ files = {}

\* A step of the bootstraps and the operations, in the topic.
DatabaseStep ==
  /\ Next /\ WithinTheTopic'
  /\ rows' # rows => rows' \subseteq rows \/ (about = "operations" /\ rows' \ rows \subseteq Written)

MCNext ==
  /\ UNCHANGED about
  /\ \/ about # "uploads" /\ DatabaseStep /\ UNCHANGED mediaVars
     \/ about = "uploads" /\ MediaNext /\ UNCHANGED vars
MCSpec == MCInit /\ [][MCNext]_<<vars, mediaVars, about>> /\ Fairness
=============================================================================
