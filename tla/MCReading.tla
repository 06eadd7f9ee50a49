------------------------------ MODULE MCReading -----------------------------
(* One sender's session for TLC. A behaviour is about the dialogue, the        *)
(* delivery or the jobs of its document; what the others keep in the document  *)
(* stays as it is, but for the overview, which a recovery in the topic of the  *)
(* jobs needs too. Or it is about the busy columns of the row, which have      *)
(* nothing to do with the document.                                            *)
EXTENDS Reading, BusyGate

VARIABLE about

WithinTheTopic ==
  /\ about # "dialogue" => doc.pending = NoFields /\ ~doc.deferred /\ ~doc.chart.loose
  /\ about = "dialogue" => doc.stages.render # "working"
  /\ about = "dialogue" => doc.overview = NoJob
  /\ about # "delivery" => doc.progress.pages = "none"
  /\ about = "delivery" => doc.progress.stuck \in {"none", "render", "send"}
  /\ about # "jobs" => doc.job = NoJob /\ doc.state = "CHATTING"
  /\ about = "jobs" => doc.progress = NoProgress

MCInit ==
  /\ ReadingInit /\ GateInit
  /\ about \in {"dialogue", "delivery", "jobs", "gate"}
MCNext ==
  /\ UNCHANGED about
  /\ \/ about # "gate" /\ ReadingNext /\ WithinTheTopic' /\ UNCHANGED gateVars
     \/ about = "gate" /\ GateNext /\ UNCHANGED doc
MCSpec == MCInit /\ [][MCNext]_<<doc, gateVars, about>>

Interchangeable == Permutations(Dates)
=============================================================================
