------------------------------ MODULE Reading ------------------------------
(* The life of one session's reading: the dialogue about birth data (Profile), *)
(* the jobs that make a reading of them, what they note of their progress      *)
(* (services/delivery_progress.py, async_job_metadata.py), the combined        *)
(* analysis (combined_pipeline.py) and the operator's recovery of a bundle     *)
(* (api/admin_portal.py). A session is loaded and saved whole (SessionStore),  *)
(* so what is shown of every document holds of a stale one that is written     *)
(* back as well.                                                               *)
EXTENDS Profile

VARIABLE doc

(* ---- stages and progress -------------------------------------------------- *)

InitPipelineStages(d, g, compile) ==
  [d EXCEPT !.stages = [gen |-> g, compile |-> compile, bundle |-> "wait", render |-> "wait", send |-> "wait"]]

ResolvePs(d, g, allowInit, compile) ==
  IF d.stages.gen # g /\ allowInit THEN InitPipelineStages(d, g, compile) ELSE d

SetPipelineStages(d, g, allowInit, compile, changes) ==
  LET r == ResolvePs(d, g, allowInit, compile)
  IN IF r.stages.gen = g THEN [r EXCEPT !.stages = changes @@ @] ELSE r

MarkPipelineRenderOnlyStart(d, g) ==
  SetPipelineStages(d, g, TRUE, "skip",
    [compile |-> "skip", bundle |-> "skip", render |-> "working", send |-> "wait"])

MarkPipelineRenderComplete(d, g) ==
  SetPipelineStages(d, g, TRUE, "skip", [render |-> "ok", send |-> "working"])

InitDeliveryProgress(d, g) ==
  SetPipelineStages(
    [d EXCEPT !.progress = [NoProgress EXCEPT !.gen = g, !.date = d.date], !.locked = TRUE],
    g, TRUE, "ok", [compile |-> "ok", bundle |-> "wait", render |-> "wait", send |-> "wait"])

ResolveDp(d, g) == IF d.progress.gen = None THEN InitDeliveryProgress(d, g) ELSE d

UpdateInterpretationText(d, g) ==
  LET r == ResolveDp(d, g)
  IN IF r.progress.gen # g THEN d
     ELSE SetPipelineStages(r, g, TRUE, "skip", [bundle |-> "ok", render |-> "wait"])

SetPagesStatus(d, g, status) ==
  LET r == ResolveDp(d, g)
      paged == [r EXCEPT !.progress.pages = status]
  IN CASE r.progress.gen # g -> d
       [] r.progress.gen = g /\ status = "pending" -> MarkPipelineRenderComplete(paged, g)
       [] OTHER -> paged

SetStuckReason(d, g, stage) ==
  IF d.progress.gen # g THEN d
  ELSE SetPipelineStages([d EXCEPT !.progress.stuck = stage], g, FALSE, "skip", stage :> "failed")

MarkBundleDeliveryComplete(d, g) ==
  IF d.progress.gen # g THEN d
  ELSE SetPipelineStages([d EXCEPT !.progress.stuck = "none"], g, FALSE, "skip", [send |-> "ok"])

ProgressNotes(d, g) ==
  {MarkPipelineRenderOnlyStart(d, g), InitDeliveryProgress(d, g), UpdateInterpretationText(d, g),
   MarkBundleDeliveryComplete(d, g)}
  \cup {SetPagesStatus(d, g, status) : status \in {"pending", "sent"}}
  \cup {SetStuckReason(d, g, stage) : stage \in Stage}

(* ---- job metadata --------------------------------------------------------- *)

SetPendingJob(d, g) == [d EXCEPT !.job = [gen |-> g, status |-> "pending"]]

UpdatePendingJobStage(d, g) ==
  IF d.job.gen \notin {None, g} THEN d ELSE [d EXCEPT !.job = [gen |-> g, status |-> "pending"]]

MarkJobRunning(d, g) == IF d.job.gen # g THEN d ELSE [d EXCEPT !.job.status = "running"]

ClearPendingJob(d) == [d EXCEPT !.job = NoJob]

\* clear_pending_job_success, _failure: the handlers, not here, leave ANALYZING with it.
FinishJob(d) == [ClearPendingJob(d) EXCEPT !.state = "CHATTING"]

JobNotes(d, g) == {UpdatePendingJobStage(d, g), MarkJobRunning(d, g), FinishJob(d)}

(* ---- the combined analysis ------------------------------------------------ *)

\* validate_combined_sources: what the assets of the session allow.
Sources == {"none", "analyzing", "unusable", "ready"}

\* Slip: the job that enqueue found is not put in the session.
CombinedUnmarked(d, sources, answer) ==
  CASE HasChart(d) /\ sources = "ready" /\ answer \in {"new", "already_running", "retry_pending"} ->
         [d EXCEPT !.state = "ANALYZING", !.jobLoose = FALSE]
    [] OTHER -> d

TryEnqueueCombinedAnalysis(d, sources, answer) ==
  CASE ~HasChart(d) -> [d EXCEPT !.state = "CHATTING"]
    [] HasChart(d) /\ sources = "none" -> [d EXCEPT !.state = "INTAKE_PALM"]
    [] HasChart(d) /\ sources \in {"analyzing", "unusable"} -> d
    [] HasChart(d) /\ sources = "ready" /\ answer = "enqueue_error" ->
         [ClearPendingJob(d) EXCEPT !.jobLoose = TRUE]
    [] HasChart(d) /\ sources = "ready" /\ answer \in {"dead", "completed"} -> d
    [] OTHER -> [SetPendingJob(d, d.gen) EXCEPT !.state = "ANALYZING", !.jobLoose = FALSE]

(* ---- the operator's recovery ---------------------------------------------- *)

RecoveredGen(d) == IF d.overview.gen # None THEN d.overview.gen ELSE d.gen

\* With the interpretation of that generation complete; the new key always makes a job,
\* unless the database fails.
AdminRecoveryBundle(d, enqueued) ==
  LET g == RecoveredGen(d)
      asked == [d EXCEPT !.overview = [gen |-> g, status |-> "pending"]]
      marked == IF enqueued
                THEN [SetPendingJob(asked, g) EXCEPT
                        !.jobLoose = @ \/ g # d.gen]
                ELSE asked
  IN SetPipelineStages(marked, g, TRUE, "skip", [bundle |-> "wait"])

(* ---- actions -------------------------------------------------------------- *)

\* A message of the dialogue.
Message ==
  /\ doc' \in {ApplyBirthExtraction(doc, m) : m \in Messages}
  /\ doc'.gen <= MaxGen

ProfileSwitchButton ==
  \/ ProfileSwitchAcceptValid(doc) /\ doc.gen < MaxGen /\ doc' = PromotePendingProfile(doc)
  \/ ~BlockedForIntent(doc) /\ doc' = DeclinePendingProfile(doc)

BirthButton ==
  \/ doc.gen < MaxGen /\ doc' = IntakeEditButton(doc)
  \/ doc' \in {ConfirmEditButton(doc), QuickReply(doc)}

Chart ==
  /\ ~HasChart(doc)
  /\ IsBirthComplete(doc) \/ ProvisionalAcceptValid(doc)
  /\ doc' = MakeChart(doc)

\* Set while the customer is given time before the bundle; by code that is not here.
Defer == HasChart(doc) /\ doc' = [doc EXCEPT !.deferred = ~@]

Overview ==
  /\ HasChart(doc)
  /\ \E status \in {"pending", "completed"} :
       doc' = [doc EXCEPT !.overview = [gen |-> doc.gen, status |-> status]]

(* A job's handler runs under the guard of the job's generation and saves only *)
(* into a session of that generation. It works on the chart.                   *)
Work == HasChart(doc) /\ doc' \in ProgressNotes(doc, doc.gen)
WorkOnJob == HasChart(doc) /\ doc' \in JobNotes(doc, doc.gen)

Combined ==
  \E sources \in Sources,
     answer \in {"new", "already_running", "retry_pending", "completed", "dead", "enqueue_error"} :
    doc' = TryEnqueueCombinedAnalysis(doc, sources, answer)

Recovery ==
  /\ HasChart(doc)
  /\ \E enqueued \in BOOLEAN : doc' = AdminRecoveryBundle(doc, enqueued)

ReadingInit == doc = FreshDoc

ReadingNext ==
  \/ Message \/ ProfileSwitchButton \/ BirthButton \/ Chart
  \/ Defer \/ Overview \/ Work \/ WorkOnJob \/ Combined \/ Recovery

ReadingSpec == ReadingInit /\ [][ReadingNext]_doc

(* ---- what must hold ------------------------------------------------------- *)

(* Birth data that a message gives of somebody else are never the session's    *)
(* birth data before the customer has accepted the switch.                     *)
OthersStayOut ==
  ~doc.others /\ (doc.pending # NoFields => doc.awaiting)

(* The chart is of the date that the session holds, unless a message gave the  *)
(* date anew without saying so, or an edit button cleared it.                  *)
ChartIsOfTheDate ==
  HasChart(doc) => doc.chart.date = doc.date \/ doc.chart.loose

(* While a reading is delivered its date is locked, and is the session's date, *)
(* unless an edit button cleared it or it was given anew while the birth data  *)
(* were incomplete, the bundle deferred or everything failed.                  *)
DeliveryIsOfTheDate ==
  doc.progress.gen = doc.gen =>
    /\ doc.locked
    /\ doc.progress.date = doc.date \/ doc.progress.loose

(* A session that tells the customer to wait for an analysis notes a job of    *)
(* its generation, unless a later attempt could not be enqueued, an edit       *)
(* button outdated the job or an operator recovered a superseded bundle. That  *)
(* the job may run is the queue's answer: JobProducers!WaitersHaveAJob.        *)
AnalyzingHasAJob == doc.state = "ANALYZING" => doc.job.gen = doc.gen \/ doc.jobLoose
=============================================================================
