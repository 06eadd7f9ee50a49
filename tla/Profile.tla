------------------------------ MODULE Profile ------------------------------
(* What a session knows of whom it reads for: birth data, the chart made of    *)
(* them, another person's data that wait for a confirmation, the lock on the   *)
(* date. Operations take the session's document and give the next one          *)
(* (services/birth_profile_guard.py, profile_transition.py, the birth buttons  *)
(* of payload_handler.py, intent_confirmation.py). A date stands for day,      *)
(* month and year, "rest" for all other required fields.                       *)
EXTENDS Integers, TLC

CONSTANTS Dates, MaxGen

None == 0

ASSUME ProfileAssumption == None \notin Dates /\ MaxGen \in Nat \ {0}

NoFields == [date |-> None, rest |-> FALSE]
Fields == [date : Dates \cup {None}, rest : BOOLEAN]

\* What subject_detector and the extractor make of a message; both are not in the repository.
Messages ==
  [fields : Fields \ {NoFields}, subject : {"self", "third_party", "unclear"},
   signal : BOOLEAN,     \* has_birth_profile_signal
   selfEdit : BOOLEAN,   \* is_explicit_self_edit
   general : BOOLEAN,    \* is_general_hypothetical_question
   plain : BOOLEAN]      \* the words name the gender, not only a pronoun

Stage == {"compile", "bundle", "render", "send"}
NoStages == [gen |-> None] @@ [s \in Stage |-> "skip"]
NoProgress == [gen |-> None, pages |-> "none", stuck |-> "none", date |-> None, loose |-> FALSE]
NoChart == [date |-> None, loose |-> FALSE]
NoJob == [gen |-> None, status |-> "none"]

(* The document. Of the model alone are "others", whether the last merge took  *)
(* another person's data, and "loose", whether the chart, the progress or the  *)
(* job was since left behind in one of the ways that the code leaves open.     *)
FreshDoc ==
  [gen |-> 1, date |-> None, rest |-> FALSE, chart |-> NoChart, state |-> "CHATTING",
   pending |-> NoFields, awaiting |-> FALSE, deferred |-> FALSE, locked |-> FALSE,
   overview |-> NoJob, stages |-> NoStages, progress |-> NoProgress,
   job |-> NoJob, jobLoose |-> FALSE, others |-> FALSE]

HasChart(d) == d.chart.date # None
HasAnyBirthData(d) == d.date # None \/ d.rest
IsBirthComplete(d) == d.date # None /\ d.rest
HasProtectedProfile(d) == HasChart(d) \/ HasAnyBirthData(d)

(* ---- the lock on the date ------------------------------------------------- *)

IsBirthDateLocked(d) == d.locked /\ ~d.deferred

IsOverviewBenefitStarted(d) ==
  \/ d.overview.status \in {"pending", "running", "completed"}
  \/ d.stages.gen # None /\ \E s \in Stage : d.stages[s] \in {"working", "wait", "ok"}

BirthDateHeld(d) == IsBirthDateLocked(d) /\ IsOverviewBenefitStarted(d) /\ IsBirthComplete(d)

BirthDateChangeBlocked(d, fields) == BirthDateHeld(d) /\ fields.date \notin {None, d.date}

(* ---- transitions ---------------------------------------------------------- *)

BumpGeneration(d) == [d EXCEPT !.gen = @ + 1]

InvalidateCurrentReading(d) ==
  [BumpGeneration(d) EXCEPT !.chart = NoChart, !.state = "CHATTING", !.deferred = FALSE, !.locked = FALSE]

Update(d, fields, others) ==
  [d EXCEPT !.date = IF fields.date # None THEN fields.date ELSE @, !.rest = @ \/ fields.rest,
            !.others = others]

ApplySelfBirthCorrection(d, fields, others) == Update(InvalidateCurrentReading(d), fields, others)

\* Accepted: the pending data replace all birth data.
PromotePendingProfile(d) ==
  [InvalidateCurrentReading(d) EXCEPT !.date = d.pending.date, !.rest = d.pending.rest,
     !.pending = NoFields, !.awaiting = FALSE, !.others = FALSE]

DeclinePendingProfile(d) == [d EXCEPT !.pending = NoFields, !.awaiting = FALSE]

(* ---- apply_birth_extraction_to_session ------------------------------------ *)

AllowGenderMerge(d, m) ==
  m.subject # "third_party" /\ m.plain /\ (m.subject = "unclear" => d.rest)

Filtered(d, m) == [m.fields EXCEPT !.rest = @ /\ AllowGenderMerge(d, m)]

\* Slip: another person's data are ignored only when they are asked about.
IgnoredAsGeneral(d, m) ==
  Filtered(d, m) = NoFields \/ (m.general /\ HasProtectedProfile(d))

Ignored(d, m) ==
  \/ Filtered(d, m) = NoFields
  \/ m.general /\ HasProtectedProfile(d)
  \/ m.subject = "third_party" /\ ~m.signal

\* The three branches that keep the data aside and ask whose they are.
Asked(d, m) ==
  m.signal /\ \/ m.subject = "third_party"
              \/ m.subject = "unclear" /\ HasProtectedProfile(d)
              \/ HasChart(d) /\ ~m.selfEdit

\* Merged beside a chart, and in a delivery while the lock does not hold.
MergeInPlace(d, m) ==
  [Update(d, Filtered(d, m), m.subject = "third_party")
     EXCEPT !.chart.loose = @ \/ (HasChart(d) /\ ~m.signal),
            !.progress.loose = @ \/ (d.progress.gen = d.gen /\ ~BirthDateHeld(d))]

Merge(d, m) ==
  IF m.selfEdit /\ HasChart(d) THEN ApplySelfBirthCorrection(d, Filtered(d, m), m.subject = "third_party")
  ELSE MergeInPlace(d, m)

\* Slip: the lock is not asked.
ExtractUnlocked(d, m) ==
  CASE Ignored(d, m) -> d
    [] ~Ignored(d, m) /\ Asked(d, m) -> [d EXCEPT !.pending = Filtered(d, m), !.awaiting = TRUE]
    [] OTHER -> Merge(d, m)

ApplyBirthExtraction(d, m) ==
  CASE Ignored(d, m) -> d
    [] ~Ignored(d, m) /\ Asked(d, m) -> [d EXCEPT !.pending = Filtered(d, m), !.awaiting = TRUE]
    [] ~Ignored(d, m) /\ ~Asked(d, m) /\ BirthDateChangeBlocked(d, Filtered(d, m)) -> d
    [] OTHER -> Merge(d, m)

(* ---- buttons -------------------------------------------------------------- *)

\* _BLOCKED_FOR_INTENT; the other blocked states are set by code that is not here.
BlockedForIntent(d) == d.state = "ANALYZING"

ProvisionalAcceptValid(d) ==
  ~BlockedForIntent(d) /\ ~HasChart(d) /\ d.date # None /\ ~IsBirthComplete(d)
ProfileSwitchAcceptValid(d) == ~BlockedForIntent(d) /\ d.pending # NoFields

ClearedBirth(d) ==
  [d EXCEPT !.date = None, !.rest = FALSE, !.others = FALSE,
            !.chart.loose = HasChart(d), !.progress.loose = d.progress.gen = d.gen]

\* TV_INTAKE_EDIT gives a new generation, TV_CONFIRM_EDIT_INFO keeps it; neither asks the lock.
IntakeEditButton(d) == [ClearedBirth(BumpGeneration(d)) EXCEPT !.jobLoose = TRUE]
ConfirmEditButton(d) == ClearedBirth(d)
QuickReply(d) == [d EXCEPT !.rest = TRUE]

\* The chart engine, for complete data or for a provisional reading.
MakeChart(d) == [d EXCEPT !.chart = [date |-> d.date, loose |-> FALSE]]
=============================================================================
