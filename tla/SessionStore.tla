---------------------------- MODULE SessionStore ----------------------------
(***************************************************************************)
(* The session row of one sender (messenger_sessions), the statements of   *)
(* app/services/messenger_state_db.py over it, and the generation guard of *)
(* app/services/generation_guard.py that is meant to stop a chat turn from *)
(* writing or answering once the sender has moved on.                      *)
(*                                                                         *)
(* A session is loaded in one transaction and saved whole in another, so   *)
(* an actor works on snapshots. Of a snapshot's content only its descent   *)
(* matters: basis is the number of the wipe (creation, reset, correction,  *)
(* erasure) after which the content was written, and epoch counts wipes.   *)
(*                                                                         *)
(* Turn actors are chat_turn jobs: they pin the generation found at        *)
(* enqueue and run inside commit_guard. Writer actors are the handlers     *)
(* that load, change and save a session without a guard: payloads, support *)
(* handoff, donations, debug capture, the admin's bundle recovery.         *)
(***************************************************************************)
EXTENDS Naturals

CONSTANTS
  Gen,                   \* generation ids, uuids that are never drawn twice
  NoGen,                 \* no generation: no row, no pin, no guard
  Turn, Writer,          \* actors, each of which runs once
  EraseBound             \* deletions and anonymizations happen below this epoch

ASSUME GenAssumption == NoGen \notin Gen
ASSUME ActorAssumption == Turn \cap Writer = {}
ASSUME EraseAssumption == EraseBound \in Nat

VARIABLES
  db,        \* the row
  actor,     \* [Actor -> ActorState]
  issued,    \* generations drawn so far
  retired,   \* generations the row had and was given another for
  epoch,     \* the number of the last wipe
  bypassed   \* the row was written by an unguarded save, by a save after a
             \* reaffirmation or by an anonymization, which the guard does not see

vars == <<db, actor, issued, retired, epoch, bypassed>>

Actor == Turn \cup Writer

\* basis 0: cleared in memory and not yet saved.
Session == [gen : Gen, basis : Nat]
NoRow   == [gen |-> NoGen, basis |-> 0]

\* objs are the MessengerSession objects the actor still refers to.
ActorState == [pc : {"start", "queued", "working", "reaffirmed", "fresh", "done", "failed"},
               pin : Gen \cup {NoGen}, guard : Gen \cup {NoGen},
               objs : SUBSET Session, inserting : BOOLEAN]

TypeOK == /\ db \in Session \cup {NoRow}
          /\ actor \in [Actor -> ActorState]
          /\ issued \subseteq Gen
          /\ retired \subseteq issued
          /\ epoch \in Nat
          /\ bypassed \in BOOLEAN

Init == /\ db = NoRow
        /\ actor = [a \in Actor |-> [pc |-> IF a \in Turn THEN "start" ELSE "working",
                                     pin |-> NoGen, guard |-> NoGen, objs |-> {}, inserting |-> FALSE]]
        /\ issued = {} /\ retired = {}
        /\ epoch = 0 /\ bypassed = FALSE

-----------------------------------------------------------------------------
RowExists == db.gen # NoGen

\* The row becomes new; a generation that goes out of the row is retired.
PutRow(new) ==
  /\ db' = new
  /\ retired' = IF RowExists /\ new.gen # db.gen THEN retired \cup {db.gen} ELSE retired

\* The actor may load, change and save. A writer loads once.
Busy(a) == actor[a].pc \in {"working", "reaffirmed"} /\ ~actor[a].inserting
MayLoad(a) == IF a \in Turn THEN actor[a].pc \notin {"fresh", "done", "failed"} ELSE actor[a].objs = {}

NewRow(g) == [gen |-> g, basis |-> epoch + 1]

Keep(a, o)       == [actor EXCEPT ![a].objs = @ \cup {o}]
Replace(a, o, n) == [actor EXCEPT ![a].objs = (@ \ {o}) \cup {n}]

-----------------------------------------------------------------------------
(* Loading *)

\* The SELECT of get_or_create_ex; an absent row is inserted by a later statement.
Select(a) ==
  /\ ~actor[a].inserting /\ MayLoad(a)
  /\ actor' = IF RowExists THEN Keep(a, db) ELSE [actor EXCEPT ![a].inserting = TRUE]
  /\ UNCHANGED <<db, issued, retired, epoch, bypassed>>

\* The INSERT of get_or_create_ex has no ON CONFLICT clause: if another actor
\* created the row since the SELECT it raises, and the caller fails.
Insert(a, g) ==
  /\ actor[a].inserting
  /\ \/ /\ ~RowExists
        /\ PutRow(NewRow(g))
        /\ actor' = [actor EXCEPT ![a].inserting = FALSE, ![a].objs = @ \cup {NewRow(g)}]
        /\ issued' = issued \cup {g}
        /\ epoch' = epoch + 1
     \/ /\ RowExists
        /\ actor' = [actor EXCEPT ![a].inserting = FALSE, ![a].pc = "failed"]
        /\ UNCHANGED <<db, issued, retired, epoch>>
  /\ UNCHANGED bypassed

(* A chat turn *)

\* The webhook puts the generation of the session it loaded in the job's payload;
\* the job starts without that object.
PinGeneration(t, o) ==
  /\ actor[t].pc = "start" /\ o \in actor[t].objs
  /\ actor' = [actor EXCEPT ![t].pc = "queued", ![t].pin = o.gen, ![t].objs = {}]
  /\ UNCHANGED <<db, issued, retired, epoch, bypassed>>

\* skip_if_stale_job on the session the handler loaded, then commit_guard.
SkipIfStaleJob(t, o) ==
  /\ actor[t].pc = "queued" /\ o \in actor[t].objs
  /\ actor' = IF o.gen # actor[t].pin
                THEN [actor EXCEPT ![t].pc = "failed"]
                ELSE [actor EXCEPT ![t].pc = "working", ![t].guard = actor[t].pin]
  /\ UNCHANGED <<db, issued, retired, epoch, bypassed>>

\* bump_generation with the artifacts cleared, in memory: invalidate_current_reading,
\* the payload that edits the intake.
InvalidateReading(a, o, g) ==
  /\ Busy(a) /\ o \in actor[a].objs
  /\ actor' = Replace(a, o, [gen |-> g, basis |-> 0])
  /\ issued' = issued \cup {g}
  /\ UNCHANGED <<db, retired, epoch, bypassed>>

\* What a save of o writes: content cleared in memory starts a new epoch.
Written(o) == IF o.basis = 0 THEN [o EXCEPT !.basis = epoch + 1] ELSE o
CountWipe(o) == epoch' = IF o.basis = 0 THEN epoch + 1 ELSE epoch

\* After writing a generation of its own a turn may call reaffirm_commit_guard,
\* which re-arms the guard with it.
AfterOwnWrite(t, state, g) ==
  \/ actor' = state
  \/ actor[t].guard \notin {NoGen, g}
     /\ actor' = [state EXCEPT ![t].guard = g, ![t].pc = "reaffirmed"]

\* Slip: the predicate on generation_id is missing.
SaveIfCurrentUnchecked(t, o) ==
  /\ PutRow(Written(o))
  /\ CountWipe(o)
  /\ actor' = Replace(t, o, Written(o))

\* save_if_current_generation: the row must still have the expected generation.
SaveIfCurrentGeneration(t, o) ==
  \/ /\ db.gen = actor[t].guard
     /\ PutRow(Written(o))
     /\ CountWipe(o)
     /\ IF o.basis = 0 THEN AfterOwnWrite(t, Replace(t, o, Written(o)), o.gen)
                       ELSE actor' = Replace(t, o, Written(o))
  \/ /\ db.gen # actor[t].guard
     /\ actor' = [actor EXCEPT ![t].pc = "failed"]
     /\ UNCHANGED <<db, retired, epoch>>

\* save inside commit_guard.
GuardedSave(t, o) ==
  /\ t \in Turn /\ Busy(t) /\ o \in actor[t].objs
  /\ SaveIfCurrentGeneration(t, o)
  /\ bypassed' = (bypassed \/ actor[t].pc = "reaffirmed")
  /\ UNCHANGED issued

\* save outside commit_guard: _upsert writes or recreates the row, whatever it holds.
Upsert(w, o) ==
  /\ w \in Writer /\ Busy(w) /\ o \in actor[w].objs
  /\ PutRow(Written(o))
  /\ CountWipe(o)
  /\ actor' = [Replace(w, o, Written(o)) EXCEPT ![w].pc = "done"]
  /\ bypassed' = TRUE
  /\ UNCHANGED issued

\* Slip: a reset that keeps the generation.
ResetSameGeneration(a, g) ==
  /\ Busy(a) /\ RowExists /\ g \notin issued
  /\ PutRow(NewRow(db.gen))
  /\ epoch' = epoch + 1
  /\ UNCHANGED <<actor, issued, bypassed>>

\* reset goes through _upsert, guard or not; for a writer it is all it does.
Reset(a, g) ==
  /\ Busy(a)
  /\ PutRow(NewRow(g))
  /\ issued' = issued \cup {g}
  /\ epoch' = epoch + 1
  /\ IF a \in Turn THEN AfterOwnWrite(a, Keep(a, NewRow(g)), g)
                   ELSE actor[a].objs = {} /\ actor' = [actor EXCEPT ![a].pc = "done"]
  /\ UNCHANGED bypassed

\* Slip: the check compares the row with itself.
CheckFreshAlways(t) ==
  /\ actor[t].pc \in {"working", "reaffirmed"} /\ actor[t].guard # NoGen /\ ~actor[t].inserting
  /\ actor' = [actor EXCEPT ![t].pc = "fresh"]
  /\ UNCHANGED <<db, issued, retired, epoch, bypassed>>

\* check_fresh_or_raise before the final send.
CheckFreshOrRaise(t) ==
  /\ actor[t].pc \in {"working", "reaffirmed"} /\ actor[t].guard # NoGen /\ ~actor[t].inserting
  /\ actor' = [actor EXCEPT ![t].pc = IF db.gen = actor[t].guard THEN "fresh" ELSE "failed"]
  /\ UNCHANGED <<db, issued, retired, epoch, bypassed>>

SendReply(t) ==
  /\ actor[t].pc = "fresh"
  /\ actor' = [actor EXCEPT ![t].pc = "done"]
  /\ UNCHANGED <<db, issued, retired, epoch, bypassed>>

(* Erasure *)

\* delete_sender_all_data
DeleteSender ==
  /\ RowExists /\ epoch < EraseBound
  /\ PutRow(NoRow)
  /\ epoch' = epoch + 1
  /\ UNCHANGED <<actor, issued, bypassed>>

\* anonymize_sender_baseline replaces the content and leaves the generation.
AnonymizeSender ==
  /\ RowExists /\ epoch < EraseBound
  /\ PutRow(NewRow(db.gen))
  /\ epoch' = epoch + 1
  /\ bypassed' = TRUE
  /\ UNCHANGED <<actor, issued>>

-----------------------------------------------------------------------------
DrawsGeneration(a) ==
  \E g \in Gen \ issued : \/ Insert(a, g)
                          \/ Reset(a, g)
                          \/ \E o \in actor[a].objs : InvalidateReading(a, o, g)

TurnStep(t) == \/ \E o \in actor[t].objs : \/ PinGeneration(t, o)
                                           \/ SkipIfStaleJob(t, o)
                                           \/ GuardedSave(t, o)
               \/ CheckFreshOrRaise(t)
               \/ SendReply(t)

WriterStep(w) == \E o \in actor[w].objs : Upsert(w, o)

Next == \/ \E a \in Actor : Select(a) \/ DrawsGeneration(a)
        \/ \E t \in Turn : TurnStep(t)
        \/ \E w \in Writer : WriterStep(w)
        \/ DeleteSender \/ AnonymizeSender

Spec == Init /\ [][Next]_vars

-----------------------------------------------------------------------------
(* What the guard gives as long as nobody writes around it *)

\* A generation the row was moved away from never comes back, so a turn pinned
\* to it stays superseded.
RetiredStaysRetired == ~bypassed => db.gen \notin retired

\* The row's content descends from the last wipe: no snapshot taken before a
\* reset, a correction or a deletion is written after it.
ContentIsCurrent == ~bypassed /\ RowExists => db.basis = epoch

\* A turn that passes the check before its reply was never superseded: nothing
\* took the row away from the generation it answers for.
OnlyCurrentTurnsPassTheCheck ==
  [][\A t \in Turn : ~bypassed /\ actor[t].pc # "fresh" /\ actor'[t].pc = "fresh"
                      => actor[t].guard \notin retired]_vars
=============================================================================
