------------------------------ MODULE BusyGate ------------------------------
(***************************************************************************)
(* The gate that lets one message of a sender be worked on at a time       *)
(* (app/services/busy_gate.py over four columns of messenger_sessions).    *)
(* The webhook turns a message away while the row bears a mark, or puts    *)
(* its own mark there and enqueues a job; the job, whenever the queue      *)
(* runs it, verifies the mark and removes it in the end. A mark that is    *)
(* older than its lifetime may be taken over.                              *)
(*                                                                         *)
(* The job queue may run a job again, or twice at once (JobQueue with      *)
(* MayOverrun). A request draws one owner id, so it stands for its id.     *)
(***************************************************************************)
EXTENDS Naturals

CONSTANTS
  Request,       \* inbound messages, each with the job made of it
  Slot,          \* worker slots
  NoOwner,       \* busy_owner_id NULL
  MaxClears      \* forced clears and deletions of the row

ASSUME OwnerAssumption == NoOwner \notin Request
ASSUME ClearAssumption == MaxClears \in Nat

VARIABLES
  mark,        \* the busy columns of the row
  exists,      \* the sender has a row
  request,     \* [Request -> RequestState]: the webhook's progress
  slot,        \* [Slot -> Request \cup {NoOwner}]: the job a slot is working on
  told,        \* [Request -> Nat]: notices sent about a request being worked on
  released,    \* requests a release was made for
  lost,        \* requests whose mark was taken over, force-cleared or deleted
  excused,     \* requests two rejections told of at once, or one that was cut
               \* between its notice and the mark of it
  clears

gateVars == <<mark, exists, request, slot, told, released, lost, excused, clears>>

Owner == Request \cup {NoOwner}

\* age: the lifetime has not passed on any clock, on some, or on all. The web
\* process compares with its own clock, claim_busy with the database's.
Mark   == [owner : Owner, age : {"young", "disputed", "old"}, notice : BOOLEAN]
NoMark == [owner |-> NoOwner, age |-> "young", notice |-> FALSE]

\* about: the owner the request was turned away for.
Pc           == {"new", "notify", "marking", "claiming", "claimed", "queued", "dropped"}
RequestState == [pc : Pc, about : Owner]

GateTypeOK == /\ mark \in Mark
              /\ exists \in BOOLEAN
              /\ request \in [Request -> RequestState]
              /\ slot \in [Slot -> Owner]
              /\ told \in [Request -> Nat]
              /\ released \subseteq Request /\ lost \subseteq Request /\ excused \subseteq Request
              /\ clears \in 0..MaxClears

GateInit == /\ mark = NoMark
            /\ exists = TRUE
            /\ request = [q \in Request |-> [pc |-> "new", about |-> NoOwner]]
            /\ slot = [s \in Slot |-> NoOwner]
            /\ told = [q \in Request |-> 0]
            /\ released = {} /\ lost = {} /\ excused = {}
            /\ clears = 0

-----------------------------------------------------------------------------
At(q, pc) == request[q].pc = pc
Go(q, pc) == request' = [request EXCEPT ![q].pc = pc]

Held        == mark.owner # NoOwner
MayBeLive   == Held /\ mark.age # "old"
MayBeVacant == ~Held \/ mark.age # "young"

\* Whoever owns the mark loses it.
LoseMark == lost' = IF Held THEN lost \cup {mark.owner} ELSE lost

\* Rejections of the same owner that have not marked their notice yet.
Telling(o) == {q \in Request : request[q].pc \in {"notify", "marking"} /\ request[q].about = o}

(* The webhook *)

\* reject_if_busy reads the row and turns the message away; the first time it goes on
\* to send a notice.
RejectIfBusy(q) ==
  /\ At(q, "new") /\ MayBeLive
  /\ \/ mark.notice /\ Go(q, "dropped") /\ UNCHANGED excused
     \/ /\ ~mark.notice
        /\ request' = [request EXCEPT ![q] = [pc |-> "notify", about |-> mark.owner]]
        /\ excused' = IF Telling(mark.owner) = {} THEN excused ELSE excused \cup {mark.owner}
  /\ UNCHANGED <<mark, exists, slot, told, released, lost, clears>>

\* reject_if_busy finds no mark, or an expired one.
Admit(q) ==
  /\ At(q, "new") /\ MayBeVacant
  /\ Go(q, "claiming")
  /\ UNCHANGED <<mark, exists, slot, told, released, lost, excused, clears>>

SendNotice(q) ==
  /\ At(q, "notify")
  /\ told' = [told EXCEPT ![request[q].about] = @ + 1]
  /\ Go(q, "marking")
  /\ UNCHANGED <<mark, exists, slot, released, lost, excused, clears>>

\* Slip: the update does not look at the owner.
MarkNoticeOfAnyone(q) ==
  /\ At(q, "marking")
  /\ mark' = [mark EXCEPT !.notice = Held]
  /\ Go(q, "dropped")
  /\ UNCHANGED <<exists, slot, told, released, lost, excused, clears>>

\* mark_busy_notice_sent, if that owner still has the mark.
MarkNoticeSent(q) ==
  /\ At(q, "marking")
  /\ mark' = [mark EXCEPT !.notice = @ \/ mark.owner = request[q].about]
  /\ Go(q, "dropped")
  /\ UNCHANGED <<exists, slot, told, released, lost, excused, clears>>

\* claim_busy: one conditional update, which fails if somebody else was faster or
\* the sender has no row.
ClaimBusy(q) ==
  /\ At(q, "claiming")
  /\ \/ /\ exists /\ MayBeVacant
        /\ mark' = [owner |-> q, age |-> "young", notice |-> FALSE]
        /\ LoseMark
        /\ Go(q, "claimed")
     \/ /\ ~exists \/ MayBeLive
        /\ Go(q, "dropped")
        /\ UNCHANGED <<mark, lost>>
  /\ UNCHANGED <<exists, slot, told, released, excused, clears>>

EnqueueJob(q) ==
  /\ At(q, "claimed")
  /\ Go(q, "queued")
  /\ UNCHANGED <<mark, exists, slot, told, released, lost, excused, clears>>

\* Slip: the update does not look at the owner.
ClearAnyone(q) ==
  /\ mark' = NoMark
  /\ released' = released \cup {q}

\* release_busy: clear_busy_if_owner_matches.
ReleaseBusy(q) ==
  /\ mark' = IF mark.owner = q THEN NoMark ELSE mark
  /\ released' = released \cup {q}

\* The job cannot be enqueued.
GiveUp(q) ==
  /\ At(q, "claimed")
  /\ ReleaseBusy(q)
  /\ Go(q, "dropped")
  /\ UNCHANGED <<exists, slot, told, lost, excused, clears>>

\* The webhook's task raises or its process dies.
CutRequest(q) ==
  /\ request[q].pc \in {"notify", "marking", "claiming", "claimed"}
  /\ excused' = IF At(q, "marking") THEN excused \cup {request[q].about} ELSE excused
  /\ Go(q, "dropped")
  /\ UNCHANGED <<mark, exists, slot, told, released, lost, clears>>

(* The job *)

\* Slip: any mark will do.
VerifyBusyOnly(s, q) ==
  /\ slot[s] = NoOwner /\ At(q, "queued")
  /\ MayBeLive
  /\ slot' = [slot EXCEPT ![s] = q]
  /\ UNCHANGED <<mark, exists, request, told, released, lost, excused, clears>>

\* verify_busy_owner_or_raise. If it raises the execution ends and nothing changes.
VerifyBusyOwner(s, q) ==
  /\ slot[s] = NoOwner /\ At(q, "queued")
  /\ MayBeLive /\ mark.owner = q
  /\ slot' = [slot EXCEPT ![s] = q]
  /\ UNCHANGED <<mark, exists, request, told, released, lost, excused, clears>>

\* The turn ends, or its answer could not be sent.
FinishTurn(s) ==
  /\ slot[s] # NoOwner
  /\ ReleaseBusy(slot[s])
  /\ slot' = [slot EXCEPT ![s] = NoOwner]
  /\ UNCHANGED <<exists, request, told, lost, excused, clears>>

\* The slot's process dies, or the release raises: the mark stays.
CutTurn(s) ==
  /\ slot[s] # NoOwner
  /\ slot' = [slot EXCEPT ![s] = NoOwner]
  /\ UNCHANGED <<mark, exists, request, told, released, lost, excused, clears>>

(* The row *)

MarkAges ==
  /\ Held /\ mark.age # "old"
  /\ mark' = [mark EXCEPT !.age = IF @ = "young" THEN "disputed" ELSE "old"]
  /\ UNCHANGED <<exists, request, slot, told, released, lost, excused, clears>>

ForceClearBusy ==
  /\ clears < MaxClears
  /\ clears' = clears + 1
  /\ mark' = NoMark
  /\ LoseMark
  /\ UNCHANGED <<exists, request, slot, told, released, excused>>

\* delete_sender_all_data. A reset writes none of these columns.
DeleteSender ==
  /\ exists /\ clears < MaxClears
  /\ clears' = clears + 1
  /\ exists' = FALSE
  /\ mark' = NoMark
  /\ LoseMark
  /\ UNCHANGED <<request, slot, told, released, excused>>

\* get_or_create for the sender's next message.
CreateRow ==
  /\ ~exists
  /\ exists' = TRUE
  /\ UNCHANGED <<mark, request, slot, told, released, lost, excused, clears>>

-----------------------------------------------------------------------------
Webhook(q) == \/ RejectIfBusy(q) \/ Admit(q) \/ SendNotice(q) \/ MarkNoticeSent(q)
              \/ ClaimBusy(q) \/ EnqueueJob(q) \/ GiveUp(q) \/ CutRequest(q)

Job(s) == (\E q \in Request : VerifyBusyOwner(s, q)) \/ FinishTurn(s) \/ CutTurn(s)

GateNext == \/ \E q \in Request : Webhook(q)
            \/ \E s \in Slot : Job(s)
            \/ MarkAges \/ ForceClearBusy \/ DeleteSender \/ CreateRow

GateSpec == GateInit /\ [][GateNext]_gateVars

-----------------------------------------------------------------------------
\* Slots work on one request of a sender at a time, and the mark is that request's,
\* but for executions whose mark expired and was taken over, or was cleared or
\* deleted, or released by another execution of the same job.
OneTurnAtATime ==
  \A s \in Slot : slot[s] # NoOwner => \/ mark.owner = slot[s]
                                       \/ slot[s] \in lost \cup released

\* A request whose mark was released or lost is never worked on again, however
\* often the queue runs its job, and whoever has the mark now.
OverIsOver ==
  [][\A s \in Slot : slot'[s] # slot[s] /\ slot'[s] # NoOwner
                      => slot'[s] \notin lost \cup released]_gateVars

\* The sender is told once that a request is being worked on, unless two messages
\* were turned away at the same time or one was cut before it marked its notice.
ToldOnce == \A q \in Request \ excused : told[q] <= 1

\* The row says that a notice was sent only if it was, and about this very owner: a
\* late mark never silences the notice of the next one.
NoticeWasSent == mark.notice => Held /\ told[mark.owner] > 0

\* Together: each owner is told of once, and only what was sent is on record.
NoticesAgree == ToldOnce /\ NoticeWasSent
=============================================================================
