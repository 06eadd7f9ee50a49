------------------------------ MODULE Payments ------------------------------
(***************************************************************************)
(* Orders and donations of one customer (app/services/order_service.py,    *)
(* donate_service.py, user_profile_flags.py) beside the session row, which *)
(* the payload handler, the donation report and the donation's             *)
(* verification load in one transaction and save whole in another, outside *)
(* the commit guard.                                                       *)
(*                                                                         *)
(* Nothing waits for anything here: a call is a caller between two         *)
(* transactions, and holds what it read in the first. A call may be cut,   *)
(* and each write may fail.                                                *)
(***************************************************************************)
EXTENDS Naturals, Sequences

CONSTANTS
  Call,                  \* callers at work at the same time
  MaxOrder, MaxReport,   \* orders and reports made
  MaxGen,                \* generations of the session
  V9Persist              \* SESSION_V9_PERSIST_ENABLED: the cohort is a saved column

ASSUME BoundAssumption == MaxOrder \in Nat /\ MaxReport \in Nat /\ MaxGen \in Nat
ASSUME PersistAssumption == V9Persist \in BOOLEAN

VARIABLES
  order,      \* the orders' statuses, in the order of their ids
  report,     \* the donation reports' statuses
  paidOnce,   \* the profile's mirror flag
  row,        \* the session row; generation 0: there is none
  lastGen,    \* the last generation given out
  call,       \* [Call -> CallState]
  past        \* what has happened so far

payVars == <<order, report, paidOnce, row, lastGen, call, past>>

OrderStatus  == {"draft", "verification_pending", "paid_verified", "verify_failed", "manual_review", "deleted"}
ReportStatus == {"reported", "verified", "rejected", "deleted"}
Verdict      == {"verified", "verify_failed", "manual_review"}

\* order 0: none. flow is what active_flow makes of the entitlement. Days are counted
\* from 1; 0 is never.
Cta     == [first : BOOLEAN, last : Nat, base : Nat]
Usage   == [day : Nat, used : Nat, lastCharge : Nat]
Session == [gen : Nat, state : {"chatting", "checkout", "donate_reported", "donate_verified"},
            order : Nat, flow : {"free", "paid"}, granted : BOOLEAN, cta : Cta, usage : Usage]
NoCta   == [first |-> FALSE, last |-> 0, base |-> 0]
NoUsage == [day |-> 0, used |-> 0, lastCharge |-> 0]
FreshSession(g) == [gen |-> g, state |-> "chatting", order |-> 0, flow |-> "free", granted |-> FALSE,
                    cta |-> NoCta, usage |-> NoUsage]
NoRow == FreshSession(0)

\* Between two transactions: which comes next, the session held, the order read, its
\* status then, and the verdict to apply.
CallState == [pc : {"idle", "order", "flow", "save", "guarded", "apply", "mirror", "report", "grant",
                    "meta", "send", "patch", "baseline"},
              snap : Session, read : OrderStatus, id : Nat, verdict : Verdict, reason : {"initial", "returning"}]
Idle == [pc |-> "idle", snap |-> NoRow, read |-> "draft", id |-> 0, verdict |-> "verified", reason |-> "initial"]

\* Confirmed by an operator so far: a payment, a donation. Lapses: the row lost its
\* order, a CTA sent, or a charge. Told: the last day of a CTA, and if the first
\* was sent. Charges: those of the day.
Past == [payment : BOOLEAN, donation : BOOLEAN, orderLapse : BOOLEAN, ctaLapse : BOOLEAN,
         usageLapse : BOOLEAN, told : Nat, toldFirst : BOOLEAN, charges : Nat]

PayInit == /\ order = <<>> /\ report = <<>> /\ paidOnce = FALSE
           /\ row = NoRow /\ lastGen = 0
           /\ call = [c \in Call |-> Idle]
           /\ past = [payment |-> FALSE, donation |-> FALSE, orderLapse |-> FALSE, ctaLapse |-> FALSE,
                      usageLapse |-> FALSE, told |-> 0, toldFirst |-> FALSE, charges |-> 0]

-----------------------------------------------------------------------------
(* The session row *)

RowExists == row.gen # 0

At(c, pc) == call[c].pc = pc
Hold(c, pc, s) == call' = [call EXCEPT ![c].pc = pc, ![c].snap = s]
Settle(c) == call' = [call EXCEPT ![c] = Idle]

\* get_or_create, its two statements in one: an absent row is created.
CanLoad == RowExists \/ lastGen < MaxGen
Loaded  == IF RowExists THEN row ELSE FreshSession(lastGen + 1)
LoadedGen == IF RowExists THEN lastGen ELSE lastGen + 1
Load    == row' = Loaded /\ lastGen' = LoadedGen

\* The columns a save writes; the cohort is one of them only when persisted.
Saved(s) == IF V9Persist THEN s ELSE [s EXCEPT !.granted = row.granted]

\* What the row loses when s takes its place.
Lose(s) == past' = [past EXCEPT !.orderLapse = @ \/ row.order \notin {0, s.order},
                                !.ctaLapse   = @ \/ row.cta # s.cta,
                                !.usageLapse = @ \/ row.usage # s.usage]

\* save outside commit_guard writes or recreates the row.
SaveSession(c) ==
  /\ At(c, "save")
  /\ row' = Saved(call[c].snap) /\ Lose(call[c].snap)
  /\ Settle(c)
  /\ UNCHANGED <<order, report, paidOnce, lastGen>>

\* A chat turn saves inside commit_guard, or finds its generation gone.
TurnLoad(c) ==
  /\ At(c, "idle") /\ RowExists
  /\ Hold(c, "guarded", [row EXCEPT !.state = "chatting"])
  /\ UNCHANGED <<order, report, paidOnce, row, lastGen, past>>

GuardedSave(c) ==
  /\ At(c, "guarded")
  /\ IF row.gen = call[c].snap.gen
       THEN row' = Saved(call[c].snap) /\ Lose(call[c].snap)
       ELSE UNCHANGED <<row, past>>
  /\ Settle(c)
  /\ UNCHANGED <<order, report, paidOnce, lastGen>>

\* A caller that is cut, or whose next statement fails: an order not saved in the
\* session and a CTA not recorded are lost.
GiveUp(c) ==
  /\ ~At(c, "idle")
  /\ Settle(c)
  /\ past' = [past EXCEPT !.orderLapse = @ \/ call[c].snap.order \notin {0, row.order},
                          !.ctaLapse   = @ \/ At(c, "patch")]
  /\ UNCHANGED <<order, report, paidOnce, row, lastGen>>

-----------------------------------------------------------------------------
(* Payloads *)

\* get_order_for_session: the session's order, else the customer's latest.
LiveOrders == {o \in DOMAIN order : order[o] # "deleted"}
OrderOf(s) == IF s.order # 0 THEN LiveOrders \cap {s.order}
                             ELSE {o \in LiveOrders : \A p \in LiveOrders : p <= o}

\* entitlement_paid_unlocked
PaidUnlocked(s) == \E o \in OrderOf(s) : order[o] = "paid_verified"

\* apply_structured_payload up to its save: most branches only sync the flow ...
PayloadLoad(c) ==
  /\ At(c, "idle") /\ CanLoad
  /\ Load
  /\ Hold(c, "flow", Loaded)
  /\ UNCHANGED <<order, report, paidOnce, past>>

\* ... the payment link makes an order first ...
OpenPayment(c) ==
  /\ At(c, "idle") /\ CanLoad
  /\ Load
  /\ Hold(c, "order", Loaded)
  /\ UNCHANGED <<order, report, paidOnce, past>>

\* ... and the edit of the intake takes a new generation.
IntakeEdit(c) ==
  /\ At(c, "idle") /\ CanLoad /\ LoadedGen < MaxGen
  /\ row' = Loaded
  /\ lastGen' = LoadedGen + 1
  /\ Hold(c, "flow", [Loaded EXCEPT !.gen = LoadedGen + 1])
  /\ UNCHANGED <<order, report, paidOnce, past>>

\* An order this caller did not read: saved meanwhile, or held by another.
Unseen(c) == /\ call[c].snap.order = 0
             /\ \/ row.order # 0
                \/ \E d \in Call \ {c} : call[d].pc \in {"flow", "save", "guarded"} /\ call[d].snap.order # 0

CreateDraftOrder(c) ==
  /\ Len(order) < MaxOrder
  /\ order' = Append(order, "draft")
  /\ Hold(c, "flow", [call[c].snap EXCEPT !.order = Len(order) + 1, !.state = "checkout"])
  /\ past' = [past EXCEPT !.orderLapse = @ \/ Unseen(c)]

\* Slip: a second press makes a second order.
EnsureCheckoutOrderAnew(c) ==
  /\ At(c, "order")
  /\ CreateDraftOrder(c)
  /\ UNCHANGED <<report, paidOnce, row, lastGen>>

\* _ensure_checkout_order: a draft is made in a transaction of its own.
EnsureCheckoutOrder(c) ==
  /\ At(c, "order")
  /\ \/ call[c].snap.order = 0 /\ CreateDraftOrder(c)
     \/ /\ call[c].snap.order # 0
        /\ Hold(c, "flow", [call[c].snap EXCEPT !.state = "checkout"])
        /\ UNCHANGED <<order, past>>
  /\ UNCHANGED <<report, paidOnce, row, lastGen>>

\* _sync_active_flow reads the entitlement before the save.
SyncActiveFlow(c) ==
  /\ At(c, "flow")
  /\ Hold(c, "save", [call[c].snap EXCEPT !.flow = IF PaidUnlocked(call[c].snap) THEN "paid" ELSE "free"])
  /\ UNCHANGED <<order, report, paidOnce, row, lastGen, past>>

-----------------------------------------------------------------------------
(* Verification of an order, by hand *)

MarkVerificationPending(o) ==
  /\ order[o] \in {"draft", "verify_failed"}
  /\ order' = [order EXCEPT ![o] = "verification_pending"]
  /\ UNCHANGED <<report, paidOnce, row, lastGen, call, past>>

\* Slip: a verified order is taken up like any other.
ReadAnyOrder(c, o, verdict) ==
  /\ At(c, "idle") /\ order[o] # "deleted"
  /\ call' = [call EXCEPT ![c] = [Idle EXCEPT !.pc = "apply", !.read = order[o], !.id = o, !.verdict = verdict]]
  /\ UNCHANGED <<order, report, paidOnce, row, lastGen, past>>

\* apply_verification_result reads the order and leaves a verified one alone ...
ReadOrder(c, o, verdict) ==
  /\ At(c, "idle") /\ order[o] # "deleted"
  /\ ~(order[o] = "paid_verified" /\ verdict # "verified")
  /\ call' = [call EXCEPT ![c] = [Idle EXCEPT !.pc = "apply", !.read = order[o], !.id = o, !.verdict = verdict]]
  /\ UNCHANGED <<order, report, paidOnce, row, lastGen, past>>

\* ... writes the verdict by id, whatever the order is by now ...
ApplyVerificationResult(c) ==
  LET o == call[c].id
      verified == call[c].verdict = "verified" IN
  /\ At(c, "apply")
  /\ IF order[o] = "deleted"
       THEN Settle(c) /\ UNCHANGED <<order, past>>
       ELSE /\ order' = [order EXCEPT ![o] = IF verified THEN "paid_verified" ELSE call[c].verdict]
            /\ past' = [past EXCEPT !.payment = @ \/ verified]
            /\ call' = [call EXCEPT ![c] = IF verified THEN [Idle EXCEPT !.pc = "mirror"] ELSE Idle]
  /\ UNCHANGED <<report, paidOnce, row, lastGen>>

\* ... and mirrors a success in the profile, where a failure is swallowed (GiveUp).
MirrorPaidOnce(c) ==
  /\ At(c, "mirror")
  /\ paidOnce' = TRUE
  /\ Settle(c)
  /\ UNCHANGED <<order, report, row, lastGen, past>>

-----------------------------------------------------------------------------
(* Donations *)

CreateDonateReport(c) ==
  /\ At(c, "idle") /\ Len(report) < MaxReport
  /\ report' = Append(report, "reported")
  /\ call' = [call EXCEPT ![c].pc = "report"]
  /\ UNCHANGED <<order, paidOnce, row, lastGen, past>>

\* Its second part, whose failure is swallowed.
ReportInSession(c) ==
  /\ At(c, "report") /\ CanLoad
  /\ Load
  /\ Hold(c, "save", [Loaded EXCEPT !.state = "donate_reported"])
  /\ UNCHANGED <<order, report, paidOnce, past>>

\* Slip: the supporter's cohort is given for a report whatever became of it.
AdminVerifyDonationBlindly(c, r) ==
  /\ At(c, "idle") /\ report[r] # "deleted"
  /\ report' = [report EXCEPT ![r] = IF @ = "reported" THEN "verified" ELSE @]
  /\ past' = [past EXCEPT !.donation = @ \/ report[r] = "reported"]
  /\ call' = [call EXCEPT ![c].pc = "grant"]
  /\ UNCHANGED <<order, paidOnce, row, lastGen>>

\* admin_verify_donation: only a reported one can be verified.
AdminVerifyDonation(c, r) ==
  /\ At(c, "idle") /\ report[r] = "reported"
  /\ report' = [report EXCEPT ![r] = "verified"]
  /\ past' = [past EXCEPT !.donation = TRUE]
  /\ call' = [call EXCEPT ![c].pc = "grant"]
  /\ UNCHANGED <<order, paidOnce, row, lastGen>>

\* _upgrade_to_supporter, whose failure is swallowed.
UpgradeToSupporter(c) ==
  /\ At(c, "grant") /\ CanLoad
  /\ Load
  /\ Hold(c, "save", [Loaded EXCEPT !.granted = TRUE,
                                    !.state = IF @ = "donate_reported" THEN "donate_verified" ELSE @])
  /\ UNCHANGED <<order, report, paidOnce, past>>

RejectDonation(r) ==
  /\ report[r] = "reported"
  /\ report' = [report EXCEPT ![r] = "rejected"]
  /\ UNCHANGED <<order, paidOnce, row, lastGen, call, past>>

IsVerifiedSupporter == \E r \in DOMAIN report : report[r] = "verified"

-----------------------------------------------------------------------------
\* reset gives the row a new generation and empty content.
ResetSession ==
  /\ RowExists /\ lastGen < MaxGen
  /\ row' = Saved(FreshSession(lastGen + 1)) /\ Lose(FreshSession(0))
  /\ lastGen' = lastGen + 1
  /\ UNCHANGED <<order, report, paidOnce, call>>

\* delete_sender_all_data, in one transaction.
EraseCustomer ==
  /\ RowExists
  /\ row' = NoRow /\ Lose(NoRow) /\ paidOnce' = FALSE
  /\ order' = [o \in DOMAIN order |-> "deleted"]
  /\ report' = [r \in DOMAIN report |-> "deleted"]
  /\ UNCHANGED <<call, lastGen>>

PayNext ==
  \/ \E c \in Call :
       \/ TurnLoad(c) \/ GuardedSave(c) \/ SaveSession(c) \/ GiveUp(c)
       \/ PayloadLoad(c) \/ OpenPayment(c) \/ IntakeEdit(c) \/ EnsureCheckoutOrder(c) \/ SyncActiveFlow(c)
       \/ \E o \in DOMAIN order, v \in Verdict : ReadOrder(c, o, v)
       \/ ApplyVerificationResult(c) \/ MirrorPaidOnce(c)
       \/ CreateDonateReport(c) \/ ReportInSession(c)
       \/ \E r \in DOMAIN report : AdminVerifyDonation(c, r)
       \/ UpgradeToSupporter(c)
  \/ \E o \in DOMAIN order : MarkVerificationPending(o)
  \/ \E r \in DOMAIN report : RejectDonation(r)
  \/ ResetSession \/ EraseCustomer
=============================================================================
