------------------------------ MODULE Commerce ------------------------------
(***************************************************************************)
(* What a customer is asked for and charged, on top of Payments: the       *)
(* voluntary support CTA (app/services/support_cta_service.py) and the     *)
(* daily free usage. Both live in the session row's routing data and are   *)
(* written there by single statements conditional on the generation        *)
(* (messenger_state_db.py), beside the whole-row saves of Payments. A CTA  *)
(* is decided on a read, sent, and recorded afterwards.                    *)
(***************************************************************************)
EXTENDS Payments

CONSTANTS
  MaxDay,       \* days that pass
  Interval,     \* SUPPORT_CTA_RETURNING_MIN_HOURS, in days
  Limit,        \* free usages a day
  ChargeId      \* ids of charges

ASSUME CtaAssumption == MaxDay \in Nat \ {0} /\ Interval \in Nat /\ ChargeId \subseteq Nat \ {0}

\* read_funnel_settings reads the limit with a minimum of 1. With none the statement
\* below would still let the first usage of a day through.
ASSUME LimitAssumption == Limit \in Nat \ {0}

VARIABLE today

vars == <<payVars, today>>

Init == PayInit /\ today = 1

Reason == {"initial", "returning"}
TooSoon(day) == day # 0 /\ today < day + Interval

-----------------------------------------------------------------------------
(* The support CTA *)

\* maybe_send_support_cta for a job of generation g: nothing is sent for a session of
\* another one.
CtaLoad(c, g, reason) ==
  /\ At(c, "idle") /\ CanLoad
  /\ Load
  /\ call' = IF Loaded.gen = g
               THEN [call EXCEPT ![c] = [Idle EXCEPT !.pc = "meta", !.snap.gen = g, !.reason = reason]]
               ELSE call
  /\ UNCHANGED <<order, report, paidOnce, past, today>>

\* Slip: the interval runs from the delivered value only.
ShouldSendByBaseline(reason) ==
  IF reason = "initial" THEN ~row.cta.first ELSE ~TooSoon(row.cta.base)

\* should_send_support_cta: the initial CTA once, a returning one when the last CTA
\* and the delivered value are both long enough ago.
ShouldSendSupportCta(reason) ==
  IF reason = "initial" THEN ~row.cta.first ELSE ~TooSoon(row.cta.last) /\ ~TooSoon(row.cta.base)

\* The metadata is read in a transaction of its own. Other conditions on the turn, and
\* the premium window, may refuse as well. Of two calls at once the second does not
\* see the first's CTA.
CtaDecide(c) ==
  /\ At(c, "meta")
  /\ \/ /\ ShouldSendSupportCta(call[c].reason)
        /\ call' = [call EXCEPT ![c].pc = "send"]
        /\ past' = [past EXCEPT !.ctaLapse = @ \/ \E d \in Call : call[d].pc \in {"send", "patch"}]
     \/ Settle(c) /\ UNCHANGED past
  /\ UNCHANGED <<order, report, paidOnce, row, lastGen, today>>

\* is_verified_supporter refuses, unless its read fails; then the text is sent.
CtaSend(c) ==
  /\ At(c, "send")
  /\ \/ /\ call' = [call EXCEPT ![c].pc = "patch"]
        /\ past' = [past EXCEPT !.told = today, !.toldFirst = @ \/ call[c].reason = "initial"]
     \/ Settle(c) /\ UNCHANGED past
  /\ UNCHANGED <<order, report, paidOnce, row, lastGen, today>>

\* patch_support_cta_metadata_if_generation merges into the row of the generation.
PatchCta(g, cta) == row' = IF row.gen = g THEN [row EXCEPT !.cta = cta] ELSE row

\* The sent CTA is recorded; if the generation has changed it never is.
CtaPatch(c) ==
  LET g == call[c].snap.gen
      initial == call[c].reason = "initial" IN
  /\ At(c, "patch")
  /\ PatchCta(g, [row.cta EXCEPT !.first = @ \/ initial, !.last = today])
  /\ past' = [past EXCEPT !.ctaLapse = @ \/ row.gen # g]
  /\ Settle(c)
  /\ UNCHANGED <<order, report, paidOnce, lastGen, today>>

\* record_initial_value_delivered_at; with a reading's id it stands for the first CTA.
RecordInitialValueDelivered(g, withReading) ==
  /\ PatchCta(g, [row.cta EXCEPT !.base = today, !.first = @ \/ withReading])
  /\ UNCHANGED <<order, report, paidOnce, lastGen, call, past, today>>

\* maybe_apply_legacy_baseline: a customer of old, on whom nothing is recorded, gets
\* the baseline, again in two transactions.
LegacyLoad(c, g) ==
  /\ At(c, "idle") /\ CanLoad
  /\ Load
  /\ call' = IF Loaded.gen = g /\ Loaded.cta.base = 0 /\ ~Loaded.cta.first
               THEN [call EXCEPT ![c] = [Idle EXCEPT !.pc = "baseline", !.snap.gen = g]]
               ELSE call
  /\ UNCHANGED <<order, report, paidOnce, past, today>>

LegacyBaseline(c) ==
  /\ At(c, "baseline")
  /\ PatchCta(call[c].snap.gen, [row.cta EXCEPT !.base = today])
  /\ Settle(c)
  /\ UNCHANGED <<order, report, paidOnce, lastGen, past, today>>

-----------------------------------------------------------------------------
(* Free usage: one statement each *)

\* The row after a charge: on a new day the count begins again.
Charged(usage, id) == [day |-> today, used |-> (IF usage.day = today THEN usage.used ELSE 0) + 1, lastCharge |-> id]

\* Slip: the day before counts on.
ChargeKeepsCounting(g, id) ==
  /\ row.gen = g /\ row.usage.lastCharge # id
  /\ row.usage.day # today \/ row.usage.used < Limit
  /\ row' = [row EXCEPT !.usage = [day |-> today, used |-> @.used + 1, lastCharge |-> id]]
  /\ past' = [past EXCEPT !.charges = @ + 1]
  /\ UNCHANGED <<order, report, paidOnce, lastGen, call, today>>

\* charge_free_usage_if_generation; a charge equal to the last one, or past the limit,
\* changes nothing.
ChargeFreeUsage(g, id) ==
  /\ row.gen = g /\ row.usage.lastCharge # id
  /\ row.usage.day # today \/ row.usage.used < Limit
  /\ row' = [row EXCEPT !.usage = Charged(@, id)]
  /\ past' = [past EXCEPT !.charges = @ + 1]
  /\ UNCHANGED <<order, report, paidOnce, lastGen, call, today>>

\* set_free_usage_seed, whatever the generation.
SeedFreeUsage(n) ==
  /\ RowExists
  /\ row' = [row EXCEPT !.usage.day = today, !.usage.used = n]
  /\ past' = [past EXCEPT !.charges = n]
  /\ UNCHANGED <<order, report, paidOnce, lastGen, call, today>>

DayPasses ==
  /\ today < MaxDay
  /\ today' = today + 1
  /\ past' = [past EXCEPT !.charges = 0]
  /\ UNCHANGED <<order, report, paidOnce, row, lastGen, call>>

Next ==
  \/ PayNext /\ UNCHANGED today
  \/ \E c \in Call :
       \/ \E g \in 1..lastGen, reason \in Reason : CtaLoad(c, g, reason)
       \/ CtaDecide(c) \/ CtaSend(c) \/ CtaPatch(c)
       \/ \E g \in 1..lastGen : LegacyLoad(c, g)
       \/ LegacyBaseline(c)
  \/ \E g \in 1..lastGen : \/ \E withReading \in BOOLEAN : RecordInitialValueDelivered(g, withReading)
                           \/ \E id \in ChargeId : ChargeFreeUsage(g, id)
  \/ \E n \in 0..Limit : SeedFreeUsage(n)
  \/ DayPasses

Spec == Init /\ [][Next]_vars

-----------------------------------------------------------------------------
\* What is unlocked was confirmed by an operator before: the paid flow and the mirror
\* flag by a verified payment, the supporter's grant and state by a verified donation,
\* through every interleaving of the callers that save the session whole.
PaidIsEarned ==
  /\ paidOnce \/ row.flow = "paid" => past.payment
  /\ row.granted \/ row.state = "donate_verified" => past.donation

\* A verified order is taken back only by a caller that read it before it was
\* verified, or with all the customer's data.
VerifiedFallsOnlyToAStaleReader ==
  [][\A o \in DOMAIN order :
       order[o] = "paid_verified" /\ order'[o] \notin {"paid_verified", "deleted"} =>
         \E c \in Call : At(c, "apply") /\ call[c].id = o /\ call[c].read # "paid_verified"]_vars

\* Pressing the payment link again and again makes one order, unless two presses
\* overlapped or the session lost its order: to a stale save, a reset, or a cut
\* between the order and the session.
OneOrderAtATime == \A o, p \in LiveOrders : o # p => past.orderLapse

\* The customer gets the first CTA once and another only after the interval, unless a
\* CTA sent was never recorded: two calls overlapped, one was cut or refused after
\* sending, or the record fell to a stale save or a reset.
CtaKeepsItsDistance ==
  [][\A c \in Call : At(c, "send") /\ At(c, "patch")' /\ ~past.ctaLapse =>
       IF call[c].reason = "initial" THEN ~past.toldFirst ELSE ~TooSoon(past.told)]_vars

\* The count of a day is the charges of that day, through retries, new days and
\* charges by turns of an older generation, unless a stale save or a reset lost it;
\* and it is never above the limit. A repeat of an earlier charge is one of these
\* charges: that the code makes it again is the matter of MCUsage!DuplicatesAreRefused.
UsageIsCounted ==
  row.usage.day = today /\ ~past.usageLapse => row.usage.used = past.charges /\ past.charges <= Limit
=============================================================================
