--------------------------- MODULE CommerceProofs ---------------------------
(* However many callers are between two transactions at once, with any saves,  *)
(* cuts, resets and erasures of the session beside them: what is unlocked was  *)
(* confirmed, a verification falls to a stale reader only, one order is made,  *)
(* the CTA keeps its distance and the day's count is the day's charges.        *)
EXTENDS Commerce, SequenceTheorems, TLAPS

(* ---- the inductive invariant -------------------------------------------------- *)

TypeOK ==
  /\ order \in Seq(OrderStatus) /\ report \in Seq(ReportStatus)
  /\ paidOnce \in BOOLEAN
  /\ row \in Session /\ lastGen \in Nat
  /\ call \in [Call -> CallState]
  /\ past \in Past
  /\ today \in Nat \ {0}

\* The callers that hold a session, or the generation of one.
Carrying == {"order", "flow", "save", "guarded", "meta", "send", "patch", "baseline"}

\* A session held is one that was there; where there is none, nothing is left of it.
SessionsAreReal ==
  /\ row.gen = 0 => row = NoRow
  /\ \A c \in Call : call[c].pc \in Carrying => call[c].snap.gen # 0

\* What was confirmed before a payment counts, in the row and in all that callers hold.
PaymentIsKnown ==
  /\ paidOnce \/ row.flow = "paid" => past.payment
  /\ \A o \in DOMAIN order : order[o] = "paid_verified" => past.payment
  /\ \A c \in Call : At(c, "mirror") \/ call[c].snap.flow = "paid" => past.payment

DonationIsKnown ==
  /\ row.granted \/ row.state = "donate_verified" => past.donation
  /\ \A c \in Call :
       At(c, "grant") \/ call[c].snap.granted \/ call[c].snap.state = "donate_verified" => past.donation

\* Nobody sets out to take a verification back from an order it read as verified.
VerdictsAreFresh ==
  \A c \in Call : At(c, "apply") /\ call[c].read = "paid_verified" => call[c].verdict = "verified"

\* A caller about to save an order of its own.
Holds(c) == call[c].pc \in {"flow", "save", "guarded"} /\ call[c].snap.order # 0

\* The order there is is in the row, or on its way to it; a turn brings no other one.
OrderIsKept ==
  ~past.orderLapse =>
    /\ LiveOrders # {} => row.order # 0 \/ \E c \in Call : Holds(c)
    /\ \A c \in Call : At(c, "guarded") => call[c].snap.order \in {0, row.order}

\* One caller at a time is between deciding on a CTA and recording it.
OneSender ==
  \A c, d \in Call : c # d => ~(call[c].pc \in {"send", "patch"} /\ call[d].pc \in {"send", "patch"})

\* The CTAs told of are in the row, or about to be recorded.
TellingIsRecorded ==
  /\ past.told <= row.cta.last \/ \E c \in Call : At(c, "patch")
  /\ past.toldFirst => row.cta.first \/ \E c \in Call : At(c, "patch") /\ call[c].reason = "initial"

\* Whether a CTA for this reason may be told now.
MayTell(reason) == IF reason = "initial" THEN ~past.toldFirst ELSE ~TooSoon(past.told)

CtaIsKept ==
  /\ past.told <= today
  /\ ~past.ctaLapse => /\ OneSender /\ TellingIsRecorded
                       /\ \A c \in Call : At(c, "send") => MayTell(call[c].reason)

UsageIsKept ==
  ~past.usageLapse =>
    /\ row.usage.day <= today
    /\ past.charges = IF row.usage.day = today THEN row.usage.used ELSE 0
    /\ past.charges <= Limit

Inv ==
  /\ TypeOK /\ SessionsAreReal
  /\ PaymentIsKnown /\ DonationIsKnown /\ VerdictsAreFresh
  /\ OneOrderAtATime /\ OrderIsKept /\ CtaIsKept /\ UsageIsKept

(* ---- what the parts of a step do ---------------------------------------------- *)

PCs == {"idle", "order", "flow", "save", "guarded", "apply", "mirror", "report", "grant",
        "meta", "send", "patch", "baseline"}

\* The other callers stay as they are.
Only(c) == \A d \in Call : d # c => call'[d] = call[d]

LEMMA IdleType == /\ Idle \in CallState /\ Idle.pc = "idle" /\ Idle.snap = NoRow
                  /\ NoRow \in Session /\ NoRow.gen = 0 /\ NoRow.flow = "free" /\ NoRow.granted = FALSE
                  /\ NoRow.state = "chatting" /\ NoRow.order = 0
                  /\ NoRow.cta = NoCta /\ NoRow.usage = NoUsage
BY DEF Idle, CallState, NoRow, FreshSession, Session, NoCta, NoUsage, Cta, Usage, OrderStatus, Verdict

LEMMA FreshType ==
  ASSUME NEW g \in Nat
  PROVE  /\ FreshSession(g) \in Session /\ FreshSession(g).gen = g /\ FreshSession(g).order = 0
         /\ FreshSession(g).flow = "free" /\ FreshSession(g).granted = FALSE /\ FreshSession(g).state = "chatting"
         /\ FreshSession(g).cta = NoCta /\ FreshSession(g).usage = NoUsage
BY DEF FreshSession, Session, NoCta, NoUsage, Cta, Usage

\* A caller goes on with a session in its hands.
LEMMA HoldFacts ==
  ASSUME call \in [Call -> CallState], NEW c \in Call, NEW pc \in PCs, NEW s \in Session, Hold(c, pc, s)
  PROVE  /\ call' \in [Call -> CallState] /\ Only(c)
         /\ call'[c].pc = pc /\ call'[c].snap = s /\ call'[c].read = call[c].read
         /\ call'[c].verdict = call[c].verdict /\ call'[c].reason = call[c].reason
BY DEF Hold, CallState, PCs, Only

LEMMA MovesFacts ==
  ASSUME call \in [Call -> CallState], NEW c \in Call, NEW pc \in PCs, call' = [call EXCEPT ![c].pc = pc]
  PROVE  /\ call' \in [Call -> CallState] /\ Only(c)
         /\ call'[c].pc = pc /\ call'[c].snap = call[c].snap /\ call'[c].read = call[c].read
         /\ call'[c].verdict = call[c].verdict /\ call'[c].reason = call[c].reason
BY DEF CallState, PCs, Only

LEMMA BecomesFacts ==
  ASSUME call \in [Call -> CallState], NEW c \in Call, NEW x \in CallState, call' = [call EXCEPT ![c] = x]
  PROVE  call' \in [Call -> CallState] /\ Only(c) /\ call'[c] = x
BY DEF Only

LEMMA SettleFacts ==
  ASSUME call \in [Call -> CallState], NEW c \in Call, Settle(c)
  PROVE  call' \in [Call -> CallState] /\ Only(c) /\ call'[c] = Idle
BY IdleType DEF Settle, Only

\* Making the row there has to be loses and adds nothing.
LEMMA LoadFacts ==
  ASSUME TypeOK, SessionsAreReal, CanLoad
  PROVE  /\ Loaded \in Session /\ Loaded.gen # 0 /\ LoadedGen \in Nat
         /\ Loaded.order = row.order /\ Loaded.flow = row.flow /\ Loaded.granted = row.granted
         /\ Loaded.state = row.state /\ Loaded.cta = row.cta /\ Loaded.usage = row.usage
<1>1. lastGen + 1 \in Nat /\ lastGen + 1 # 0  BY DEF TypeOK
<1>2. CASE RowExists  BY <1>2, <1>1 DEF RowExists, Loaded, LoadedGen, TypeOK
<1>3. CASE ~RowExists
  <2>1. row = NoRow  BY <1>3 DEF RowExists, SessionsAreReal
  <2>2. Loaded = FreshSession(lastGen + 1) /\ LoadedGen = lastGen + 1  BY <1>3 DEF Loaded, LoadedGen
  <2>3. /\ Loaded \in Session /\ Loaded.gen = lastGen + 1 /\ Loaded.order = 0 /\ Loaded.flow = "free"
        /\ Loaded.granted = FALSE /\ Loaded.state = "chatting" /\ Loaded.cta = NoCta /\ Loaded.usage = NoUsage
    BY <1>1, <2>2, FreshType
  <2>4. Loaded.granted = row.granted  BY <2>1, <2>3, IdleType, Zenon
  <2> QED BY <1>1, <2>1, <2>2, <2>3, <2>4, IdleType
<1> QED BY <1>2, <1>3

\* A save writes the session held, but for the cohort where it is not a column.
LEMMA SavedFacts ==
  ASSUME TypeOK, NEW s \in Session
  PROVE  /\ Saved(s) \in Session /\ Saved(s).gen = s.gen /\ Saved(s).order = s.order
         /\ Saved(s).flow = s.flow /\ Saved(s).state = s.state /\ Saved(s).cta = s.cta
         /\ Saved(s).usage = s.usage
         /\ Saved(s).granted \in {s.granted, row.granted}
<1>1. CASE V9Persist  BY <1>1 DEF Saved
<1>2. CASE ~V9Persist
  <2>1. row.granted \in BOOLEAN  BY DEF TypeOK, Session
  <2>2. Saved(s) = [s EXCEPT !.granted = row.granted]  BY <1>2 DEF Saved
  <2> QED BY <2>1, <2>2 DEF Session
<1> QED BY <1>1, <1>2

\* What is lost is noted, and nothing else of the past changes.
LEMMA LoseFacts ==
  ASSUME past \in Past, NEW s \in Session, Lose(s)
  PROVE  /\ past' \in Past
         /\ past'.payment = past.payment /\ past'.donation = past.donation
         /\ past'.told = past.told /\ past'.toldFirst = past.toldFirst /\ past'.charges = past.charges
         /\ ~past'.orderLapse => ~past.orderLapse /\ row.order \in {0, s.order}
         /\ ~past'.ctaLapse => ~past.ctaLapse /\ row.cta = s.cta
         /\ ~past'.usageLapse => ~past.usageLapse /\ row.usage = s.usage
<1>1. PICK o \in BOOLEAN : o = (past.orderLapse \/ row.order \notin {0, s.order})  OBVIOUS
<1>2. PICK k \in BOOLEAN : k = (past.ctaLapse \/ row.cta # s.cta)  OBVIOUS
<1>3. PICK u \in BOOLEAN : u = (past.usageLapse \/ row.usage # s.usage)  OBVIOUS
<1>4. past' = [past EXCEPT !.orderLapse = o, !.ctaLapse = k, !.usageLapse = u]
  BY <1>1, <1>2, <1>3, Zenon DEF Lose
<1>5. past'.orderLapse = o /\ past'.ctaLapse = k /\ past'.usageLapse = u  BY <1>4 DEF Past
<1>6. past' \in Past /\ UNCHANGED <<past.payment, past.donation, past.told, past.toldFirst, past.charges>>
  BY <1>4 DEF Past
<1> QED BY <1>1, <1>2, <1>3, <1>5, <1>6, Zenon

(* ---- what a step may do without taking anything from the invariant ------------- *)

\* A confirmation is never forgotten, nor that something was lost.
GoodPast ==
  /\ past' \in Past
  /\ past.payment => past'.payment
  /\ past.donation => past'.donation
  /\ ~past'.orderLapse => ~past.orderLapse
  /\ ~past'.ctaLapse => ~past.ctaLapse
  /\ ~past'.usageLapse => ~past.usageLapse

GoodRow ==
  /\ row' \in Session /\ lastGen' \in Nat
  /\ row'.gen = 0 => row' = NoRow
  /\ row'.flow = "paid" => past'.payment
  /\ row'.granted \/ row'.state = "donate_verified" => past'.donation
  /\ ~past'.orderLapse => row.order \in {0, row'.order}

GoodTables ==
  /\ order' \in Seq(OrderStatus) /\ report' \in Seq(ReportStatus) /\ paidOnce' \in BOOLEAN
  /\ paidOnce' => past'.payment
  /\ \A o \in DOMAIN order' : order'[o] = "paid_verified" => past'.payment

\* A caller that moved: what it holds is real and confirmed, an order it held is
\* still held or in the row, and as a turn it brings no order of its own.
GoodCaller(c) ==
  /\ call'[c].pc \in Carrying => call'[c].snap.gen # 0
  /\ call'[c].pc = "mirror" \/ call'[c].snap.flow = "paid" => past'.payment
  /\ call'[c].pc = "grant" \/ call'[c].snap.granted \/ call'[c].snap.state = "donate_verified" =>
       past'.donation
  /\ call'[c].pc = "apply" /\ call'[c].read = "paid_verified" => call'[c].verdict = "verified"
  /\ ~past'.orderLapse /\ Holds(c) => Holds(c)' \/ row'.order # 0
  /\ ~past'.orderLapse /\ call'[c].pc = "guarded" => call'[c].snap.order \in {0, row'.order}

GoodCalls ==
  /\ call' \in [Call -> CallState]
  /\ \A c \in Call : call'[c] = call[c] \/ GoodCaller(c)

\* Nothing is told and nobody sets out to tell; what is recorded stays recorded.
CalmCta ==
  /\ past'.told = past.told /\ past'.toldFirst = past.toldFirst
  /\ today \in Nat /\ today' \in Nat /\ today <= today'
  /\ ~past'.ctaLapse => /\ row.cta.last <= row'.cta.last
                        /\ row.cta.first => row'.cta.first
  /\ \A c \in Call : call'[c] = call[c] \/ (call[c].pc # "patch" /\ call'[c].pc \notin {"send", "patch"})
                     \/ past'.ctaLapse

\* Nothing is charged.
CalmUsage ==
  /\ today' = today /\ past'.charges = past.charges
  /\ ~past'.usageLapse => row'.usage = row.usage

BasicInv == TypeOK /\ SessionsAreReal /\ PaymentIsKnown /\ DonationIsKnown /\ VerdictsAreFresh

LEMMA BasicStep ==
  ASSUME BasicInv, GoodPast, GoodRow, GoodTables, GoodCalls, today' \in Nat \ {0}
  PROVE  BasicInv'
<1>1. TypeOK'  BY DEF GoodPast, GoodRow, GoodTables, GoodCalls, TypeOK
<1>2. SessionsAreReal'
  BY DEF BasicInv, SessionsAreReal, GoodRow, GoodCalls, GoodCaller
<1>3. PaymentIsKnown'
  BY DEF BasicInv, PaymentIsKnown, At, GoodPast, GoodRow, GoodTables, GoodCalls, GoodCaller
<1>4. DonationIsKnown'
  BY DEF BasicInv, DonationIsKnown, At, GoodPast, GoodRow, GoodCalls, GoodCaller
<1>5. VerdictsAreFresh'
  BY DEF BasicInv, VerdictsAreFresh, At, GoodCalls, GoodCaller
<1> QED BY <1>1, <1>2, <1>3, <1>4, <1>5 DEF BasicInv

LEMMA OrderStep ==
  ASSUME OneOrderAtATime, OrderIsKept, GoodPast, GoodRow, GoodCalls, LiveOrders' \subseteq LiveOrders
  PROVE  OneOrderAtATime' /\ OrderIsKept'
<1>1. OneOrderAtATime'  BY DEF OneOrderAtATime, GoodPast
<1>2. ASSUME ~past'.orderLapse, LiveOrders' # {} PROVE row'.order # 0 \/ \E c \in Call : Holds(c)'
  <2>1. row.order # 0 \/ \E c \in Call : Holds(c)  BY <1>2 DEF OrderIsKept, GoodPast
  <2>2. CASE row.order # 0  BY <1>2, <2>2 DEF GoodRow
  <2>3. ASSUME NEW c \in Call, Holds(c) PROVE row'.order # 0 \/ Holds(c)'
    BY <1>2, <2>3 DEF GoodCalls, GoodCaller, Holds
  <2> QED BY <2>1, <2>2, <2>3
<1>3. ASSUME ~past'.orderLapse, NEW c \in Call, call'[c].pc = "guarded"
      PROVE  call'[c].snap.order \in {0, row'.order}
  <2>1. CASE call'[c] = call[c]
    BY <1>3, <2>1 DEF OrderIsKept, GoodPast, GoodRow, At
  <2>2. CASE GoodCaller(c)  BY <1>3, <2>2 DEF GoodCaller
  <2> QED BY <2>1, <2>2 DEF GoodCalls
<1> QED BY <1>1, <1>2, <1>3 DEF OrderIsKept, At

LEMMA CtaStep ==
  ASSUME TypeOK, CtaIsKept, GoodPast, CalmCta, row' \in Session, past' \in Past
  PROVE  CtaIsKept'
<1>1. past'.told <= today'  BY DEF CtaIsKept, CalmCta, TypeOK, Past
<1> SUFFICES ASSUME ~past'.ctaLapse
             PROVE  /\ OneSender' /\ TellingIsRecorded'
                    /\ \A c \in Call : At(c, "send")' => MayTell(call[c].reason)'
  BY <1>1 DEF CtaIsKept
<1>2. OneSender /\ TellingIsRecorded /\ \A c \in Call : At(c, "send") => MayTell(call[c].reason)
  BY DEF CtaIsKept, GoodPast
<1>3. \A c \in Call : call'[c] = call[c] \/ (call[c].pc # "patch" /\ call'[c].pc \notin {"send", "patch"})
  BY DEF CalmCta
<1>4. OneSender'  BY <1>2, <1>3 DEF OneSender
<1>5. TellingIsRecorded'
  <2>1. row.cta.last \in Nat /\ row'.cta.last \in Nat /\ past.told \in Nat  BY DEF TypeOK, Session, Cta, Past
  <2> QED BY <1>2, <1>3, <2>1 DEF TellingIsRecorded, CalmCta, At
<1>6. ASSUME NEW c \in Call, At(c, "send")' PROVE MayTell(call[c].reason)'
  <2>1. call'[c] = call[c] /\ MayTell(call[c].reason)  BY <1>2, <1>3, <1>6 DEF At
  <2>2. past.told \in Nat /\ Interval \in Nat  BY CtaAssumption DEF TypeOK, Past
  <2> QED BY <2>1, <2>2 DEF MayTell, TooSoon, CalmCta
<1> QED BY <1>4, <1>5, <1>6

LEMMA UsageStep ==
  ASSUME UsageIsKept, GoodPast, CalmUsage
  PROVE  UsageIsKept'
BY DEF UsageIsKept, GoodPast, CalmUsage

\* A step that is good and calm in every way.
Ordinary ==
  /\ GoodPast /\ GoodRow /\ GoodTables /\ GoodCalls
  /\ LiveOrders' \subseteq LiveOrders /\ CalmCta /\ CalmUsage

LEMMA OrdinaryStep ==
  ASSUME Inv, Ordinary
  PROVE  Inv'
<1>1. BasicInv'
  <2>1. today' \in Nat \ {0}  BY DEF Inv, TypeOK, Ordinary, CalmUsage
  <2> QED BY <2>1, BasicStep DEF Inv, BasicInv, Ordinary
<1>2. OneOrderAtATime' /\ OrderIsKept'  BY OrderStep DEF Inv, Ordinary
<1>3. CtaIsKept'  BY CtaStep DEF Inv, Ordinary, GoodRow, GoodPast
<1>4. UsageIsKept'  BY UsageStep DEF Inv, Ordinary
<1> QED BY <1>1, <1>2, <1>3, <1>4 DEF Inv, BasicInv

(* ---- ordinary steps ------------------------------------------------------------- *)

\* The row is the one that was there, or the one that was made for want of any.
RowStands ==
  /\ row' \in Session /\ lastGen' \in Nat
  /\ row'.gen = 0 => row' = NoRow
  /\ row'.order = row.order /\ row'.flow = row.flow /\ row'.granted = row.granted
  /\ row'.state = row.state /\ row'.cta = row.cta /\ row'.usage = row.usage

LEMMA UntouchedStands == ASSUME Inv, UNCHANGED <<row, lastGen>> PROVE RowStands
BY DEF Inv, TypeOK, SessionsAreReal, RowStands

LEMMA LoadedStands ==
  ASSUME Inv, CanLoad, row' = Loaded, lastGen' \in Nat
  PROVE  RowStands
BY LoadFacts DEF Inv, RowStands

LEMMA PastStands == ASSUME Inv, UNCHANGED past PROVE GoodPast
BY DEF Inv, TypeOK, GoodPast

LEMMA StandingIsGood ==
  ASSUME Inv, RowStands, GoodPast
  PROVE  GoodRow
BY DEF Inv, PaymentIsKnown, DonationIsKnown, RowStands, GoodPast, GoodRow

LEMMA TablesStand ==
  ASSUME Inv, GoodPast, UNCHANGED <<order, report, paidOnce>>
  PROVE  GoodTables /\ LiveOrders' \subseteq LiveOrders
BY DEF Inv, TypeOK, PaymentIsKnown, GoodPast, GoodTables, LiveOrders

\* What the caller held it may hold on.
LEMMA HeldIsGood ==
  ASSUME Inv, NEW c \in Call
  PROVE  /\ call[c] \in CallState /\ call[c].snap \in Session /\ call[c].pc \in PCs
         /\ call[c].pc \in Carrying => call[c].snap.gen # 0
         /\ call[c].snap.flow = "paid" => past.payment
         /\ call[c].snap.granted \/ call[c].snap.state = "donate_verified" => past.donation
<1>1. call[c] \in CallState /\ call[c].snap \in Session /\ call[c].pc \in PCs
  BY DEF Inv, TypeOK, CallState, PCs
<1>2. call[c].pc \in Carrying => call[c].snap.gen # 0  BY DEF Inv, SessionsAreReal
<1>3. call[c].snap.flow = "paid" => past.payment  BY DEF Inv, PaymentIsKnown
<1>4. call[c].snap.granted \/ call[c].snap.state = "donate_verified" => past.donation
  BY Zenon DEF Inv, DonationIsKnown
<1> QED BY <1>1, <1>2, <1>3, <1>4

\* A step of caller c that leaves the CTA and the usage in peace.
LEMMA CallerStep ==
  ASSUME Inv, GoodPast, GoodRow, GoodTables, LiveOrders' \subseteq LiveOrders, today' = today,
         past'.told = past.told, past'.toldFirst = past.toldFirst, past'.charges = past.charges,
         ~past'.ctaLapse => row.cta.last <= row'.cta.last /\ (row.cta.first => row'.cta.first),
         ~past'.usageLapse => row'.usage = row.usage,
         NEW c \in Call, call' \in [Call -> CallState], Only(c), GoodCaller(c),
         call[c].pc # "patch" \/ past'.ctaLapse, call'[c].pc \notin {"send", "patch"}
  PROVE  Inv'
<1>1. GoodCalls  BY DEF GoodCalls, Only
<1>2. CalmCta
  <2>1. today \in Nat /\ today <= today  BY DEF Inv, TypeOK
  <2> QED BY <2>1 DEF CalmCta, Only
<1>3. CalmUsage  BY DEF CalmUsage
<1> QED BY <1>1, <1>2, <1>3, OrdinaryStep DEF Ordinary

\* The same for a caller that keeps past and row as they are.
LEMMA QuietStep ==
  ASSUME Inv, UNCHANGED <<past, today>>, RowStands, GoodTables, LiveOrders' \subseteq LiveOrders,
         NEW c \in Call, call' \in [Call -> CallState], Only(c), GoodCaller(c),
         call[c].pc # "patch", call'[c].pc \notin {"send", "patch"}
  PROVE  Inv'
<1>1. GoodPast /\ GoodRow  BY PastStands, StandingIsGood
<1>2. row.cta.last <= row.cta.last  BY DEF Inv, TypeOK, Session, Cta
<1> QED BY <1>1, <1>2, CallerStep DEF RowStands

\* A caller that is done holds nothing.
LEMMA DoneIsGood ==
  ASSUME NEW c \in Call, Settle(c), call \in [Call -> CallState],
         ~past'.orderLapse /\ Holds(c) => row'.order # 0
  PROVE  GoodCaller(c) /\ call' \in [Call -> CallState] /\ Only(c) /\ call'[c].pc = "idle"
<1>1. call' \in [Call -> CallState] /\ Only(c) /\ call'[c] = Idle  BY SettleFacts
<1> QED BY <1>1, IdleType DEF GoodCaller, Carrying

(* ---- the session, payloads and orders -------------------------------------------- *)

LEMMA TurnLoadStep == ASSUME Inv, NEW c \in Call, TurnLoad(c), today' = today PROVE Inv'
<1> USE DEF TurnLoad
<1>1. PICK s \in Session : /\ s = [row EXCEPT !.state = "chatting"] /\ s.gen # 0 /\ s.order = row.order
                           /\ s.flow = row.flow /\ s.granted = row.granted /\ s.state = "chatting"
  BY DEF Inv, TypeOK, Session, RowExists
<1>2. /\ call' \in [Call -> CallState] /\ Only(c)
      /\ call'[c].pc = "guarded" /\ call'[c].snap = s
  BY <1>1, HoldFacts DEF Inv, TypeOK, PCs
<1>3. GoodCaller(c)
  BY <1>1, <1>2 DEF Inv, PaymentIsKnown, DonationIsKnown, GoodCaller, At, Holds
<1> QED BY <1>2, <1>3, UntouchedStands, PastStands, TablesStand, QuietStep DEF At

\* What a save makes of the row.
LEMMA SaveIsGood ==
  ASSUME Inv, NEW c \in Call, At(c, "save") \/ At(c, "guarded"), row' = Saved(call[c].snap), Lose(call[c].snap),
         Settle(c), UNCHANGED <<order, report, paidOnce, lastGen, today>>
  PROVE  Inv'
<1>1. PICK s \in Session : /\ s = call[c].snap /\ s.gen # 0
                           /\ s.flow = "paid" => past.payment
                           /\ s.granted \/ s.state = "donate_verified" => past.donation
  BY HeldIsGood DEF At, Carrying
<1>2. GoodPast /\ UNCHANGED <<past.payment, past.donation, past.told, past.toldFirst, past.charges>>
  BY <1>1, LoseFacts DEF Inv, TypeOK, GoodPast
<1>3. /\ ~past'.orderLapse => row.order \in {0, s.order}
      /\ ~past'.ctaLapse => row.cta = s.cta
      /\ ~past'.usageLapse => row.usage = s.usage
  BY <1>1, LoseFacts DEF Inv, TypeOK
<1>4. /\ row' \in Session /\ row'.gen = s.gen /\ row'.order = s.order /\ row'.flow = s.flow
      /\ row'.state = s.state /\ row'.cta = s.cta /\ row'.usage = s.usage
      /\ row'.granted \in {s.granted, row.granted}
  BY <1>1, SavedFacts DEF Inv
<1>5. GoodRow
  <2>1. row'.granted \/ row'.state = "donate_verified" => past'.donation
    <3>1. row.granted => past.donation  BY DEF Inv, DonationIsKnown
    <3> QED BY <1>1, <1>2, <1>4, <3>1
  <2>2. row'.flow = "paid" => past'.payment  BY <1>1, <1>2, <1>4
  <2>3. row'.gen # 0 /\ lastGen' \in Nat  BY <1>1, <1>4 DEF Inv, TypeOK
  <2> QED BY <1>3, <1>4, <2>1, <2>2, <2>3 DEF GoodRow
<1>6. GoodTables /\ LiveOrders' \subseteq LiveOrders  BY <1>2, TablesStand
<1>7. GoodCaller(c) /\ call' \in [Call -> CallState] /\ Only(c) /\ call'[c].pc = "idle"
  <2>1. Holds(c) => row'.order # 0  BY <1>1, <1>4 DEF Holds
  <2> QED BY <2>1, DoneIsGood DEF Inv, TypeOK
<1>8. ~past'.ctaLapse => row.cta.last <= row'.cta.last /\ (row.cta.first => row'.cta.first)
  <2>1. row.cta.last <= row.cta.last  BY DEF Inv, TypeOK, Session, Cta
  <2> QED BY <1>3, <1>4, <2>1
<1> QED BY <1>2, <1>3, <1>4, <1>5, <1>6, <1>7, <1>8, CallerStep DEF At

LEMMA SaveSessionStep == ASSUME Inv, NEW c \in Call, SaveSession(c), today' = today PROVE Inv'
BY SaveIsGood DEF SaveSession

LEMMA GuardedSaveStep == ASSUME Inv, NEW c \in Call, GuardedSave(c), today' = today PROVE Inv'
<1> USE DEF GuardedSave
<1>1. CASE row.gen = call[c].snap.gen  BY <1>1, SaveIsGood
<1>2. CASE row.gen # call[c].snap.gen
  <2>1. ~past'.orderLapse /\ Holds(c) => row'.order # 0
    BY <1>2 DEF Inv, OrderIsKept, Holds
  <2>2. GoodCaller(c) /\ call' \in [Call -> CallState] /\ Only(c) /\ call'[c].pc = "idle"
    BY <2>1, DoneIsGood DEF Inv, TypeOK
  <2> QED BY <1>2, <2>2, UntouchedStands, PastStands, TablesStand, QuietStep DEF At
<1> QED BY <1>1, <1>2

LEMMA GiveUpStep == ASSUME Inv, NEW c \in Call, GiveUp(c), today' = today PROVE Inv'
<1> USE DEF GiveUp
<1>1. PICK o \in BOOLEAN : o = (past.orderLapse \/ call[c].snap.order \notin {0, row.order})  OBVIOUS
<1>2. PICK k \in BOOLEAN : k = (past.ctaLapse \/ At(c, "patch"))  OBVIOUS
<1>3. past' = [past EXCEPT !.orderLapse = o, !.ctaLapse = k]  BY <1>1, <1>2, Zenon
<1>4. past'.orderLapse = o /\ past'.ctaLapse = k  BY <1>3 DEF Inv, TypeOK, Past
<1>5. /\ past' \in Past
      /\ UNCHANGED <<past.payment, past.donation, past.told, past.toldFirst, past.charges, past.usageLapse>>
  BY <1>3 DEF Inv, TypeOK, Past
<1>6. GoodPast  BY <1>1, <1>2, <1>4, <1>5 DEF GoodPast
<1>7. GoodRow /\ GoodTables /\ LiveOrders' \subseteq LiveOrders
  BY <1>6, UntouchedStands, StandingIsGood, TablesStand
<1>8. GoodCaller(c) /\ call' \in [Call -> CallState] /\ Only(c) /\ call'[c].pc = "idle"
  <2>1. ~past'.orderLapse /\ Holds(c) => row'.order # 0  BY <1>1, <1>4 DEF Holds
  <2> QED BY <2>1, DoneIsGood DEF Inv, TypeOK
<1>9. call[c].pc # "patch" \/ past'.ctaLapse  BY <1>2, <1>4 DEF At
<1>10. row.cta.last <= row.cta.last  BY DEF Inv, TypeOK, Session, Cta
<1> QED BY <1>5, <1>6, <1>7, <1>8, <1>9, <1>10, CallerStep

LEMMA PayloadLoadStep == ASSUME Inv, NEW c \in Call, PayloadLoad(c) \/ OpenPayment(c), today' = today PROVE Inv'
<1> USE DEF PayloadLoad, OpenPayment, Load
<1>1. /\ Loaded \in Session /\ Loaded.gen # 0 /\ LoadedGen \in Nat /\ Loaded.flow = row.flow
      /\ Loaded.granted = row.granted /\ Loaded.state = row.state
  BY LoadFacts DEF Inv
<1>2. PICK pc \in {"flow", "order"} : Hold(c, pc, Loaded)  OBVIOUS
<1>3. /\ call' \in [Call -> CallState] /\ Only(c) /\ call'[c].pc = pc /\ call'[c].snap = Loaded
  BY <1>1, <1>2, HoldFacts DEF Inv, TypeOK, PCs
<1>4. GoodCaller(c)
  BY <1>1, <1>3 DEF Inv, PaymentIsKnown, DonationIsKnown, GoodCaller, At, Holds
<1>5. RowStands  BY <1>1, LoadedStands
<1> QED BY <1>3, <1>4, <1>5, PastStands, TablesStand, QuietStep DEF At

LEMMA IntakeEditStep == ASSUME Inv, NEW c \in Call, IntakeEdit(c), today' = today PROVE Inv'
<1> USE DEF IntakeEdit
<1>1. /\ Loaded \in Session /\ LoadedGen \in Nat /\ Loaded.flow = row.flow
      /\ Loaded.granted = row.granted /\ Loaded.state = row.state
  BY LoadFacts DEF Inv
<1>2. LoadedGen + 1 \in Nat /\ LoadedGen + 1 # 0  BY <1>1
<1>3. PICK s \in Session : /\ s = [Loaded EXCEPT !.gen = LoadedGen + 1] /\ s.gen # 0 /\ s.flow = row.flow
                           /\ s.granted = row.granted /\ s.state = row.state
  BY <1>1, <1>2 DEF Session
<1>4. /\ call' \in [Call -> CallState] /\ Only(c) /\ call'[c].pc = "flow" /\ call'[c].snap = s
  BY <1>3, HoldFacts DEF Inv, TypeOK, PCs
<1>5. GoodCaller(c)
  BY <1>3, <1>4 DEF Inv, PaymentIsKnown, DonationIsKnown, GoodCaller, At, Holds
<1>6. RowStands  BY <1>2, LoadedStands
<1> QED BY <1>4, <1>5, <1>6, PastStands, TablesStand, QuietStep DEF At

\* What stays right of a session held when its flow or its step changes.
LEMMA SyncActiveFlowStep == ASSUME Inv, NEW c \in Call, SyncActiveFlow(c), today' = today PROVE Inv'
<1> USE DEF SyncActiveFlow
<1>1. PICK f \in {"free", "paid"} : /\ f = (IF PaidUnlocked(call[c].snap) THEN "paid" ELSE "free")
                                    /\ f = "paid" => past.payment
  <2>1. PaidUnlocked(call[c].snap) => past.payment
    BY DEF PaidUnlocked, OrderOf, LiveOrders, Inv, PaymentIsKnown
  <2> QED BY <2>1
<1>2. PICK s \in Session : /\ s = [call[c].snap EXCEPT !.flow = f] /\ s.gen = call[c].snap.gen /\ s.flow = f
                           /\ s.granted = call[c].snap.granted /\ s.state = call[c].snap.state
                           /\ s.order = call[c].snap.order
  <2>1. PICK h \in Session : h = call[c].snap  BY HeldIsGood
  <2>2. [h EXCEPT !.flow = f] \in Session  BY DEF Session
  <2> QED BY <2>1, <2>2 DEF Session
<1>3. /\ call' \in [Call -> CallState] /\ Only(c) /\ call'[c].pc = "save" /\ call'[c].snap = s
  BY <1>1, <1>2, HoldFacts DEF Inv, TypeOK, PCs
<1>4. GoodCaller(c)
  BY <1>1, <1>2, <1>3, HeldIsGood DEF GoodCaller, At, Holds, Carrying
<1> QED BY <1>3, <1>4, UntouchedStands, PastStands, TablesStand, QuietStep DEF At

\* A draft is made only where no order is, or where one is lost sight of.
LEMMA CreateDraftStep ==
  ASSUME Inv, NEW c \in Call, At(c, "order"), call[c].snap.order = 0, CreateDraftOrder(c),
         UNCHANGED <<report, paidOnce, row, lastGen, today>>
  PROVE  Inv'
<1> USE DEF CreateDraftOrder
<1>1. /\ order' \in Seq(OrderStatus) /\ Len(order) \in Nat /\ order \in Seq(OrderStatus)
      /\ DOMAIN order' = 1..(Len(order) + 1) /\ DOMAIN order = 1..Len(order)
      /\ \A o \in 1..Len(order) : order'[o] = order[o]
      /\ order'[Len(order) + 1] = "draft"
  <2>1. order \in Seq(OrderStatus) /\ "draft" \in OrderStatus  BY DEF Inv, TypeOK, OrderStatus
  <2> QED BY <2>1
<1>2. PICK n \in Nat : n = Len(order) + 1 /\ n # 0  BY <1>1
<1>3. PICK s \in Session : /\ s = [call[c].snap EXCEPT !.order = n, !.state = "checkout"]
                           /\ s.gen = call[c].snap.gen /\ s.order = n /\ s.flow = call[c].snap.flow
                           /\ s.granted = call[c].snap.granted /\ s.state = "checkout"
  <2>1. PICK h \in Session : h = call[c].snap  BY HeldIsGood
  <2>2. [h EXCEPT !.order = n, !.state = "checkout"] \in Session  BY DEF Session
  <2> QED BY <2>1, <2>2 DEF Session
<1>4. /\ call' \in [Call -> CallState] /\ Only(c) /\ call'[c].pc = "flow" /\ call'[c].snap = s
  BY <1>2, <1>3, HoldFacts DEF Inv, TypeOK, PCs
<1>5. PICK l \in BOOLEAN : l = (past.orderLapse \/ Unseen(c))  OBVIOUS
<1>6. past' = [past EXCEPT !.orderLapse = l]  BY <1>5, Zenon
<1>7. past'.orderLapse = l  BY <1>6 DEF Inv, TypeOK, Past
<1>8. /\ past' \in Past
      /\ UNCHANGED <<past.payment, past.donation, past.told, past.toldFirst, past.charges, past.usageLapse,
                     past.ctaLapse>>
  BY <1>6 DEF Inv, TypeOK, Past
<1>9. GoodPast  BY <1>5, <1>7, <1>8 DEF GoodPast
<1>10. GoodRow  BY <1>9, UntouchedStands, StandingIsGood
<1>11. GoodTables
  BY <1>1, <1>8 DEF GoodTables, Inv, TypeOK, PaymentIsKnown
<1>12. GoodCaller(c)
  BY <1>2, <1>3, <1>4, <1>8, HeldIsGood DEF GoodCaller, Holds, Carrying, At
<1>13. GoodCalls  BY <1>4, <1>12 DEF GoodCalls, Only
<1>14. BasicInv'  BY <1>9, <1>10, <1>11, <1>13, BasicStep DEF Inv, BasicInv, TypeOK
<1>15. CtaIsKept'
  <2>1. today \in Nat /\ today <= today /\ row.cta.last <= row.cta.last  BY DEF Inv, TypeOK, Session, Cta
  <2>2. CalmCta  BY <1>4, <1>8, <2>1 DEF CalmCta, Only, At
  <2> QED BY <1>8, <1>9, <2>2, CtaStep DEF Inv, TypeOK
<1>16. UsageIsKept'  BY <1>8, <1>9, UsageStep DEF Inv, CalmUsage
<1>17. ASSUME ~past'.orderLapse PROVE LiveOrders = {}
  <2>1. ~past.orderLapse /\ ~Unseen(c)  BY <1>17, <1>5, <1>7
  <2>2. ~Holds(c)  BY DEF Holds, At
  <2>3. row.order = 0 /\ \A d \in Call : ~Holds(d)  BY <2>1, <2>2 DEF Unseen, Holds
  <2> QED BY <2>1, <2>3 DEF Inv, OrderIsKept
<1>18. ASSUME ~past'.orderLapse PROVE LiveOrders' \subseteq {n}
  BY <1>17, <1>18, <1>1, <1>2 DEF LiveOrders
<1>19. OneOrderAtATime'  BY <1>18 DEF OneOrderAtATime
<1>20. OrderIsKept'
  <2>1. Holds(c)'  BY <1>2, <1>3, <1>4 DEF Holds
  <2>2. ASSUME ~past'.orderLapse, NEW d \in Call, At(d, "guarded")' PROVE call'[d].snap.order \in {0, row'.order}
    <3>1. d # c /\ call'[d] = call[d]  BY <2>2, <1>4 DEF At, Only
    <3> QED BY <2>2, <3>1, <1>9 DEF Inv, OrderIsKept, GoodPast, At
  <2> QED BY <2>1, <2>2 DEF OrderIsKept
<1> QED BY <1>14, <1>15, <1>16, <1>19, <1>20 DEF Inv, BasicInv

LEMMA EnsureCheckoutOrderStep == ASSUME Inv, NEW c \in Call, EnsureCheckoutOrder(c), today' = today PROVE Inv'
<1> USE DEF EnsureCheckoutOrder
<1>1. CASE call[c].snap.order = 0  BY <1>1, CreateDraftStep
<1>2. CASE call[c].snap.order # 0
  <2>1. PICK s \in Session : /\ s = [call[c].snap EXCEPT !.state = "checkout"]
                             /\ s.gen = call[c].snap.gen /\ s.order = call[c].snap.order
                             /\ s.flow = call[c].snap.flow
                             /\ s.granted = call[c].snap.granted /\ s.state = "checkout"
    <3>1. PICK h \in Session : h = call[c].snap  BY HeldIsGood
    <3>2. [h EXCEPT !.state = "checkout"] \in Session  BY DEF Session
    <3> QED BY <3>1, <3>2 DEF Session
  <2>2. /\ call' \in [Call -> CallState] /\ Only(c) /\ call'[c].pc = "flow" /\ call'[c].snap = s
    BY <1>2, <2>1, HoldFacts DEF Inv, TypeOK, PCs
  <2>3. GoodCaller(c)
    BY <1>2, <2>1, <2>2, HeldIsGood DEF GoodCaller, Holds, Carrying, At
  <2> QED BY <1>2, <2>2, <2>3, UntouchedStands, PastStands, TablesStand, QuietStep DEF At
<1> QED BY <1>1, <1>2

LEMMA ReadOrderStep ==
  ASSUME Inv, NEW c \in Call, NEW o \in DOMAIN order, NEW v \in Verdict, ReadOrder(c, o, v), today' = today
  PROVE  Inv'
<1> USE DEF ReadOrder
<1>1. order[o] \in OrderStatus /\ o \in Nat  BY DEF Inv, TypeOK
<1>2. PICK x \in CallState : /\ x = [Idle EXCEPT !.pc = "apply", !.read = order[o], !.id = o, !.verdict = v]
                             /\ x.pc = "apply" /\ x.read = order[o] /\ x.verdict = v /\ x.snap = NoRow
  <2>1. PICK i \in CallState : i = Idle /\ i.snap = NoRow  BY IdleType
  <2>2. PICK r \in OrderStatus : r = order[o]  BY <1>1
  <2>3. [i EXCEPT !.pc = "apply", !.read = r, !.id = o, !.verdict = v] \in CallState
    BY <1>1 DEF CallState, Verdict
  <2> QED BY <2>1, <2>2, <2>3 DEF CallState
<1>3. call' \in [Call -> CallState] /\ Only(c) /\ call'[c] = x
  BY <1>2, BecomesFacts DEF Inv, TypeOK
<1>4. GoodCaller(c)
  BY <1>2, <1>3, IdleType DEF GoodCaller, Holds, Carrying, At
<1> QED BY <1>2, <1>3, <1>4, UntouchedStands, PastStands, TablesStand, QuietStep DEF At

\* A status put by id in the orders.
LEMMA PutOrder ==
  ASSUME Inv, NEW o \in Nat, NEW st \in OrderStatus, order' = [order EXCEPT ![o] = st],
         o \in DOMAIN order => order[o] # "deleted"
  PROVE  /\ order' \in Seq(OrderStatus) /\ LiveOrders' \subseteq LiveOrders
         /\ DOMAIN order' = DOMAIN order
         /\ \A p \in DOMAIN order : order'[p] = IF p = o THEN st ELSE order[p]
<1>1. order \in Seq(OrderStatus)  BY DEF Inv, TypeOK
<1>2. order' \in Seq(OrderStatus) /\ DOMAIN order' = DOMAIN order
  <2>1. CASE o \in 1..Len(order)  BY <2>1, <1>1, ExceptSeq, LenProperties
  <2>2. CASE o \notin 1..Len(order)
    <3>1. order' = order  BY <2>2, <1>1, LenProperties
    <3> QED BY <3>1, <1>1
  <2> QED BY <2>1, <2>2
<1>3. \A p \in DOMAIN order : order'[p] = IF p = o THEN st ELSE order[p]  OBVIOUS
<1> QED BY <1>2, <1>3 DEF LiveOrders

LEMMA ApplyVerificationResultStep ==
  ASSUME Inv, NEW c \in Call, ApplyVerificationResult(c), today' = today
  PROVE  Inv'
<1> USE DEF ApplyVerificationResult
<1>1. PICK o \in Nat : o = call[c].id  BY HeldIsGood DEF CallState
<1>2. call[c].verdict \in Verdict  BY HeldIsGood DEF CallState
<1>3. CASE order[o] = "deleted"
  <2>1. Settle(c) /\ UNCHANGED <<order, past>>  BY <1>1, <1>3
  <2>2. GoodCaller(c) /\ call' \in [Call -> CallState] /\ Only(c) /\ call'[c].pc = "idle"
    BY <2>1, DoneIsGood DEF Inv, TypeOK, Holds, At
  <2> QED BY <2>1, <2>2, UntouchedStands, PastStands, TablesStand, QuietStep DEF At
<1>4. CASE order[o] # "deleted"
  <2>1. PICK b \in BOOLEAN : b = (call[c].verdict = "verified")  OBVIOUS
  <2>2. PICK st \in OrderStatus : /\ st = (IF b THEN "paid_verified" ELSE call[c].verdict)
                                  /\ st = "paid_verified" => b
    BY <1>2, <2>1 DEF OrderStatus, Verdict
  <2>3. order' = [order EXCEPT ![o] = st]  BY <1>1, <1>4, <2>1, <2>2
  <2>4. PICK m \in BOOLEAN : m = (past.payment \/ b)  OBVIOUS
  <2>5. past' = [past EXCEPT !.payment = m]
    <3>1. past' = [past EXCEPT !.payment = @ \/ call[c].verdict = "verified"]  BY <1>1, <1>4, Zenon
    <3> QED BY <3>1, <2>1, <2>4, Zenon
  <2>6. past'.payment = m  BY <2>5 DEF Inv, TypeOK, Past
  <2>7. /\ past' \in Past
        /\ UNCHANGED <<past.donation, past.told, past.toldFirst, past.charges, past.usageLapse,
                       past.ctaLapse, past.orderLapse>>
    BY <2>5 DEF Inv, TypeOK, Past
  <2>8. GoodPast  BY <2>4, <2>6, <2>7 DEF GoodPast
  <2>9. GoodRow  BY <2>8, UntouchedStands, StandingIsGood
  <2>10. GoodTables /\ LiveOrders' \subseteq LiveOrders
    <3>1. /\ order' \in Seq(OrderStatus) /\ LiveOrders' \subseteq LiveOrders /\ DOMAIN order' = DOMAIN order
          /\ \A p \in DOMAIN order : order'[p] = IF p = o THEN st ELSE order[p]
      BY <1>4, <2>3, PutOrder
    <3>2. \A p \in DOMAIN order' : order'[p] = "paid_verified" => past'.payment
      BY <3>1, <2>2, <2>4, <2>6 DEF Inv, PaymentIsKnown
    <3> QED BY <3>1, <3>2, <2>4, <2>6 DEF GoodTables, Inv, TypeOK, PaymentIsKnown
  <2>11. PICK x \in CallState : /\ x = (IF b THEN [Idle EXCEPT !.pc = "mirror"] ELSE Idle)
                                /\ x.pc \in {"mirror", "idle"}
                                /\ x.pc = "mirror" => b
                                /\ x.snap = NoRow
    <3>1. PICK i \in CallState : i = Idle /\ i.snap = NoRow /\ i.pc = "idle"  BY IdleType
    <3>2. [i EXCEPT !.pc = "mirror"] \in CallState  BY DEF CallState
    <3> QED BY <3>1, <3>2 DEF CallState
  <2>12. call' \in [Call -> CallState] /\ Only(c) /\ call'[c] = x
    <3>1. call' = [call EXCEPT ![c] = x]  BY <1>1, <1>4, <2>1, <2>11
    <3> QED BY <3>1, BecomesFacts DEF Inv, TypeOK
  <2>13. GoodCaller(c)
    BY <2>4, <2>6, <2>11, <2>12, IdleType DEF GoodCaller, Holds, Carrying, At
  <2>14. row.cta.last <= row.cta.last  BY DEF Inv, TypeOK, Session, Cta
  <2>15. call[c].pc # "patch" /\ UNCHANGED row  BY DEF At
  <2> HIDE DEF ApplyVerificationResult
  <2>16. call'[c].pc \notin {"send", "patch"}  BY <2>11, <2>12
  <2> QED BY <2>7, <2>8, <2>9, <2>10, <2>12, <2>13, <2>14, <2>15, <2>16, CallerStep
<1> QED BY <1>3, <1>4

LEMMA MirrorPaidOnceStep == ASSUME Inv, NEW c \in Call, MirrorPaidOnce(c), today' = today PROVE Inv'
<1> USE DEF MirrorPaidOnce
<1>1. past.payment  BY DEF Inv, PaymentIsKnown
<1>2. GoodTables /\ LiveOrders' \subseteq LiveOrders
  BY <1>1 DEF Inv, TypeOK, GoodTables, LiveOrders
<1>3. GoodCaller(c) /\ call' \in [Call -> CallState] /\ Only(c) /\ call'[c].pc = "idle"
  BY DoneIsGood DEF Inv, TypeOK, Holds, At
<1> QED BY <1>2, <1>3, UntouchedStands, QuietStep DEF At

(* ---- steps of no caller, and the donations ---------------------------------------- *)

LEMMA NobodyStep ==
  ASSUME Inv, GoodPast, GoodRow, GoodTables, LiveOrders' \subseteq LiveOrders, UNCHANGED <<call, today>>,
         past'.told = past.told, past'.toldFirst = past.toldFirst, past'.charges = past.charges,
         ~past'.ctaLapse => row.cta.last <= row'.cta.last /\ (row.cta.first => row'.cta.first),
         ~past'.usageLapse => row'.usage = row.usage
  PROVE  Inv'
<1>1. GoodCalls  BY DEF GoodCalls, Inv, TypeOK
<1>2. CalmCta
  <2>1. today \in Nat /\ today <= today  BY DEF Inv, TypeOK
  <2> QED BY <2>1 DEF CalmCta
<1>3. CalmUsage  BY DEF CalmUsage
<1> QED BY <1>1, <1>2, <1>3, OrdinaryStep DEF Ordinary

LEMMA MarkVerificationPendingStep ==
  ASSUME Inv, NEW o \in DOMAIN order, MarkVerificationPending(o), today' = today
  PROVE  Inv'
<1> USE DEF MarkVerificationPending
<1>1. GoodPast /\ GoodRow  BY PastStands, UntouchedStands, StandingIsGood
<1>2. o \in Nat /\ "verification_pending" \in OrderStatus  BY DEF Inv, TypeOK, OrderStatus
<1>3. /\ order' \in Seq(OrderStatus) /\ LiveOrders' \subseteq LiveOrders /\ DOMAIN order' = DOMAIN order
      /\ \A p \in DOMAIN order : order'[p] = IF p = o THEN "verification_pending" ELSE order[p]
  BY <1>2, PutOrder
<1>4. GoodTables  BY <1>3 DEF GoodTables, Inv, TypeOK, PaymentIsKnown
<1>5. row.cta.last <= row.cta.last  BY DEF Inv, TypeOK, Session, Cta
<1> QED BY <1>1, <1>3, <1>4, <1>5, NobodyStep

LEMMA ReportsStand ==
  ASSUME Inv, GoodPast, report' \in Seq(ReportStatus), UNCHANGED <<order, paidOnce>>
  PROVE  GoodTables /\ LiveOrders' \subseteq LiveOrders
BY DEF Inv, TypeOK, PaymentIsKnown, GoodPast, GoodTables, LiveOrders

LEMMA PutReport ==
  ASSUME Inv, NEW r \in DOMAIN report, NEW st \in ReportStatus, report' = [report EXCEPT ![r] = st]
  PROVE  report' \in Seq(ReportStatus)
<1>1. report \in Seq(ReportStatus) /\ r \in 1..Len(report)  BY LenProperties DEF Inv, TypeOK
<1> QED BY <1>1, ExceptSeq

LEMMA RejectDonationStep ==
  ASSUME Inv, NEW r \in DOMAIN report, RejectDonation(r), today' = today
  PROVE  Inv'
<1> USE DEF RejectDonation
<1>1. GoodPast /\ GoodRow  BY PastStands, UntouchedStands, StandingIsGood
<1>2. report' \in Seq(ReportStatus)  BY PutReport DEF ReportStatus
<1>3. GoodTables /\ LiveOrders' \subseteq LiveOrders  BY <1>1, <1>2, ReportsStand
<1>4. row.cta.last <= row.cta.last  BY DEF Inv, TypeOK, Session, Cta
<1> QED BY <1>1, <1>3, <1>4, NobodyStep

LEMMA CreateDonateReportStep ==
  ASSUME Inv, NEW c \in Call, CreateDonateReport(c), today' = today
  PROVE  Inv'
<1> USE DEF CreateDonateReport
<1>1. report' \in Seq(ReportStatus)
  <2>1. report \in Seq(ReportStatus) /\ "reported" \in ReportStatus  BY DEF Inv, TypeOK, ReportStatus
  <2> QED BY <2>1
<1>2. /\ call' \in [Call -> CallState] /\ Only(c) /\ call'[c].pc = "report" /\ call'[c].snap = call[c].snap
  BY MovesFacts DEF Inv, TypeOK, PCs
<1>3. GoodCaller(c)  BY <1>2, HeldIsGood DEF GoodCaller, Holds, Carrying, At
<1>4. GoodTables /\ LiveOrders' \subseteq LiveOrders  BY <1>1, PastStands, ReportsStand
<1> QED BY <1>2, <1>3, <1>4, UntouchedStands, QuietStep DEF At

LEMMA ReportInSessionStep ==
  ASSUME Inv, NEW c \in Call, ReportInSession(c), today' = today
  PROVE  Inv'
<1> USE DEF ReportInSession, Load
<1>1. /\ Loaded \in Session /\ Loaded.gen # 0 /\ LoadedGen \in Nat /\ Loaded.flow = row.flow
      /\ Loaded.granted = row.granted
  BY LoadFacts DEF Inv
<1>2. PICK s \in Session : /\ s = [Loaded EXCEPT !.state = "donate_reported"] /\ s.gen # 0 /\ s.flow = row.flow
                           /\ s.granted = row.granted /\ s.state = "donate_reported"
  BY <1>1 DEF Session
<1>3. /\ call' \in [Call -> CallState] /\ Only(c) /\ call'[c].pc = "save" /\ call'[c].snap = s
  BY <1>2, HoldFacts DEF Inv, TypeOK, PCs
<1>4. GoodCaller(c)
  BY <1>2, <1>3 DEF Inv, PaymentIsKnown, DonationIsKnown, GoodCaller, At, Holds
<1>5. RowStands  BY <1>1, LoadedStands
<1> QED BY <1>3, <1>4, <1>5, PastStands, TablesStand, QuietStep DEF At

LEMMA AdminVerifyDonationStep ==
  ASSUME Inv, NEW c \in Call, NEW r \in DOMAIN report, AdminVerifyDonation(c, r), today' = today
  PROVE  Inv'
<1> USE DEF AdminVerifyDonation
<1>1. /\ past' \in Past /\ past'.donation = TRUE
      /\ UNCHANGED <<past.payment, past.told, past.toldFirst, past.charges, past.usageLapse,
                     past.ctaLapse, past.orderLapse>>
  BY DEF Inv, TypeOK, Past
<1>2. GoodPast  BY <1>1 DEF GoodPast
<1>3. GoodRow  BY <1>2, UntouchedStands, StandingIsGood
<1>4. report' \in Seq(ReportStatus)  BY PutReport DEF ReportStatus
<1>5. GoodTables /\ LiveOrders' \subseteq LiveOrders  BY <1>2, <1>4, ReportsStand
<1>6. /\ call' \in [Call -> CallState] /\ Only(c) /\ call'[c].pc = "grant" /\ call'[c].snap = call[c].snap
  BY MovesFacts DEF Inv, TypeOK, PCs
<1>7. GoodCaller(c)  BY <1>1, <1>6, HeldIsGood DEF GoodCaller, Holds, Carrying, At
<1>8. row.cta.last <= row.cta.last /\ call[c].pc # "patch"  BY DEF Inv, TypeOK, Session, Cta, At
<1> QED BY <1>1, <1>2, <1>3, <1>5, <1>6, <1>7, <1>8, CallerStep

LEMMA UpgradeToSupporterStep ==
  ASSUME Inv, NEW c \in Call, UpgradeToSupporter(c), today' = today
  PROVE  Inv'
<1> USE DEF UpgradeToSupporter, Load
<1>1. /\ Loaded \in Session /\ Loaded.gen # 0 /\ LoadedGen \in Nat /\ Loaded.flow = row.flow
  BY LoadFacts DEF Inv
<1>2. PICK s \in Session : /\ s = [Loaded EXCEPT !.granted = TRUE,
                                     !.state = IF @ = "donate_reported" THEN "donate_verified" ELSE @]
                           /\ s.gen # 0 /\ s.flow = row.flow
  <2>1. PICK h \in Session : h = Loaded /\ h.gen # 0 /\ h.flow = row.flow  BY <1>1
  <2>2. [h EXCEPT !.granted = TRUE, !.state = IF @ = "donate_reported" THEN "donate_verified" ELSE @] \in Session
    BY DEF Session
  <2> QED BY <2>1, <2>2 DEF Session
<1>3. /\ call' \in [Call -> CallState] /\ Only(c) /\ call'[c].pc = "save" /\ call'[c].snap = s
  BY <1>2, HoldFacts DEF Inv, TypeOK, PCs
<1>4. past.donation  BY DEF Inv, DonationIsKnown
<1>5. GoodCaller(c)
  BY <1>2, <1>3, <1>4 DEF Inv, PaymentIsKnown, GoodCaller, At, Holds
<1>6. RowStands  BY <1>1, LoadedStands
<1> QED BY <1>3, <1>5, <1>6, PastStands, TablesStand, QuietStep DEF At

(* ---- reset and erasure -------------------------------------------------------------- *)

LEMMA ResetSessionStep == ASSUME Inv, ResetSession, today' = today PROVE Inv'
<1> USE DEF ResetSession
<1>1. lastGen + 1 \in Nat /\ lastGen + 1 # 0 /\ 0 \in Nat  BY DEF Inv, TypeOK
<1>2. PICK s \in Session : /\ s = FreshSession(lastGen + 1) /\ s.gen # 0 /\ s.order = 0 /\ s.flow = "free"
                           /\ s.granted = FALSE /\ s.state = "chatting"
  BY <1>1, FreshType
<1>3. PICK z \in Session : /\ z = FreshSession(0) /\ z.order = 0 /\ z.cta = NoCta /\ z.usage = NoUsage
  BY <1>1, FreshType
<1>4. s.cta = NoCta /\ s.usage = NoUsage  BY <1>1, <1>2, FreshType
<1>5. GoodPast /\ UNCHANGED <<past.payment, past.donation, past.told, past.toldFirst, past.charges>>
  BY <1>3, LoseFacts DEF Inv, TypeOK, GoodPast
<1>6. /\ ~past'.orderLapse => row.order = 0
      /\ ~past'.ctaLapse => row.cta = s.cta
      /\ ~past'.usageLapse => row.usage = s.usage
  BY <1>3, <1>4, LoseFacts DEF Inv, TypeOK
<1>7. /\ row' \in Session /\ row'.gen # 0 /\ row'.order = 0 /\ row'.flow = "free"
      /\ row'.state = "chatting" /\ row'.cta = s.cta /\ row'.usage = s.usage
      /\ row'.granted \in {FALSE, row.granted}
  BY <1>2, SavedFacts DEF Inv
<1>8. GoodRow
  <2>1. row'.granted \/ row'.state = "donate_verified" => past'.donation
    <3>1. row.granted => past.donation  BY DEF Inv, DonationIsKnown
    <3> QED BY <1>5, <1>7, <3>1
  <2> QED BY <1>1, <1>6, <1>7, <2>1 DEF GoodRow
<1>9. GoodTables /\ LiveOrders' \subseteq LiveOrders  BY <1>5, TablesStand
<1>10. row.cta.last <= row.cta.last  BY DEF Inv, TypeOK, Session, Cta
<1> QED BY <1>5, <1>6, <1>7, <1>8, <1>9, <1>10, NobodyStep

LEMMA EraseCustomerStep == ASSUME Inv, EraseCustomer, today' = today PROVE Inv'
<1> USE DEF EraseCustomer
<1>1. GoodPast /\ UNCHANGED <<past.payment, past.donation, past.told, past.toldFirst, past.charges>>
  BY IdleType, LoseFacts DEF Inv, TypeOK, GoodPast
<1>2. /\ ~past'.orderLapse => row.order \in {0, row'.order}
      /\ ~past'.ctaLapse => row.cta = row'.cta
      /\ ~past'.usageLapse => row.usage = row'.usage
  BY IdleType, LoseFacts DEF Inv, TypeOK
<1>3. GoodRow  BY <1>2, IdleType DEF GoodRow, Inv, TypeOK
<1>4. order' \in Seq(OrderStatus) /\ report' \in Seq(ReportStatus)
  <2>1. order \in Seq(OrderStatus) /\ report \in Seq(ReportStatus)  BY DEF Inv, TypeOK
  <2>2. /\ order' \in [1..Len(order) -> OrderStatus] /\ Len(order) \in Nat
        /\ report' \in [1..Len(report) -> ReportStatus] /\ Len(report) \in Nat
    BY <2>1, LenProperties DEF OrderStatus, ReportStatus
  <2> QED BY <2>2, SeqDef
<1>5. GoodTables  BY <1>4 DEF GoodTables
<1>6. LiveOrders' \subseteq LiveOrders  BY DEF LiveOrders
<1>7. row.cta.last <= row.cta.last  BY DEF Inv, TypeOK, Session, Cta
<1> QED BY <1>1, <1>2, <1>3, <1>5, <1>6, <1>7, NobodyStep

(* ---- the CTA ------------------------------------------------------------------------ *)

\* A record made of a row: another session, or none, keeps its own.
LEMMA PatchCtaFacts ==
  ASSUME Inv, NEW g \in Nat \ {0}, NEW cta \in Cta, PatchCta(g, cta)
  PROVE  /\ row' \in Session /\ row'.gen = row.gen
         /\ row'.gen = 0 => row' = NoRow
         /\ row'.order = row.order /\ row'.flow = row.flow /\ row'.granted = row.granted
         /\ row'.state = row.state /\ row'.usage = row.usage
         /\ row'.cta = IF row.gen = g THEN cta ELSE row.cta
<1>1. CASE row.gen = g  BY <1>1 DEF PatchCta, Inv, TypeOK, Session
<1>2. CASE row.gen # g  BY <1>2 DEF PatchCta, Inv, TypeOK, SessionsAreReal
<1> QED BY <1>1, <1>2

LEMMA PatchedIsGood ==
  ASSUME Inv, NEW g \in Nat \ {0}, NEW cta \in Cta, PatchCta(g, cta), GoodPast, lastGen' = lastGen
  PROVE  GoodRow /\ row'.usage = row.usage
<1>1. /\ row' \in Session /\ row'.order = row.order /\ row'.flow = row.flow /\ row'.granted = row.granted
      /\ row'.state = row.state /\ row'.usage = row.usage
      /\ row'.gen = 0 => row' = NoRow
  BY PatchCtaFacts
<1> QED BY <1>1 DEF GoodRow, Inv, TypeOK, PaymentIsKnown, DonationIsKnown, GoodPast

LEMMA CtaLoadStep ==
  ASSUME Inv, NEW c \in Call, NEW g \in 1..lastGen, NEW reason \in Reason, CtaLoad(c, g, reason), today' = today
  PROVE  Inv'
<1> USE DEF CtaLoad, Load
<1>1. RowStands  BY LoadFacts, LoadedStands DEF Inv
<1>2. g \in Nat /\ g # 0  BY DEF Inv, TypeOK
<1>3. PICK s \in Session : s = [NoRow EXCEPT !.gen = g] /\ s.gen = g /\ s.flow = "free" /\ s.granted = FALSE
                           /\ s.state = "chatting" /\ s.order = 0
  <2>1. PICK n \in Session : n = NoRow /\ n.flow = "free" /\ n.granted = FALSE /\ n.state = "chatting" /\ n.order = 0
    BY IdleType
  <2>2. [n EXCEPT !.gen = g] \in Session  BY <1>2 DEF Session
  <2> QED BY <2>1, <2>2 DEF Session
<1>4. PICK x \in CallState : /\ x = [Idle EXCEPT !.pc = "meta", !.snap.gen = g, !.reason = reason]
                             /\ x.pc = "meta" /\ x.snap = s
  <2>1. PICK i \in CallState : i = Idle /\ i.snap = NoRow  BY IdleType
  <2>2. [i EXCEPT !.pc = "meta", !.snap = s, !.reason = reason] \in CallState  BY DEF CallState, Reason
  <2>3. [i EXCEPT !.pc = "meta", !.snap.gen = g, !.reason = reason]
          = [i EXCEPT !.pc = "meta", !.snap = s, !.reason = reason]
    BY <1>3, <2>1 DEF CallState
  <2> QED BY <2>1, <2>2, <2>3 DEF CallState
<1>5. CASE Loaded.gen = g
  <2>1. call' \in [Call -> CallState] /\ Only(c) /\ call'[c] = x
    BY <1>4, <1>5, BecomesFacts DEF Inv, TypeOK
  <2>2. GoodCaller(c)
    <3>1. ~Holds(c)  BY DEF Holds, At
    <3>2. /\ call'[c].pc = x.pc /\ call'[c].snap.gen # 0 /\ call'[c].snap.flow = "free"
          /\ call'[c].snap.granted = FALSE /\ call'[c].snap.state = "chatting"
      BY <1>2, <1>3, <1>4, <2>1
    <3> QED BY <1>4, <3>1, <3>2 DEF GoodCaller
  <2> QED BY <1>1, <1>4, <2>1, <2>2, PastStands, TablesStand, QuietStep DEF At
<1>6. CASE Loaded.gen # g
  <2>1. UNCHANGED call  BY <1>6
  <2>2. GoodPast /\ GoodRow /\ GoodTables /\ LiveOrders' \subseteq LiveOrders
    BY <1>1, PastStands, StandingIsGood, TablesStand
  <2>3. row.cta.last <= row.cta.last  BY DEF Inv, TypeOK, Session, Cta
  <2> QED BY <1>1, <2>1, <2>2, <2>3, NobodyStep DEF RowStands
<1> QED BY <1>5, <1>6

LEMMA LegacyLoadStep ==
  ASSUME Inv, NEW c \in Call, NEW g \in 1..lastGen, LegacyLoad(c, g), today' = today
  PROVE  Inv'
<1> USE DEF LegacyLoad, Load
<1>1. RowStands  BY LoadFacts, LoadedStands DEF Inv
<1>2. g \in Nat /\ g # 0  BY DEF Inv, TypeOK
<1>3. PICK s \in Session : s = [NoRow EXCEPT !.gen = g] /\ s.gen = g /\ s.flow = "free" /\ s.granted = FALSE
                           /\ s.state = "chatting" /\ s.order = 0
  <2>1. PICK n \in Session : n = NoRow /\ n.flow = "free" /\ n.granted = FALSE /\ n.state = "chatting" /\ n.order = 0
    BY IdleType
  <2>2. [n EXCEPT !.gen = g] \in Session  BY <1>2 DEF Session
  <2> QED BY <2>1, <2>2 DEF Session
<1>4. PICK x \in CallState : /\ x = [Idle EXCEPT !.pc = "baseline", !.snap.gen = g]
                             /\ x.pc = "baseline" /\ x.snap = s
  <2>1. PICK i \in CallState : i = Idle /\ i.snap = NoRow  BY IdleType
  <2>2. [i EXCEPT !.pc = "baseline", !.snap = s] \in CallState  BY DEF CallState
  <2>3. [i EXCEPT !.pc = "baseline", !.snap.gen = g] = [i EXCEPT !.pc = "baseline", !.snap = s]
    BY <1>3, <2>1 DEF CallState
  <2> QED BY <2>1, <2>2, <2>3 DEF CallState
<1>5. CASE call' = [call EXCEPT ![c] = x]
  <2>1. call' \in [Call -> CallState] /\ Only(c) /\ call'[c] = x
    BY <1>4, <1>5, BecomesFacts DEF Inv, TypeOK
  <2>2. GoodCaller(c)
    <3>1. ~Holds(c)  BY DEF Holds, At
    <3>2. /\ call'[c].pc = x.pc /\ call'[c].snap.gen # 0 /\ call'[c].snap.flow = "free"
          /\ call'[c].snap.granted = FALSE /\ call'[c].snap.state = "chatting"
      BY <1>2, <1>3, <1>4, <2>1
    <3> QED BY <1>4, <3>1, <3>2 DEF GoodCaller
  <2> QED BY <1>1, <1>4, <2>1, <2>2, PastStands, TablesStand, QuietStep DEF At
<1>6. CASE UNCHANGED call
  <2>1. GoodPast /\ GoodRow /\ GoodTables /\ LiveOrders' \subseteq LiveOrders
    BY <1>1, PastStands, StandingIsGood, TablesStand
  <2>2. row.cta.last <= row.cta.last  BY DEF Inv, TypeOK, Session, Cta
  <2> QED BY <1>1, <1>6, <2>1, <2>2, NobodyStep DEF RowStands
<1> QED BY <1>4, <1>5, <1>6

LEMMA LegacyBaselineStep == ASSUME Inv, NEW c \in Call, LegacyBaseline(c), today' = today PROVE Inv'
<1> USE DEF LegacyBaseline
<1>1. PICK g \in Nat \ {0} : g = call[c].snap.gen
  <2>1. call[c].snap \in Session /\ call[c].snap.gen # 0  BY HeldIsGood DEF Carrying, At
  <2> QED BY <2>1 DEF Session
<1>2. PICK t \in Nat : t = today  BY DEF Inv, TypeOK
<1>3. PICK cta \in Cta : /\ cta = [row.cta EXCEPT !.base = t] /\ cta.last = row.cta.last
                         /\ cta.first = row.cta.first
  <2>1. PICK k \in Cta : k = row.cta  BY DEF Inv, TypeOK, Session
  <2>2. [k EXCEPT !.base = t] \in Cta  BY DEF Cta
  <2> QED BY <2>1, <2>2 DEF Cta
<1>4. PatchCta(g, cta)  BY <1>1, <1>2, <1>3
<1>5. GoodPast /\ GoodRow /\ row'.usage = row.usage  BY <1>4, PastStands, PatchedIsGood
<1>6. row'.cta = IF row.gen = g THEN cta ELSE row.cta  BY <1>4, PatchCtaFacts
<1>7. row.cta.last <= row'.cta.last /\ row.cta.first = row'.cta.first
  BY <1>3, <1>6 DEF Inv, TypeOK, Session, Cta
<1>8. GoodCaller(c) /\ call' \in [Call -> CallState] /\ Only(c) /\ call'[c].pc = "idle"
  BY DoneIsGood DEF Inv, TypeOK, Holds, At
<1>9. GoodTables /\ LiveOrders' \subseteq LiveOrders  BY <1>5, TablesStand
<1>10. call[c].pc # "patch"  BY DEF At
<1> QED BY <1>5, <1>7, <1>8, <1>9, <1>10, CallerStep

LEMMA RecordInitialValueDeliveredStep ==
  ASSUME Inv, NEW g \in 1..lastGen, NEW withReading \in BOOLEAN,
         RecordInitialValueDelivered(g, withReading)
  PROVE  Inv'
<1> USE DEF RecordInitialValueDelivered
<1>1. g \in Nat \ {0}  BY DEF Inv, TypeOK
<1>2. PICK t \in Nat : t = today  BY DEF Inv, TypeOK
<1>3. PICK b \in BOOLEAN : b = (row.cta.first \/ withReading)  OBVIOUS
<1>4. PICK cta \in Cta : /\ cta = [row.cta EXCEPT !.base = t, !.first = b] /\ cta.last = row.cta.last
                         /\ cta.first = b
  <2>1. PICK k \in Cta : k = row.cta  BY DEF Inv, TypeOK, Session
  <2>2. [k EXCEPT !.base = t, !.first = b] \in Cta  BY DEF Cta
  <2> QED BY <2>1, <2>2 DEF Cta
<1>5. PatchCta(g, cta)
  <2>1. [row.cta EXCEPT !.base = today, !.first = @ \/ withReading] = cta  BY <1>2, <1>3, <1>4
  <2> QED BY <2>1
<1>6. GoodPast /\ GoodRow /\ row'.usage = row.usage  BY <1>1, <1>5, PastStands, PatchedIsGood
<1>7. row'.cta = IF row.gen = g THEN cta ELSE row.cta  BY <1>1, <1>5, PatchCtaFacts
<1>8. row.cta.last <= row'.cta.last /\ (row.cta.first => row'.cta.first)
  <2>1. row.cta.last <= row.cta.last  BY DEF Inv, TypeOK, Session, Cta
  <2> QED BY <1>3, <1>4, <1>7, <2>1
<1>9. GoodTables /\ LiveOrders' \subseteq LiveOrders  BY <1>6, TablesStand
<1> QED BY <1>6, <1>8, <1>9, NobodyStep

LEMMA CtaSettleStep ==
  ASSUME Inv, NEW c \in Call, call[c].pc # "patch", ~Holds(c), Settle(c),
         UNCHANGED <<order, report, paidOnce, row, lastGen, past, today>>
  PROVE  Inv'
<1>1. GoodCaller(c) /\ call' \in [Call -> CallState] /\ Only(c) /\ call'[c].pc = "idle"
  BY DoneIsGood DEF Inv, TypeOK
<1> QED BY <1>1, UntouchedStands, PastStands, TablesStand, QuietStep

\* Where the CTA stands aside, a caller's step concerns none of the rest.
LEMMA CtaCallerStep ==
  ASSUME Inv, NEW c \in Call, call' \in [Call -> CallState], Only(c), GoodCaller(c), GoodPast, GoodRow,
         UNCHANGED <<order, report, paidOnce, today>>, past'.charges = past.charges,
         row'.usage = row.usage, CtaIsKept'
  PROVE  Inv'
<1>1. GoodCalls  BY DEF GoodCalls, Only
<1>2. GoodTables /\ LiveOrders' \subseteq LiveOrders  BY TablesStand
<1>3. BasicInv'  BY <1>1, <1>2, BasicStep DEF Inv, BasicInv, TypeOK
<1>4. OneOrderAtATime' /\ OrderIsKept'  BY <1>1, <1>2, OrderStep DEF Inv
<1>5. UsageIsKept'  BY UsageStep DEF Inv, CalmUsage
<1> QED BY <1>3, <1>4, <1>5 DEF Inv, BasicInv

\* The decision finds the CTA of before recorded, or does not count.
LEMMA CtaDecideStep == ASSUME Inv, NEW c \in Call, CtaDecide(c), today' = today PROVE Inv'
<1> USE DEF CtaDecide
<1>1. call[c].pc = "meta" /\ ~Holds(c)  BY DEF At, Holds
<1>2. CASE Settle(c) /\ UNCHANGED past  BY <1>1, <1>2, CtaSettleStep
<1>3. CASE /\ ShouldSendSupportCta(call[c].reason)
           /\ call' = [call EXCEPT ![c].pc = "send"]
           /\ past' = [past EXCEPT !.ctaLapse = @ \/ \E d \in Call : call[d].pc \in {"send", "patch"}]
  <2>1. PICK k \in BOOLEAN : k = (past.ctaLapse \/ \E d \in Call : call[d].pc \in {"send", "patch"})  OBVIOUS
  <2>2. past' = [past EXCEPT !.ctaLapse = k]  BY <1>3, <2>1, Zenon
  <2>3. past'.ctaLapse = k  BY <2>2 DEF Inv, TypeOK, Past
  <2>4. /\ past' \in Past
        /\ UNCHANGED <<past.payment, past.donation, past.told, past.toldFirst, past.charges, past.usageLapse,
                       past.orderLapse>>
    BY <2>2 DEF Inv, TypeOK, Past
  <2> HIDE DEF CtaDecide
  <2>5. UNCHANGED <<order, report, paidOnce, row, lastGen>>  BY DEF CtaDecide
  <2>6. GoodPast  BY <2>1, <2>3, <2>4 DEF GoodPast
  <2>7. GoodRow  BY <2>5, <2>6, UntouchedStands, StandingIsGood
  <2>8. /\ call' \in [Call -> CallState] /\ Only(c) /\ call'[c].pc = "send" /\ call'[c].snap = call[c].snap
        /\ call'[c].reason = call[c].reason
    BY <1>3, MovesFacts DEF Inv, TypeOK, PCs
  <2>9. GoodCaller(c)  BY <1>1, <2>4, <2>8, HeldIsGood DEF GoodCaller, Carrying
  <2>10. CtaIsKept'
    <3>1. past'.told <= today'  BY <2>4 DEF Inv, CtaIsKept
    <3> SUFFICES ASSUME ~past'.ctaLapse
                 PROVE  /\ OneSender' /\ TellingIsRecorded'
                        /\ \A d \in Call : At(d, "send")' => MayTell(call[d].reason)'
      BY <3>1 DEF CtaIsKept
    <3>2. ~past.ctaLapse /\ \A d \in Call : call[d].pc \notin {"send", "patch"}  BY <2>1, <2>3
    <3>3. /\ past.told <= row.cta.last
          /\ past.toldFirst => row.cta.first
      BY <3>2 DEF Inv, CtaIsKept, TellingIsRecorded, At
    <3>4. OneSender'  BY <3>2, <2>8 DEF OneSender, Only
    <3>5. TellingIsRecorded'  BY <3>3, <2>4, <2>5 DEF TellingIsRecorded
    <3>6. MayTell(call[c].reason)
      <4>1. past.told \in Nat /\ row.cta.last \in Nat /\ today \in Nat /\ Interval \in Nat
        BY CtaAssumption DEF Inv, TypeOK, Past, Session, Cta
      <4> QED BY <1>3, <3>3, <4>1 DEF ShouldSendSupportCta, MayTell, TooSoon
    <3>7. ASSUME NEW d \in Call, At(d, "send")' PROVE MayTell(call[d].reason)'
      <4>1. d = c  BY <3>2, <3>7, <2>8 DEF Only, At
      <4> QED BY <3>6, <4>1, <2>4, <2>8 DEF MayTell, TooSoon
    <3> QED BY <3>4, <3>5, <3>7
  <2> QED BY <2>4, <2>5, <2>6, <2>7, <2>8, <2>9, <2>10, CtaCallerStep
<1> QED BY <1>2, <1>3

LEMMA CtaSendStep == ASSUME Inv, NEW c \in Call, CtaSend(c), today' = today PROVE Inv'
<1> USE DEF CtaSend
<1>1. call[c].pc = "send" /\ ~Holds(c)  BY DEF At, Holds
<1>2. CASE Settle(c) /\ UNCHANGED past  BY <1>1, <1>2, CtaSettleStep
<1>3. CASE /\ call' = [call EXCEPT ![c].pc = "patch"]
           /\ past' = [past EXCEPT !.told = today, !.toldFirst = @ \/ call[c].reason = "initial"]
  <2>1. PICK b \in BOOLEAN : b = (past.toldFirst \/ call[c].reason = "initial")  OBVIOUS
  <2>2. PICK t \in Nat : t = today  BY DEF Inv, TypeOK
  <2>3. past' = [past EXCEPT !.told = t, !.toldFirst = b]  BY <1>3, <2>1, <2>2, Zenon
  <2>4. past'.told = t /\ past'.toldFirst = b  BY <2>3 DEF Inv, TypeOK, Past
  <2>5. /\ past' \in Past
        /\ UNCHANGED <<past.payment, past.donation, past.charges, past.usageLapse,
                       past.orderLapse, past.ctaLapse>>
    BY <2>3 DEF Inv, TypeOK, Past
  <2> HIDE DEF CtaSend
  <2>6. UNCHANGED <<order, report, paidOnce, row, lastGen>>  BY DEF CtaSend
  <2>7. GoodPast  BY <2>5 DEF GoodPast
  <2>8. GoodRow  BY <2>6, <2>7, UntouchedStands, StandingIsGood
  <2>9. /\ call' \in [Call -> CallState] /\ Only(c) /\ call'[c].pc = "patch" /\ call'[c].snap = call[c].snap
        /\ call'[c].reason = call[c].reason
    BY <1>3, MovesFacts DEF Inv, TypeOK, PCs
  <2>10. GoodCaller(c)  BY <1>1, <2>5, <2>9, HeldIsGood DEF GoodCaller, Carrying
  <2>11. CtaIsKept'
    <3>1. past'.told <= today'  BY <2>2, <2>4
    <3> SUFFICES ASSUME ~past'.ctaLapse
                 PROVE  /\ OneSender' /\ TellingIsRecorded'
                        /\ \A d \in Call : At(d, "send")' => MayTell(call[d].reason)'
      BY <3>1 DEF CtaIsKept
    <3>2. OneSender /\ TellingIsRecorded  BY <2>5 DEF Inv, CtaIsKept
    <3>3. \A d \in Call : d # c => call[d].pc \notin {"send", "patch"}  BY <1>1, <3>2 DEF OneSender
    <3>4. past.toldFirst => row.cta.first  BY <1>1, <3>2, <3>3 DEF TellingIsRecorded, At
    <3>5. OneSender'  BY <3>3, <2>9 DEF OneSender, Only
    <3>6. TellingIsRecorded'  BY <3>4, <2>1, <2>4, <2>6, <2>9 DEF TellingIsRecorded, At
    <3>7. \A d \in Call : ~At(d, "send")'  BY <3>3, <2>9 DEF At, Only
    <3> QED BY <3>5, <3>6, <3>7
  <2> QED BY <2>5, <2>6, <2>7, <2>8, <2>9, <2>10, <2>11, CtaCallerStep
<1> QED BY <1>2, <1>3

\* The record takes the place of the caller that sent.
LEMMA CtaPatchStep == ASSUME Inv, NEW c \in Call, CtaPatch(c), today' = today PROVE Inv'
<1>1. call[c].pc = "patch" /\ ~Holds(c) /\ Settle(c) /\ UNCHANGED <<order, report, paidOnce, lastGen>>
  BY DEF CtaPatch, At, Holds
<1>2. PICK g \in Nat \ {0} : g = call[c].snap.gen
  <2>1. call[c].snap \in Session /\ call[c].snap.gen # 0  BY <1>1, HeldIsGood DEF Carrying
  <2> QED BY <2>1 DEF Session
<1>3. PICK t \in Nat : t = today  BY DEF Inv, TypeOK
<1>4. PICK b \in BOOLEAN : b = (row.cta.first \/ call[c].reason = "initial")  OBVIOUS
<1>5. PICK cta \in Cta : /\ cta = [row.cta EXCEPT !.first = b, !.last = t] /\ cta.first = b /\ cta.last = t
  <2>1. PICK k \in Cta : k = row.cta  BY DEF Inv, TypeOK, Session
  <2>2. [k EXCEPT !.first = b, !.last = t] \in Cta  BY DEF Cta
  <2> QED BY <2>1, <2>2 DEF Cta
<1>6. PatchCta(g, cta)
  <2>1. [row.cta EXCEPT !.first = @ \/ call[c].reason = "initial", !.last = today] = cta
    BY <1>3, <1>4, <1>5
  <2> QED BY <2>1, <1>2 DEF CtaPatch
<1>7. PICK k \in BOOLEAN : k = (past.ctaLapse \/ row.gen # g)  OBVIOUS
<1>8. past' = [past EXCEPT !.ctaLapse = k]  BY <1>2, <1>7, Zenon DEF CtaPatch
<1>9. past'.ctaLapse = k  BY <1>8 DEF Inv, TypeOK, Past
<1>10. /\ past' \in Past
       /\ UNCHANGED <<past.payment, past.donation, past.told, past.toldFirst, past.charges, past.usageLapse,
                      past.orderLapse>>
  BY <1>8 DEF Inv, TypeOK, Past
<1>11. GoodPast  BY <1>7, <1>9, <1>10 DEF GoodPast
<1>12. GoodRow /\ row'.usage = row.usage  BY <1>1, <1>6, <1>11, PatchedIsGood
<1>13. GoodCaller(c) /\ call' \in [Call -> CallState] /\ Only(c) /\ call'[c].pc = "idle"
  BY <1>1, DoneIsGood DEF Inv, TypeOK
<1>14. CtaIsKept'
  <2>1. past'.told <= today'  BY <1>10 DEF Inv, CtaIsKept
  <2> SUFFICES ASSUME ~past'.ctaLapse
               PROVE  /\ OneSender' /\ TellingIsRecorded'
                      /\ \A d \in Call : At(d, "send")' => MayTell(call[d].reason)'
    BY <2>1 DEF CtaIsKept
  <2>2. ~past.ctaLapse /\ row.gen = g  BY <1>7, <1>9
  <2>3. OneSender /\ TellingIsRecorded  BY <2>2 DEF Inv, CtaIsKept
  <2>4. \A d \in Call : d # c => call[d].pc \notin {"send", "patch"}  BY <1>1, <2>3 DEF OneSender
  <2>5. \A d \in Call : call'[d].pc \notin {"send", "patch"}  BY <2>4, <1>13 DEF Only
  <2>6. row'.cta.last = today /\ row'.cta.first = b  BY <2>2, <1>3, <1>5, <1>6, PatchCtaFacts
  <2>7. past.toldFirst => b  BY <2>3, <2>4, <1>4 DEF TellingIsRecorded, At
  <2>8. TellingIsRecorded'  BY <2>1, <2>6, <2>7, <1>10 DEF TellingIsRecorded
  <2>9. OneSender'  BY <2>5 DEF OneSender
  <2> QED BY <2>5, <2>8, <2>9 DEF At
<1> QED BY <1>1, <1>10, <1>11, <1>12, <1>13, <1>14, CtaCallerStep

(* ---- the free usage ------------------------------------------------------------------- *)

\* A usage put in the row by one statement, with the charges it stands for.
LEMMA PutUsage ==
  ASSUME Inv, NEW u \in Usage, row' = [row EXCEPT !.usage = u], row.gen # 0,
         NEW n \in Nat, past' = [past EXCEPT !.charges = n],
         UNCHANGED <<order, report, paidOnce, lastGen, call, today>>, UsageIsKept'
  PROVE  Inv'
<1>1. /\ row' \in Session /\ row'.gen # 0 /\ row'.order = row.order /\ row'.flow = row.flow
      /\ row'.granted = row.granted /\ row'.state = row.state /\ row'.cta = row.cta
  BY DEF Inv, TypeOK, Session
<1>2. /\ past' \in Past
      /\ UNCHANGED <<past.payment, past.donation, past.told, past.toldFirst, past.usageLapse,
                     past.orderLapse, past.ctaLapse>>
  BY DEF Inv, TypeOK, Past
<1>3. GoodPast  BY <1>2 DEF GoodPast
<1>4. GoodRow  BY <1>1, <1>2 DEF GoodRow, Inv, TypeOK, PaymentIsKnown, DonationIsKnown
<1>5. GoodTables /\ LiveOrders' \subseteq LiveOrders  BY <1>3, TablesStand
<1>6. GoodCalls  BY DEF GoodCalls, Inv, TypeOK
<1>7. BasicInv'  BY <1>3, <1>4, <1>5, <1>6, BasicStep DEF Inv, BasicInv, TypeOK
<1>8. OneOrderAtATime' /\ OrderIsKept'  BY <1>3, <1>4, <1>5, <1>6, OrderStep DEF Inv
<1>9. CtaIsKept'
  <2>1. today \in Nat /\ today <= today /\ row.cta.last <= row.cta.last  BY DEF Inv, TypeOK, Session, Cta
  <2>2. CalmCta  BY <1>1, <1>2, <2>1 DEF CalmCta
  <2> QED BY <1>1, <1>2, <1>3, <2>2, CtaStep DEF Inv
<1> QED BY <1>7, <1>8, <1>9 DEF Inv, BasicInv

LEMMA ChargeFreeUsageStep ==
  ASSUME Inv, NEW g \in 1..lastGen, NEW id \in ChargeId, ChargeFreeUsage(g, id)
  PROVE  Inv'
<1>1. row.gen = g /\ row.gen # 0  BY DEF ChargeFreeUsage, Inv, TypeOK
<1>2. /\ row.usage \in Usage /\ row.usage.day \in Nat /\ row.usage.used \in Nat
      /\ today \in Nat /\ past.charges \in Nat /\ Limit \in Nat \ {0} /\ id \in Nat
  BY CtaAssumption, LimitAssumption DEF Inv, TypeOK, Session, Usage, Past
<1>3. PICK k \in Nat : k = (IF row.usage.day = today THEN row.usage.used ELSE 0) + 1  BY <1>2
<1>4. PICK u \in Usage : u = Charged(row.usage, id) /\ u.day = today /\ u.used = k
  <2>1. Charged(row.usage, id) = [day |-> today, used |-> k, lastCharge |-> id]  BY <1>3 DEF Charged
  <2> QED BY <1>2, <2>1 DEF Usage
<1>5. row' = [row EXCEPT !.usage = u]  BY <1>4 DEF ChargeFreeUsage
<1>6. PICK n \in Nat : n = past.charges + 1  BY <1>2
<1>7. past' = [past EXCEPT !.charges = n] /\ UNCHANGED <<order, report, paidOnce, lastGen, call, today>>
  BY <1>6 DEF ChargeFreeUsage
<1>8. row'.usage = u /\ past'.charges = n /\ past'.usageLapse = past.usageLapse
  BY <1>5, <1>7 DEF Inv, TypeOK, Session, Past
<1>9. UsageIsKept'
  <2> SUFFICES ASSUME ~past.usageLapse
               PROVE  u.day <= today /\ n = k /\ n <= Limit
    BY <1>4, <1>7, <1>8 DEF UsageIsKept
  <2>1. past.charges = IF row.usage.day = today THEN row.usage.used ELSE 0  BY DEF Inv, UsageIsKept
  <2>2. n = k  BY <2>1, <1>3, <1>6
  <2>3. row.usage.day # today \/ row.usage.used < Limit  BY DEF ChargeFreeUsage
  <2>4. ASSUME row.usage.day = today PROVE n <= Limit
    <3>1. k = row.usage.used + 1 /\ row.usage.used < Limit  BY <1>3, <2>3, <2>4
    <3> QED BY <1>2, <2>2, <3>1
  <2>5. ASSUME row.usage.day # today PROVE n <= Limit
    <3>1. k = 1  BY <1>3, <2>5
    <3> QED BY <1>2, <2>2, <3>1
  <2> QED BY <1>2, <1>4, <2>2, <2>4, <2>5
<1> QED BY <1>1, <1>5, <1>7, <1>9, PutUsage

LEMMA SeedFreeUsageStep ==
  ASSUME Inv, NEW n \in 0..Limit, SeedFreeUsage(n)
  PROVE  Inv'
<1>1. /\ row.gen # 0 /\ n \in Nat /\ n <= Limit /\ today \in Nat /\ row.usage \in Usage
  BY LimitAssumption DEF SeedFreeUsage, RowExists, Inv, TypeOK, Session
<1>2. PICK t \in Nat : t = today  BY <1>1
<1>3. PICK u \in Usage : u = [row.usage EXCEPT !.day = t, !.used = n] /\ u.day = t /\ u.used = n
  <2>1. PICK w \in Usage : w = row.usage  BY <1>1
  <2>2. [w EXCEPT !.day = t, !.used = n] \in Usage  BY <1>1 DEF Usage
  <2> QED BY <2>1, <2>2 DEF Usage
<1>4. row' = [row EXCEPT !.usage = u]
  <2>1. row' = [row EXCEPT !.usage.day = t, !.usage.used = n]  BY <1>2 DEF SeedFreeUsage
  <2> QED BY <2>1, <1>3 DEF Inv, TypeOK, Session
<1>5. past' = [past EXCEPT !.charges = n] /\ UNCHANGED <<order, report, paidOnce, lastGen, call, today>>
  BY DEF SeedFreeUsage
<1>6. row'.usage = u /\ past'.charges = n  BY <1>4, <1>5 DEF Inv, TypeOK, Session, Past
<1>7. UsageIsKept'  BY <1>1, <1>2, <1>3, <1>5, <1>6 DEF UsageIsKept
<1> QED BY <1>1, <1>4, <1>5, <1>7, PutUsage

LEMMA DayPassesStep == ASSUME Inv, DayPasses PROVE Inv'
<1> USE DEF DayPasses
<1>1. /\ past' \in Past /\ past'.charges = 0
      /\ UNCHANGED <<past.payment, past.donation, past.told, past.toldFirst, past.usageLapse,
                     past.orderLapse, past.ctaLapse>>
  BY DEF Inv, TypeOK, Past
<1>2. today \in Nat /\ today' \in Nat \ {0} /\ today < today'  BY DEF Inv, TypeOK
<1>3. GoodPast  BY <1>1 DEF GoodPast
<1>4. GoodRow  BY <1>3, UntouchedStands, StandingIsGood
<1>5. GoodTables /\ LiveOrders' \subseteq LiveOrders  BY <1>3, TablesStand
<1>6. GoodCalls  BY DEF GoodCalls, Inv, TypeOK
<1>7. BasicInv'  BY <1>2, <1>3, <1>4, <1>5, <1>6, BasicStep DEF Inv, BasicInv
<1>8. OneOrderAtATime' /\ OrderIsKept'  BY <1>3, <1>4, <1>5, <1>6, OrderStep DEF Inv
<1>9. CtaIsKept'
  <2>1. today <= today' /\ row.cta.last <= row.cta.last  BY <1>2 DEF Inv, TypeOK, Session, Cta
  <2>2. CalmCta  BY <1>1, <1>2, <2>1 DEF CalmCta
  <2> QED BY <1>3, <1>4, <2>2, CtaStep DEF Inv, GoodRow, GoodPast
<1>10. UsageIsKept'
  <2>1. row.usage.day \in Nat /\ 0 <= Limit  BY LimitAssumption DEF Inv, TypeOK, Session, Usage
  <2>2. ASSUME ~past.usageLapse PROVE row.usage.day <= today' /\ row.usage.day # today'
    BY <1>2, <2>1, <2>2 DEF Inv, UsageIsKept
  <2> QED BY <1>1, <2>1, <2>2 DEF UsageIsKept
<1> QED BY <1>7, <1>8, <1>9, <1>10 DEF Inv, BasicInv

(* ---- the invariant -------------------------------------------------------------------- *)

LEMMA CommerceInit == Init => Inv
<1> SUFFICES ASSUME Init PROVE Inv  OBVIOUS
<1> USE DEF Init, PayInit
<1>1. TypeOK
  <2>1. order \in Seq(OrderStatus) /\ report \in Seq(ReportStatus)  OBVIOUS
  <2>2. paidOnce \in BOOLEAN /\ row \in Session /\ lastGen \in Nat /\ call \in [Call -> CallState]
    BY IdleType
  <2>3. past \in Past  BY DEF Past
  <2> QED BY <2>1, <2>2, <2>3 DEF TypeOK
<1>2. \A c \in Call : call[c].pc = "idle" /\ call[c].snap = NoRow  BY IdleType
<1>3. SessionsAreReal  BY <1>2 DEF SessionsAreReal, Carrying
<1>4. PaymentIsKnown  BY <1>2, IdleType DEF PaymentIsKnown, At
<1>5. DonationIsKnown  BY <1>2, IdleType DEF DonationIsKnown, At
<1>6. VerdictsAreFresh  BY <1>2 DEF VerdictsAreFresh, At
<1>7. OneOrderAtATime /\ OrderIsKept  BY <1>2 DEF OneOrderAtATime, OrderIsKept, LiveOrders, At
<1>8. CtaIsKept  BY <1>2, IdleType DEF CtaIsKept, OneSender, TellingIsRecorded, NoCta, At
<1>9. UsageIsKept  BY IdleType, LimitAssumption DEF UsageIsKept, NoUsage
<1> QED BY <1>1, <1>3, <1>4, <1>5, <1>6, <1>7, <1>8, <1>9 DEF Inv

LEMMA PayNextStep == ASSUME Inv, PayNext, today' = today PROVE Inv'
<1>1. ASSUME NEW c \in Call,
             \/ TurnLoad(c) \/ GuardedSave(c) \/ SaveSession(c) \/ GiveUp(c)
             \/ PayloadLoad(c) \/ OpenPayment(c) \/ IntakeEdit(c) \/ EnsureCheckoutOrder(c) \/ SyncActiveFlow(c)
      PROVE  Inv'
  BY <1>1, TurnLoadStep, GuardedSaveStep, SaveSessionStep, GiveUpStep, PayloadLoadStep, IntakeEditStep,
     EnsureCheckoutOrderStep, SyncActiveFlowStep
<1>2. ASSUME NEW c \in Call, NEW o \in DOMAIN order, NEW v \in Verdict, ReadOrder(c, o, v) PROVE Inv'
  BY <1>2, ReadOrderStep
<1>3. ASSUME NEW c \in Call,
             \/ ApplyVerificationResult(c) \/ MirrorPaidOnce(c) \/ CreateDonateReport(c) \/ ReportInSession(c)
             \/ UpgradeToSupporter(c)
      PROVE  Inv'
  BY <1>3, ApplyVerificationResultStep, MirrorPaidOnceStep, CreateDonateReportStep, ReportInSessionStep,
     UpgradeToSupporterStep
<1>4. ASSUME NEW c \in Call, NEW r \in DOMAIN report, AdminVerifyDonation(c, r) PROVE Inv'
  BY <1>4, AdminVerifyDonationStep
<1>5. ASSUME NEW o \in DOMAIN order, MarkVerificationPending(o) PROVE Inv'
  BY <1>5, MarkVerificationPendingStep
<1>6. ASSUME NEW r \in DOMAIN report, RejectDonation(r) PROVE Inv'  BY <1>6, RejectDonationStep
<1>7. CASE ResetSession  BY <1>7, ResetSessionStep
<1>8. CASE EraseCustomer  BY <1>8, EraseCustomerStep
<1> QED BY <1>1, <1>2, <1>3, <1>4, <1>5, <1>6, <1>7, <1>8 DEF PayNext

LEMMA CommerceStep == Inv /\ [Next]_vars => Inv'
<1> SUFFICES ASSUME Inv, [Next]_vars PROVE Inv'  OBVIOUS
<1>1. CASE UNCHANGED vars
  <2>1. UNCHANGED <<order, report, paidOnce, row, lastGen, call, past, today>>  BY <1>1 DEF vars, payVars
  <2>2. row.cta.last <= row.cta.last  BY DEF Inv, TypeOK, Session, Cta
  <2> QED BY <2>1, <2>2, PastStands, UntouchedStands, StandingIsGood, TablesStand, NobodyStep
<1>2. CASE PayNext /\ UNCHANGED today  BY <1>2, PayNextStep
<1>3. ASSUME NEW c \in Call, NEW g \in 1..lastGen, NEW reason \in Reason, CtaLoad(c, g, reason) PROVE Inv'
  <2>1. today' = today  BY <1>3 DEF CtaLoad
  <2> QED BY <1>3, <2>1, CtaLoadStep
<1>4. ASSUME NEW c \in Call, CtaDecide(c) \/ CtaSend(c) \/ CtaPatch(c) \/ LegacyBaseline(c) PROVE Inv'
  <2>1. today' = today  BY <1>4 DEF CtaDecide, CtaSend, CtaPatch, LegacyBaseline
  <2> QED BY <1>4, <2>1, CtaDecideStep, CtaSendStep, CtaPatchStep, LegacyBaselineStep
<1>5. ASSUME NEW c \in Call, NEW g \in 1..lastGen, LegacyLoad(c, g) PROVE Inv'
  <2>1. today' = today  BY <1>5 DEF LegacyLoad
  <2> QED BY <1>5, <2>1, LegacyLoadStep
<1>6. ASSUME NEW g \in 1..lastGen, NEW withReading \in BOOLEAN, RecordInitialValueDelivered(g, withReading)
      PROVE Inv'
  BY <1>6, RecordInitialValueDeliveredStep
<1>7. ASSUME NEW g \in 1..lastGen, NEW id \in ChargeId, ChargeFreeUsage(g, id) PROVE Inv'
  BY <1>7, ChargeFreeUsageStep
<1>8. ASSUME NEW n \in 0..Limit, SeedFreeUsage(n) PROVE Inv'  BY <1>8, SeedFreeUsageStep
<1>9. CASE DayPasses  BY <1>9, DayPassesStep
<1> QED BY <1>1, <1>2, <1>3, <1>4, <1>5, <1>6, <1>7, <1>8, <1>9 DEF Next

LEMMA CommerceInvHolds == Spec => []Inv
<1>1. Init => Inv  BY CommerceInit
<1>2. Inv /\ [Next]_vars => Inv'  BY CommerceStep
<1> QED BY <1>1, <1>2, PTL DEF Spec

(* ---- what it says --------------------------------------------------------------------- *)

(* The tables, the session row and what callers hold keep their types.           *)
THEOREM CommerceTypeCorrect == Spec => []TypeOK
<1>1. Inv => TypeOK  BY DEF Inv
<1> QED BY <1>1, CommerceInvHolds, PTL

(* The paid flow, the mirror flag and the supporter's grant follow an            *)
(* operator's confirmation, however the callers' loads and saves interleave.     *)
THEOREM PaymentsAreEarned == Spec => []PaidIsEarned
<1>1. Inv => PaidIsEarned  BY DEF Inv, PaymentIsKnown, DonationIsKnown, PaidIsEarned
<1> QED BY <1>1, CommerceInvHolds, PTL

(* No second order lives beside the first unless the presses overlapped or the   *)
(* session lost its order.                                                       *)
THEOREM OrdersStaySingle == Spec => []OneOrderAtATime
<1>1. Inv => OneOrderAtATime  BY DEF Inv
<1> QED BY <1>1, CommerceInvHolds, PTL

(* The day's count is the day's charges, and at most the limit.                  *)
THEOREM ChargesAreCounted == Spec => []UsageIsCounted
<1>1. Inv => UsageIsCounted  BY DEF Inv, UsageIsKept, UsageIsCounted
<1> QED BY <1>1, CommerceInvHolds, PTL

(* Whoever tells the CTA finds it not yet told, or told long enough ago.         *)
THEOREM CtaIsSpaced == Spec => CtaKeepsItsDistance
<1>1. Inv => \A c \in Call : At(c, "send") /\ At(c, "patch")' /\ ~past.ctaLapse =>
                IF call[c].reason = "initial" THEN ~past.toldFirst ELSE ~TooSoon(past.told)
  BY DEF Inv, CtaIsKept, MayTell
<1> QED BY <1>1, CommerceInvHolds, PTL DEF CtaKeepsItsDistance

\* The steps that may touch the orders.
LEMMA OrdersChangeBy ==
  ASSUME Next
  PROVE  \/ UNCHANGED order
         \/ \E c \in Call : EnsureCheckoutOrder(c) \/ ApplyVerificationResult(c)
         \/ \E o \in DOMAIN order : MarkVerificationPending(o)
         \/ EraseCustomer
<1>1. ASSUME PayNext
      PROVE  \/ UNCHANGED order
             \/ \E c \in Call : EnsureCheckoutOrder(c) \/ ApplyVerificationResult(c)
             \/ \E o \in DOMAIN order : MarkVerificationPending(o)
             \/ EraseCustomer
  BY <1>1 DEF PayNext, TurnLoad, GuardedSave, SaveSession, GiveUp, PayloadLoad, OpenPayment, IntakeEdit,
     SyncActiveFlow, ReadOrder, MirrorPaidOnce, CreateDonateReport, ReportInSession, AdminVerifyDonation,
     UpgradeToSupporter, RejectDonation, ResetSession
<1>2. ASSUME ~PayNext PROVE UNCHANGED order
  BY <1>2 DEF Next, CtaLoad, CtaDecide, CtaSend, CtaPatch, LegacyLoad, LegacyBaseline,
     RecordInitialValueDelivered, ChargeFreeUsage, SeedFreeUsage, DayPasses
<1> QED BY <1>1, <1>2

(* Only a caller that read an order before it was verified, or the erasure of    *)
(* all, takes a verification back.                                               *)
THEOREM VerificationsStand == Spec => VerifiedFallsOnlyToAStaleReader
<1> DEFINE Stands == \A o \in DOMAIN order :
             order[o] = "paid_verified" /\ order'[o] \notin {"paid_verified", "deleted"} =>
               \E c \in Call : At(c, "apply") /\ call[c].id = o /\ call[c].read # "paid_verified"
<1>1. Inv /\ [Next]_vars => [Stands]_vars
  <2> SUFFICES ASSUME Inv, Next, NEW o \in DOMAIN order,
                      order[o] = "paid_verified", order'[o] \notin {"paid_verified", "deleted"}
               PROVE  \E c \in Call : At(c, "apply") /\ call[c].id = o /\ call[c].read # "paid_verified"
    OBVIOUS
  <2>1. order \in Seq(OrderStatus) /\ DOMAIN order = 1..Len(order)  BY LenProperties DEF Inv, TypeOK
  <2>2. ~ UNCHANGED order  OBVIOUS
  <2>3. ~ EraseCustomer  BY DEF EraseCustomer
  <2>4. ASSUME NEW p \in DOMAIN order, MarkVerificationPending(p) PROVE FALSE
    BY <2>4 DEF MarkVerificationPending
  <2>5. ASSUME NEW c \in Call, EnsureCheckoutOrder(c) PROVE FALSE
    <3>1. order' = order \/ order' = Append(order, "draft")
      BY <2>5 DEF EnsureCheckoutOrder, CreateDraftOrder
    <3> QED BY <3>1, <2>1
  <2>6. PICK c \in Call : ApplyVerificationResult(c)
    BY OrdersChangeBy, <2>2, <2>3, <2>4, <2>5
  <2>7. At(c, "apply") /\ call[c].id = o /\ call[c].verdict # "verified"
    BY <2>6, <2>2 DEF ApplyVerificationResult
  <2>8. call[c].read # "paid_verified"  BY <2>7 DEF Inv, VerdictsAreFresh
  <2> QED BY <2>7, <2>8
<1> QED BY <1>1, CommerceInvHolds, PTL DEF Spec, VerifiedFallsOnlyToAStaleReader

=============================================================================
