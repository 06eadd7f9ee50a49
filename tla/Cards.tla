------------------------------- MODULE Cards -------------------------------
(* One reading on its way to the customer: its pages are cut (Paginator),      *)
(* drawn (app/render/renderer.py) and sent (app/render/sender.py). The handler *)
(* that asks for this is not in the repository; it sends the first sentTotal   *)
(* cards in order and may tell the customer in words that a card failed.       *)
EXTENDS Paginator

CONSTANTS Rooms,         \* lines a page may have between title and footer, by layout plan
          SendRetries    \* retry_budget "send_asset".service_max

ASSUME CardsAssumption == Rooms \subseteq Nat /\ SendRetries \in Nat \ {0}

VARIABLES
  reading,   \* what is asked for; never changes
  pages,     \* the pages, <<>> before they are cut
  cards,     \* the pages drawn so far
  room,      \* the plan chosen for the last page drawn
  attempt,   \* attempts made with the card being sent
  outcome,   \* what send_image_to_user returned for each card
  chat,      \* what the customer got, in order
  lost       \* answers of the service that did not come back

cardsVars == <<reading, pages, cards, room, attempt, outcome, chat, lost>>

(* ---- drawing a page ------------------------------------------------------- *)

\* _derive_card_topic, when the paginator knows none: the focus, else nothing is drawn.
CardTopic(page) == IF page.topic # <<>> THEN page.topic ELSE reading.focus

\* The title is left out where the first heading says the same.
TitleLines(page) ==
  LET repeated == ~page.continues /\ page.sections[1].heading = CardTopic(page)
  IN IF reading.profile # "messenger_card" \/ repeated THEN <<>> ELSE Lines(CardTopic(page))

\* Slip: a line is kept free above the footer.
FittingLess(lines, y, space) == SubSeq(lines, 1, Min({Len(lines), space - y - 1}))

\* _draw_wrapped_text: the lines from the cursor on that are above the footer.
Fitting(lines, y, space) == SubSeq(lines, 1, Min({Len(lines), space - y}))

\* Section after section until the next heading would be below the safe area.
DrawSections(page, space) ==
  LET Draw(drawn, s) ==
        IF Len(drawn) + 1 > space THEN drawn
        ELSE LET titled == drawn \o Fitting(Lines(s.heading), Len(drawn), space)
             IN titled \o Fitting(Lines(Clean(s.body)), Len(titled), space)
  IN FoldLeft(Draw, Fitting(TitleLines(page), 0, space), page.sections)

\* _make_page_label: nothing on a reading of one page.
PageLabel(k) ==
  IF Len(pages) > 1 THEN <<k, IF reading.sentTotal > 0 THEN reading.sentTotal ELSE Len(pages)>> ELSE <<>>

(* ---- actions -------------------------------------------------------------- *)

Paginate ==
  /\ pages = <<>>
  /\ pages' = PaginateAnalysis(reading.profile, reading.sections, reading.splits)
  /\ UNCHANGED <<reading, cards, room, attempt, outcome, chat, lost>>

RenderPage ==
  /\ Len(cards) < Len(pages)
  /\ \E r \in Rooms :
       LET k == Len(cards) + 1
       IN /\ cards' = Append(cards, [drawn |-> DrawSections(pages[k], r), label |-> PageLabel(k)])
          /\ room' = r
  /\ UNCHANGED <<reading, pages, attempt, outcome, chat, lost>>

\* How many members of a sequence are in a set.
Hits(s, S) == Cardinality({i \in DOMAIN s : s[i] \in S})

ToSend == IF reading.sentTotal > 0 THEN Min({reading.sentTotal, Len(pages)}) ELSE Len(pages)

AtCard(k) == pages # <<>> /\ Len(cards) = Len(pages) /\ k = Len(outcome) + 1 /\ k <= ToSend

\* A debug sender's image is kept aside; without a page token nothing is posted.
SkipCard(k) ==
  /\ AtCard(k) /\ reading.token # "ok"
  /\ outcome' = Append(outcome, IF reading.token = "debug" THEN "debug_capture" ELSE "missing_token")
  /\ UNCHANGED <<reading, pages, cards, room, attempt, chat, lost>>

\* Slip: the last attempt is reported as sent.
PostCardHopefully(k) ==
  /\ AtCard(k) /\ reading.token = "ok"
  /\ \E arrives, answered \in BOOLEAN :
       /\ answered => arrives
       /\ chat' = IF arrives THEN Append(chat, k) ELSE chat
       /\ lost' = IF arrives /\ ~answered THEN lost + 1 ELSE lost
       /\ IF answered \/ attempt + 1 = SendRetries
          THEN outcome' = Append(outcome, "sent_ok") /\ attempt' = 0
          ELSE attempt' = attempt + 1 /\ UNCHANGED outcome
  /\ UNCHANGED <<reading, pages, cards, room>>

\* One request: it may not arrive, or arrive while its answer is lost.
PostCard(k) ==
  /\ AtCard(k) /\ reading.token = "ok"
  /\ \E arrives, answered \in BOOLEAN :
       /\ answered => arrives
       /\ chat' = IF arrives THEN Append(chat, k) ELSE chat
       /\ lost' = IF arrives /\ ~answered THEN lost + 1 ELSE lost
       /\ IF answered \/ attempt + 1 = SendRetries
          THEN /\ outcome' = Append(outcome, IF answered THEN "sent_ok" ELSE "send_failed")
               /\ attempt' = 0
          ELSE attempt' = attempt + 1 /\ UNCHANGED outcome
  /\ UNCHANGED <<reading, pages, cards, room>>

SendTextFallback ==
  /\ outcome # <<>> /\ Last(outcome) = "send_failed" /\ attempt = 0
  /\ Hits(chat, {0}) < Len(outcome)
  /\ chat' = Append(chat, 0)
  /\ UNCHANGED <<reading, pages, cards, room, attempt, outcome, lost>>

Section == [heading : Text, body : Text]

(* What is asked for. A heading is made of a section's key, a word or two: it   *)
(* has nothing to clean, and leaves room for a body. Of one of MaxChars         *)
(* characters _split_long_body would never end, for a piece of no characters    *)
(* leaves the rest as long as it was.                                           *)
Titled(s) ==
  /\ s \in Section /\ Clean(s.heading) = s.heading
  /\ Len(s.heading) < MaxChars /\ Len(Lines(s.heading)) < Budget
TitledSection == {s \in Section : Titled(s)}
Legible(r) == /\ r.sections \in Seq(TitledSection) /\ r.splits \in BOOLEAN
              /\ r.focus \in Text /\ r.sentTotal \in Nat

CardsInit(readings) ==
  /\ reading \in readings
  /\ pages = <<>> /\ cards = <<>> /\ room = 0
  /\ attempt = 0 /\ outcome = <<>> /\ chat = <<>> /\ lost = 0

CardsNext == Paginate \/ RenderPage \/ SendTextFallback
             \/ \E k \in 1..Len(pages) : SkipCard(k) \/ PostCard(k)

(* ---- what must hold ------------------------------------------------------- *)

AllText(sections) == FlattenSeq([i \in DOMAIN sections |-> Ink(sections[i].heading) \o Ink(sections[i].body)])

AllSections(ps) == FlattenSeq([k \in DOMAIN ps |-> ps[k].sections])

\* A body that is cut by sentences, and of which no piece is left.
Dropped(s) ==
  /\ Strip(s.body) = <<>> /\ Chars(s) > MaxChars
  /\ reading.profile = "messenger_card" => Len(SectionLines(s)) > Budget

(* However a reading is cut, flushed, split, merged forward and merged back,   *)
(* every letter of it is on exactly one page, in the order it was written;     *)
(* only a long body of nothing but blanks takes its heading with it.           *)
NothingIsLost ==
  LET written == Only(reading.sections, {s \in Range(reading.sections) : ~Dropped(s)})
  IN pages # <<>> =>
       IF written = <<>> THEN pages = <<Placeholder>>
       ELSE AllText(AllSections(pages)) = AllText(written)

(* No page is above its budget, except by a list marker that a chunk adopted,  *)
(* where a card holds a body that the layout could not measure into chunks.    *)
(* A body that is cut by sentences leaves no list marker alone on a page.      *)
PagesFit ==
  \A k \in DOMAIN pages :
    LET p == pages[k]
        adopts == \E s \in Range(p.sections) : \E i \in DOMAIN s.body :
                    /\ s.body[i] = "_"
                    /\ IsMarker(Strip(SubSeq(s.body, 1, i))) \/ IsMarker(Strip(SubSeq(s.body, i, Len(s.body))))
    IN /\ reading.profile = "a4" => CharCount(p.sections) <= MaxChars \/ adopts
       /\ reading.profile = "messenger_card" /\ reading.splits => Height(p.sections) <= Budget
       /\ p.continues /\ (reading.profile = "a4" \/ ~reading.splits) => ~IsMarker(p.sections[1].body)

(* A card shows its page from the top, and all of it when the plan has room    *)
(* for its lines and its title. The cards that are sent are numbered from 1 to *)
(* the number that is sent.                                                    *)
CardsShowTheirPages ==
  \A k \in DOMAIN cards :
    LET all == TitleLines(pages[k]) \o AllLines(pages[k].sections)
    IN /\ IsPrefix(cards[k].drawn, all)
       /\ k = Len(cards) /\ Len(all) <= room => cards[k].drawn = all
       /\ Len(pages) > 1 /\ k <= ToSend /\ ToSend >= reading.sentTotal => cards[k].label = <<k, ToSend>>

(* Both: no page is overfilled, and what is on it is on its card.              *)
PagesAreShown == PagesFit /\ CardsShowTheirPages

(* The customer gets the cards in order. A card that is reported sent was got, *)
(* one that is reported failed was got only if an answer was lost, and copies  *)
(* are no more than the answers that were lost and the attempts allow.         *)
CopiesAreExplained ==
  LET Got == Range(chat) \ {0}
  IN /\ \A i, j \in DOMAIN chat : i < j /\ {chat[i], chat[j]} \subseteq Got => chat[i] <= chat[j]
     /\ \A k \in DOMAIN outcome :
          /\ outcome[k] = "sent_ok" => Hits(chat, {k}) >= 1
          /\ outcome[k] = "send_failed" => Hits(chat, {k}) <= lost
          /\ outcome[k] \in {"debug_capture", "missing_token"} => Hits(chat, {k}) = 0
     /\ \A k \in Got : Hits(chat, {k}) <= SendRetries
     /\ Hits(chat, Got) <= Hits(outcome, {"sent_ok"}) + lost
=============================================================================
