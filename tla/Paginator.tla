----------------------------- MODULE Paginator -----------------------------
(* How a reading is cut into pages (app/render/paginator.py). A text is a      *)
(* sequence of characters of which only the class matters; the pages of the    *)
(* "a4" profile are counted in characters, those of the "messenger_card"       *)
(* profile in lines of the measured text. The measuring functions of           *)
(* app/render/layout.py are not in the repository and are external here.       *)
EXTENDS Integers, SequencesExt, FiniteSetsExt

CONSTANTS MaxChars,    \* brand.chars_per_page_max
          Budget,      \* lines that content_pixel_budget leaves for a card
          LineWidth,   \* characters that fit on a line
          ShortTail    \* the 280 characters of _merge_trailing_short_page

ASSUME PagesAssumption ==
  /\ {MaxChars, Budget} \subseteq Nat \ {0, 1} /\ LineWidth \in Nat \ {0} /\ ShortTail \in Nat

(* Letters, digits, the full stop ("!" and "?" end a sentence as it does, but  *)
(* never number a list), blank, line feed, a mark of markdown.                 *)
Char == {"x", "1", ".", "_", "/", "*"}
Text == Seq(Char)
White == {"_", "/"}

\* The members of a sequence that are in a set.
Only(t, S) == FoldLeft(LAMBDA kept, x : IF x \in S THEN Append(kept, x) ELSE kept, <<>>, t)

Ink(t) == Only(t, Char \ (White \cup {"*"}))

Strip(t) ==
  LET Black(c) == c \notin White
      first == SelectInSeq(t, Black)
  IN IF first = 0 THEN <<>> ELSE SubSeq(t, first, SelectLastInSeq(t, Black))

(* renderer._clean_markdown_for_render: the marks of a closed pair go; one     *)
(* that has lost its partner stays.                                            *)
Clean(t) ==
  LET marks == {i \in DOMAIN t : t[i] = "*"}
  IN Strip(IF \E i, j \in marks : j > i + 1 THEN Only(t, Char \ {"*"}) ELSE t)

(* ---- cutting a long body -------------------------------------------------- *)

AllDigits(t) == t # <<>> /\ \A i \in DOMAIN t : t[i] = "1"

\* _ORPHAN_NUMBERED_CHUNK
IsMarker(piece) == AllDigits(piece) \/ (piece # <<>> /\ Last(piece) = "." /\ AllDigits(Front(piece)))

IsNumberedListDot(t, i) ==
  LET lineStart == Max({0} \cup {j \in 1..i-1 : t[j] = "/"}) + 1
  IN i > 1 /\ t[i-1] = "1" /\ AllDigits(Strip(SubSeq(t, lineStart, i - 1)))

SentenceEnds(window, after) ==
  {i \in 1..Len(window)-1 : window[i] = "." /\ window[i+1] = after /\ ~IsNumberedListDot(window, i)}

FindSentenceCut(window) ==
  CASE SentenceEnds(window, "/") # {} -> Max(SentenceEnds(window, "/")) + 1
    [] SentenceEnds(window, "_") # {} /\ SentenceEnds(window, "/") = {} -> Max(SentenceEnds(window, "_")) + 1
    [] OTHER -> 0

LastWhite(window, c) == Max({0} \cup {i \in 2..Len(window) : window[i] = c})

FindWordBoundaryCut(window) ==
  IF LastWhite(window, "_") > 0 THEN LastWhite(window, "_") ELSE LastWhite(window, "/")

CutOf(window) ==
  CASE FindSentenceCut(window) > 0 -> FindSentenceCut(window)
    [] FindSentenceCut(window) = 0 /\ FindWordBoundaryCut(window) > 0 -> FindWordBoundaryCut(window)
    [] OTHER -> Len(window)

Pieces(text, room) ==
  LET from[rest \in Text] ==
        IF Len(rest) <= room THEN <<rest>>
        ELSE LET cut == CutOf(SubSeq(rest, 1, room))
             IN <<Strip(SubSeq(rest, 1, cut))>> \o from[Strip(SubSeq(rest, cut + 1, Len(rest)))]
  IN Only(from[Strip(text)], Text \ {<<>>})

Joined(a, b) == Strip(a \o <<"_">> \o b)

\* A marker waits for the next piece that is none.
Adopt(acc, piece) ==
  IF IsMarker(piece) THEN [acc EXCEPT !.pending = Joined(@, piece)]
  ELSE [merged |-> Append(acc.merged, Joined(acc.pending, piece)), pending |-> <<>>]

Adopted(chunks) == FoldLeft(Adopt, [merged |-> <<>>, pending |-> <<>>], chunks)

\* Slip: the last markers are dropped.
MergeOrphanChunksAhead(chunks) == Adopted(chunks).merged

\* One that still waits at the end joins the last piece.
MergeOrphanChunks(chunks) ==
  LET end == Adopted(chunks)
  IN CASE end.pending = <<>> -> end.merged
       [] end.pending # <<>> /\ end.merged = <<>> -> <<end.pending>>
       [] OTHER -> Append(Front(end.merged), Joined(Last(end.merged), end.pending))

SplitLongBody(text, room) ==
  IF Len(text) <= room THEN <<text>> ELSE MergeOrphanChunks(Pieces(text, room))

(* ---- measuring ------------------------------------------------------------ *)

EndWord(w) ==
  LET longer == IF w.line = <<>> THEN w.word ELSE w.line \o <<"_">> \o w.word
  IN CASE w.word = <<>> -> w
       [] w.word # <<>> /\ Len(longer) <= LineWidth -> [w EXCEPT !.line = longer, !.word = <<>>]
       [] OTHER -> [lines |-> IF w.line = <<>> THEN w.lines ELSE Append(w.lines, w.line),
                    line |-> w.word, word |-> <<>>]

EndParagraph(w) ==
  LET v == EndWord(w) IN [lines |-> Append(v.lines, v.line), line |-> <<>>, word |-> <<>>]

Wrap(w, c) ==
  CASE c = "/" -> EndParagraph(w)
    [] c = "_" -> EndWord(w)
    [] OTHER -> [w EXCEPT !.word = Append(@, c)]

Wrapped(t) == FoldLeft(Wrap, [lines |-> <<>>, line |-> <<>>, word |-> <<>>], t)

\* renderer._wrap_text_by_pixels: a word that is too wide is never split.
Lines(t) == IF t = <<>> THEN <<>> ELSE EndParagraph(Wrapped(t)).lines

SectionLines(s) == Lines(s.heading) \o Lines(Clean(s.body))
AllLines(sections) == FlattenSeq([i \in DOMAIN sections |-> SectionLines(sections[i])])
Height(sections) == Len(AllLines(sections))
Chars(s) == Len(s.heading) + Len(s.body)
CharCount(sections) == FoldLeft(+, 0, [i \in DOMAIN sections |-> Chars(sections[i])])

Unwrapped(lines) == FoldLeft(LAMBDA t, line : IF t = <<>> THEN line ELSE t \o <<"/">> \o line, <<>>, lines)

\* layout.split_body_by_pixel_budget: full cards of lines, the heading on the first.
SplitByPixels(body, heading) ==
  LET lines == Lines(body)
      fromLine[n \in Nat \ {0}] ==
        IF n > Len(lines) THEN <<>>
        ELSE LET next == n + Budget - (IF n = 1 THEN Len(Lines(heading)) ELSE 0)
                 card == SubSeq(lines, n, Min({Len(lines), next - 1}))
             IN <<Unwrapped(card)>> \o fromLine[next]
  IN fromLine[1]

(* ---- packing pages -------------------------------------------------------- *)

Page(sections, topic, continues) == [sections |-> sections, topic |-> topic, continues |-> continues]

ChunkPages(chunks, heading) ==
  [i \in DOMAIN chunks |->
     Page(<<[heading |-> IF i = 1 THEN heading ELSE <<>>, body |-> chunks[i]]>>, heading, i > 1)]

Flush(acc) ==
  IF acc.current = <<>> THEN acc
  ELSE [pages |-> Append(acc.pages, Page(acc.current, <<>>, FALSE)), current |-> <<>>]

PackByChars(acc, s) ==
  LET full == CharCount(acc.current) > 0 /\ CharCount(acc.current) + Chars(s) > MaxChars
      ready == IF full THEN Flush(acc) ELSE acc
  IN IF Chars(s) > MaxChars
     THEN [ready EXCEPT !.pages = @ \o ChunkPages(SplitLongBody(s.body, MaxChars - Len(s.heading)), s.heading)]
     ELSE [ready EXCEPT !.current = Append(@, s)]

PackedByChars(sections) == FoldLeft(PackByChars, [pages |-> <<>>, current |-> <<>>], sections)

PaginateByChars(sections) == Flush(PackedByChars(sections)).pages

Merged(p, q) ==
  Page(p.sections \o q.sections, IF p.topic # <<>> THEN p.topic ELSE q.topic, p.continues)

\* Slip: the sum is not measured.
MergeUnderfilledBlindly(pages) ==
  LET from[i \in Nat \ {0}] ==
        IF i > Len(pages) THEN <<>>
        ELSE IF i < Len(pages) /\ 100 * Height(pages[i].sections) < 65 * Budget
             THEN <<Merged(pages[i], pages[i+1])>> \o from[i+2]
             ELSE <<pages[i]>> \o from[i+1]
  IN from[1]

MergeUnderfilled(pages) ==
  LET from[i \in Nat \ {0}] ==
        IF i > Len(pages) THEN <<>>
        ELSE IF /\ i < Len(pages)
                /\ 100 * Height(pages[i].sections) < 65 * Budget
                /\ Height(pages[i].sections \o pages[i+1].sections) <= Budget
             THEN <<Merged(pages[i], pages[i+1])>> \o from[i+2]
             ELSE <<pages[i]>> \o from[i+1]
  IN from[1]

MergeTrailingShortPage(pages) ==
  IF /\ Len(pages) >= 2
     /\ CharCount(Last(pages).sections) <= ShortTail
     /\ Height(pages[Len(pages)-1].sections \o Last(pages).sections) <= Budget
  THEN Append(SubSeq(pages, 1, Len(pages) - 2), Merged(pages[Len(pages)-1], Last(pages)))
  ELSE pages

\* splits: whether the layout finds a way to cut a body that is too high.
ChunksByPixels(s, splits) ==
  IF splits /\ SplitByPixels(Clean(s.body), s.heading) # <<>> THEN SplitByPixels(Clean(s.body), s.heading)
  ELSE SplitLongBody(s.body, MaxChars - Len(s.heading))

PackByPixels(acc, s, splits) ==
  IF Len(SectionLines(s)) > Budget
  THEN [Flush(acc) EXCEPT !.pages = @ \o ChunkPages(ChunksByPixels(s, splits), s.heading)]
  ELSE [(IF Height(Append(acc.current, s)) > Budget THEN Flush(acc) ELSE acc)
          EXCEPT !.current = Append(@, s)]

PackedByPixels(sections, splits) ==
  FoldLeft(LAMBDA acc, s : PackByPixels(acc, s, splits), [pages |-> <<>>, current |-> <<>>], sections)

PaginateByPixels(sections, splits) ==
  MergeTrailingShortPage(MergeUnderfilled(Flush(PackedByPixels(sections, splits)).pages))

Placeholder == Page(<<[heading |-> <<>>, body |-> <<"x">>]>>, <<>>, FALSE)

Finalize(pages) ==
  LET FirstHeading(p) == LET i == SelectInSeq(p.sections, LAMBDA s : s.heading # <<>>)
                         IN IF i = 0 THEN <<>> ELSE p.sections[i].heading
  IN IF pages = <<>> THEN <<Placeholder>>
     ELSE [i \in DOMAIN pages |->
             [pages[i] EXCEPT !.topic = IF @ = <<>> THEN FirstHeading(pages[i]) ELSE @]]

PaginateAnalysis(profile, sections, splits) ==
  Finalize(IF profile = "messenger_card" THEN PaginateByPixels(sections, splits)
           ELSE PaginateByChars(sections))
=============================================================================
