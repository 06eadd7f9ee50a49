---------------------------- MODULE CardsProofs -----------------------------
(* The pages and cards of a reading for texts of any length and any number of   *)
(* sections, cards and attempts: which pages are packed of what TextProofs      *)
(* shows of texts, what is drawn of them, and what the customer gets.           *)
EXTENDS TextProofs, FiniteSetTheorems

(* ---- pages of chunks ---------------------------------------------------- *)

\* A function on 1..n is a sequence.
LEMMA SeqBy ==
  ASSUME NEW X, NEW n \in Nat, NEW f, f = [i \in 1..n |-> f[i]], \A i \in 1..n : f[i] \in X
  PROVE  f \in Seq(X) /\ Len(f) = n /\ DOMAIN f = 1..n
<1>1. f \in [1..n -> X]  OBVIOUS
<1>2. f \in Seq(X)  BY <1>1, SeqDef
<1>3. DOMAIN f = 1..n  BY <1>1
<1> QED BY <1>2, <1>3, LenProperties

LEMMA OneSection ==
  ASSUME NEW s \in Section
  PROVE  /\ <<s>> \in Seq(Section) /\ <<s>> # <<>> /\ <<s>>[1] = s
         /\ CharCount(<<s>>) = Chars(s) /\ AllLines(<<s>>) = SectionLines(s) /\ Height(<<s>>) = Len(SectionLines(s))
         /\ AllText(<<s>>) = Ink(s.heading) \o Ink(s.body)
<1>1. <<>> \in Seq(Section)  BY EmptySeq
<1>2. Append(<<>>, s) = <<s>>
  <2>1. Append(<<>>, s) = <<>> \o <<s>>  BY <1>1, AppendIsConcat
  <2>2. <<s>> \in Seq(Section)  BY OneOf
  <2>3. <<>> \o <<s>> = <<s>>  BY <2>2, ConcatEmptySeq
  <2> QED BY <2>1, <2>3
<1>3. <<s>> \in Seq(Section) /\ <<s>> # <<>> /\ <<s>>[1] = s  BY OneOf
<1>4. CharCount(<<s>>) = Chars(s)
  <2>1. CharCount(Append(<<>>, s)) = CharCount(<<>>) + Chars(s)  BY <1>1, CharCountFacts
  <2>2. Chars(s) \in Nat
    <3>1. PICK m \in Nat, n \in Nat : m = Len(s.heading) /\ n = Len(s.body)  BY SectionParts
    <3>2. Chars(s) = m + n  BY <3>1, SectionParts
    <3> QED BY <3>2
  <2> QED BY <1>2, <2>1, <2>2, CharCountFacts
<1>5. AllLines(<<s>>) = SectionLines(s)
  <2>1. AllLines(Append(<<>>, s)) = <<>> \o SectionLines(s)  BY <1>1, AllLinesFacts
  <2>2. SectionLines(s) \in Seq(Text)  BY SectionParts
  <2>3. <<>> \o SectionLines(s) = SectionLines(s)  BY <2>2, ConcatEmptySeq
  <2> QED BY <1>2, <2>1, <2>3
<1>6. AllText(<<s>>) = Ink(s.heading) \o Ink(s.body)
  <2>1. AllText(Append(<<>>, s)) = <<>> \o (Ink(s.heading) \o Ink(s.body))  BY <1>1, AllTextFacts
  <2>2. Ink(s.heading) \o Ink(s.body) \in Text  BY SectionInkType
  <2>3. <<>> \o (Ink(s.heading) \o Ink(s.body)) = Ink(s.heading) \o Ink(s.body)  BY <2>2, Concats
  <2> QED BY <1>2, <2>1, <2>3
<1> QED BY <1>3, <1>4, <1>5, <1>6 DEF Height

\* One chunk on a page of its own; only the first has the heading.
ChunkSection(c, h, i) == [heading |-> IF i = 1 THEN h ELSE <<>>, body |-> c]
ChunkPage(c, h, i) == Page(<<ChunkSection(c, h, i)>>, h, i > 1)

\* A page with something on it.
Solid == {p \in PageType : p.sections # <<>>}

LEMMA PageIs ==
  ASSUME NEW ss \in Seq(Section), NEW h \in Text, NEW b \in BOOLEAN
  PROVE  /\ Page(ss, h, b) \in PageType
         /\ Page(ss, h, b).sections = ss /\ Page(ss, h, b).topic = h /\ Page(ss, h, b).continues = b
<1>1. Page(ss, h, b) \in PageType  BY DEF PageType, Page
<1> QED BY <1>1 DEF Page

LEMMA ChunkPageFacts ==
  ASSUME NEW c \in Text, NEW h \in Text, NEW i \in Pos
  PROVE  /\ ChunkSection(c, h, i) \in Section
         /\ ChunkPage(c, h, i) \in Solid
         /\ ChunkPage(c, h, i).sections = <<ChunkSection(c, h, i)>>
         /\ ChunkPage(c, h, i).continues = (i > 1)
<1>1. PICK s : s = ChunkSection(c, h, i)  OBVIOUS
<1>2. s \in Section
  <2>1. CASE i = 1
    <3>1. s = [heading |-> h, body |-> c]  BY <1>1, <2>1 DEF ChunkSection
    <3> QED BY <3>1 DEF Section
  <2>2. CASE i # 1
    <3>1. s = [heading |-> <<>>, body |-> c]  BY <1>1, <2>2 DEF ChunkSection
    <3> QED BY <3>1, EmptyText DEF Section
  <2> QED BY <2>1, <2>2
<1>3. <<s>> \in Seq(Section) /\ <<s>> # <<>>  BY <1>2, OneSection
<1>4. (i > 1) \in BOOLEAN  OBVIOUS
<1>5. ChunkPage(c, h, i) = Page(<<s>>, h, i > 1)  BY <1>1 DEF ChunkPage
<1>6. /\ Page(<<s>>, h, i > 1) \in PageType
      /\ Page(<<s>>, h, i > 1).sections = <<s>> /\ Page(<<s>>, h, i > 1).continues = (i > 1)
  BY <1>3, <1>4, PageIs, Zenon
<1>7. /\ ChunkPage(c, h, i) \in PageType
      /\ ChunkPage(c, h, i).sections = <<s>> /\ ChunkPage(c, h, i).continues = (i > 1)
  BY <1>5, <1>6
<1> QED BY <1>1, <1>2, <1>3, <1>7 DEF Solid

LEMMA ChunkPagesBy ==
  ASSUME NEW S, NEW cs \in Seq(Text), NEW h, \A i \in DOMAIN cs : ChunkPage(cs[i], h, i) \in S
  PROVE  /\ ChunkPages(cs, h) \in Seq(S) /\ Len(ChunkPages(cs, h)) = Len(cs) /\ DOMAIN ChunkPages(cs, h) = DOMAIN cs
         /\ \A i \in DOMAIN cs : ChunkPages(cs, h)[i] = ChunkPage(cs[i], h, i)
<1>1. PICK n \in Nat : n = Len(cs) /\ DOMAIN cs = 1..n  BY LenProperties
<1>2. PICK f : f = ChunkPages(cs, h)  OBVIOUS
<1>3. f = [i \in 1..n |-> ChunkPage(cs[i], h, i)]  BY <1>1, <1>2 DEF ChunkPages, ChunkPage, ChunkSection
<1>4. f = [i \in 1..n |-> f[i]] /\ \A i \in 1..n : f[i] = ChunkPage(cs[i], h, i)  BY <1>3
<1>5. \A i \in 1..n : f[i] \in S  BY <1>1, <1>4
<1>6. f \in Seq(S) /\ Len(f) = n /\ DOMAIN f = 1..n  BY <1>4, <1>5, SeqBy
<1> QED BY <1>1, <1>2, <1>4, <1>6

LEMMA ChunkPagesType ==
  ASSUME NEW cs \in Seq(Text), NEW h \in Text
  PROVE  /\ ChunkPages(cs, h) \in Seq(Solid) /\ Len(ChunkPages(cs, h)) = Len(cs) /\ DOMAIN ChunkPages(cs, h) = DOMAIN cs
         /\ \A i \in DOMAIN cs : ChunkPages(cs, h)[i] = ChunkPage(cs[i], h, i)
<1>1. ASSUME NEW i \in DOMAIN cs PROVE ChunkPage(cs[i], h, i) \in Solid
  <2>1. i \in 1..Len(cs) /\ Len(cs) \in Nat  BY LenProperties
  <2>2. i \in Pos  BY <2>1 DEF Pos
  <2>3. cs[i] \in Text  BY <2>1, ElementOfSeq
  <2> QED BY <2>2, <2>3, ChunkPageFacts
<1> QED BY <1>1, ChunkPagesBy

LEMMA ChunkPagesAppend ==
  ASSUME NEW cs \in Seq(Text), NEW c \in Text, NEW h \in Text
  PROVE  ChunkPages(Append(cs, c), h) = Append(ChunkPages(cs, h), ChunkPage(c, h, Len(cs) + 1))
<1>1. PICK n \in Nat : n = Len(cs) /\ DOMAIN cs = 1..n  BY LenProperties
<1>2. PICK ds \in Seq(Text) : ds = Append(cs, c)  BY AppendProperties
<1>3. Len(ds) = n + 1 /\ ds[n + 1] = c /\ \A i \in 1..n : ds[i] = cs[i]  BY <1>1, <1>2, AppendProperties
<1>4. DOMAIN ds = 1..n+1  BY <1>3, LenProperties
<1>5. PICK f : f = ChunkPages(cs, h)  OBVIOUS
<1>6. PICK g : g = ChunkPages(ds, h)  OBVIOUS
<1>7. f \in Seq(Solid) /\ Len(f) = n /\ \A i \in 1..n : f[i] = ChunkPage(cs[i], h, i)  BY <1>1, <1>5, ChunkPagesType
<1>8. g \in Seq(Solid) /\ Len(g) = n + 1 /\ \A i \in 1..n+1 : g[i] = ChunkPage(ds[i], h, i)  BY <1>3, <1>4, <1>6, ChunkPagesType
<1>9. n + 1 \in Pos  BY DEF Pos
<1>10. PICK p \in Solid : p = ChunkPage(c, h, n + 1)  BY <1>9, ChunkPageFacts
<1>11. /\ Append(f, p) \in Seq(Solid) /\ Len(Append(f, p)) = n + 1
       /\ Append(f, p)[n + 1] = p /\ \A i \in 1..n : Append(f, p)[i] = f[i]
  BY <1>7, <1>10, AppendProperties
<1>12. ASSUME NEW i \in 1..n+1 PROVE g[i] = Append(f, p)[i]
  <2>1. CASE i = n + 1  BY <1>3, <1>8, <1>10, <1>11, <2>1
  <2>2. CASE i # n + 1
    <3>1. i \in 1..n  BY <2>2
    <3>2. g[i] = ChunkPage(ds[i], h, i) /\ ds[i] = cs[i]  BY <1>3, <1>8, <3>1
    <3>3. Append(f, p)[i] = ChunkPage(cs[i], h, i)  BY <1>7, <1>11, <3>1
    <3> QED BY <3>2, <3>3
  <2> QED BY <2>1, <2>2
<1>13. g = Append(f, p)  BY <1>8, <1>11, <1>12, SeqEqual
<1> QED BY <1>1, <1>2, <1>5, <1>6, <1>10, <1>13

\* What is read on pages.
PagesText(ps) == AllText(AllSections(ps))

LEMMA PagesTextFacts ==
  /\ PagesText(<<>>) = <<>>
  /\ \A ps \in Seq(PageType) : PagesText(ps) \in Text /\ AllSections(ps) \in Seq(Section)
  /\ \A ps \in Seq(PageType), p \in PageType : PagesText(Append(ps, p)) = PagesText(ps) \o AllText(p.sections)
  /\ \A ps, qs \in Seq(PageType) : PagesText(ps \o qs) = PagesText(ps) \o PagesText(qs)
<1>1. PagesText(<<>>) = <<>>  BY AllSectionsFacts, AllTextFacts DEF PagesText
<1>2. \A ps \in Seq(PageType) : PagesText(ps) \in Text /\ AllSections(ps) \in Seq(Section)
  BY AllSectionsFacts, AllTextFacts DEF PagesText, Text
<1>3. ASSUME NEW ps \in Seq(PageType), NEW p \in PageType PROVE PagesText(Append(ps, p)) = PagesText(ps) \o AllText(p.sections)
  <2>1. AllSections(Append(ps, p)) = AllSections(ps) \o p.sections  BY AllSectionsFacts
  <2>2. AllSections(ps) \in Seq(Section) /\ p.sections \in Seq(Section)  BY AllSectionsFacts, PageSectionsType
  <2>3. AllText(AllSections(ps) \o p.sections) = AllText(AllSections(ps)) \o AllText(p.sections)  BY <2>2, AllTextFacts
  <2> QED BY <2>1, <2>3 DEF PagesText
<1>4. ASSUME NEW ps \in Seq(PageType), NEW qs \in Seq(PageType) PROVE PagesText(ps \o qs) = PagesText(ps) \o PagesText(qs)
  <2>1. AllSections(ps \o qs) = AllSections(ps) \o AllSections(qs)  BY AllSectionsFacts
  <2>2. AllSections(ps) \in Seq(Section) /\ AllSections(qs) \in Seq(Section)  BY AllSectionsFacts
  <2>3. AllText(AllSections(ps) \o AllSections(qs)) = AllText(AllSections(ps)) \o AllText(AllSections(qs))  BY <2>2, AllTextFacts
  <2> QED BY <2>1, <2>3 DEF PagesText
<1> QED BY <1>1, <1>2, <1>3, <1>4

LEMMA SolidPages == Solid \subseteq PageType
BY DEF Solid

LEMMA ChunkPagesText ==
  ASSUME NEW h \in Text
  PROVE  \A cs \in Seq(Text) : PagesText(ChunkPages(cs, h)) = IF cs = <<>> THEN <<>> ELSE Ink(h) \o InkOf(cs)
<1> DEFINE P == {cs \in Seq(Text) : PagesText(ChunkPages(cs, h)) = IF cs = <<>> THEN <<>> ELSE Ink(h) \o InkOf(cs)}
<1>0. Ink(h) \in Text  BY InkFacts
<1>1. <<>> \in P
  <2>1. <<>> \in Seq(Text) /\ Len(<<>>) = 0  BY EmptySeq
  <2>2. ChunkPages(<<>>, h) \in Seq(Solid) /\ Len(ChunkPages(<<>>, h)) = 0  BY <2>1, ChunkPagesType
  <2>3. ChunkPages(<<>>, h) = <<>>  BY <2>2, EmptySeq
  <2> QED BY <2>1, <2>3, PagesTextFacts
<1>2. ASSUME NEW cs \in Seq(Text), NEW c \in Text, cs \in P PROVE Append(cs, c) \in P
  <2>1. Append(cs, c) \in Seq(Text) /\ Append(cs, c) # <<>>  BY AppendProperties
  <2>2. PICK n \in Nat : n = Len(cs)  BY LenProperties
  <2>3. PICK p \in Solid : p = ChunkPage(c, h, n + 1) /\ p.sections = <<ChunkSection(c, h, n + 1)>>
    <3>1. n + 1 \in Pos  BY DEF Pos
    <3> QED BY <3>1, ChunkPageFacts
  <2>4. PICK s \in Section : s = ChunkSection(c, h, n + 1)
    <3>1. n + 1 \in Pos  BY DEF Pos
    <3> QED BY <3>1, ChunkPageFacts
  <2>5. PICK ps \in Seq(PageType) : ps = ChunkPages(cs, h)  BY ChunkPagesType, SolidPages, SeqMonotonic
  <2>6. PagesText(ChunkPages(Append(cs, c), h)) = PagesText(ps) \o AllText(<<s>>)
    <3>1. ChunkPages(Append(cs, c), h) = Append(ps, p)  BY <2>2, <2>3, <2>5, ChunkPagesAppend
    <3>2. p \in PageType  BY SolidPages
    <3>3. PagesText(Append(ps, p)) = PagesText(ps) \o AllText(p.sections)  BY <3>2, PagesTextFacts
    <3> QED BY <2>3, <2>4, <3>1, <3>3
  <2>7. AllText(<<s>>) = Ink(s.heading) \o Ink(s.body) /\ s.body = c /\ s.heading = IF n = 0 THEN h ELSE <<>>
    <3>1. n + 1 = 1 <=> n = 0  OBVIOUS
    <3> QED BY <2>4, <3>1, OneSection DEF ChunkSection
  <2>8. InkOf(Append(cs, c)) = InkOf(cs) \o Ink(c) /\ InkOf(cs) \in Text /\ Ink(c) \in Text  BY InkOfAppend, InkFacts
  <2>9. CASE cs = <<>>
    <3>1. n = 0  BY <2>2, <2>9, EmptySeq
    <3>2. PagesText(ps) = <<>>  BY <1>2, <2>5, <2>9
    <3>3. AllText(<<s>>) = Ink(h) \o Ink(c)  BY <2>7, <3>1
    <3>4. InkOf(cs) = <<>>  BY <2>9, InkOfAppend
    <3>5. <<>> \o Ink(c) = Ink(c)  BY <2>8, Concats
    <3>6. <<>> \o (Ink(h) \o Ink(c)) = Ink(h) \o Ink(c)
      <4>1. Ink(h) \o Ink(c) \in Text  BY <1>0, <2>8, Concats
      <4> QED BY <4>1, Concats
    <3> QED BY <2>1, <2>6, <2>8, <3>2, <3>3, <3>4, <3>5, <3>6
  <2>10. CASE cs # <<>>
    <3>1. n # 0  BY <2>2, <2>10, EmptySeq
    <3>2. PagesText(ps) = Ink(h) \o InkOf(cs)  BY <1>2, <2>5, <2>10
    <3>3. AllText(<<s>>) = <<>> \o Ink(c)  BY <2>7, <3>1, InkFacts
    <3>4. <<>> \o Ink(c) = Ink(c)  BY <2>8, Concats
    <3>5. (Ink(h) \o InkOf(cs)) \o Ink(c) = Ink(h) \o (InkOf(cs) \o Ink(c))  BY <1>0, <2>8, Assoc
    <3> QED BY <2>1, <2>6, <2>8, <3>2, <3>3, <3>4, <3>5
  <2> QED BY <2>9, <2>10
<1> HIDE DEF P
<1>3. \A cs \in Seq(Text) : cs \in P  BY <1>1, <1>2, SeqInd
<1> QED BY <1>3 DEF P

(* ---- what is packed ----------------------------------------------------- *)

\* Pages that are full, and the sections of the one that is being filled.
Acc(a, S) == /\ a = [pages |-> a.pages, current |-> a.current]
             /\ a.pages \in Seq(S) /\ S \subseteq PageType /\ a.current \in Seq(Section)
TextIn(a) == PagesText(a.pages) \o AllText(a.current)

\* Nothing was packed; packing a section changes nothing, or adds its text.
Nothing(a) == a.pages = <<>> /\ a.current = <<>>

Stays(a, b) == TextIn(b) = TextIn(a) /\ (Nothing(b) <=> Nothing(a))
Grows(a, b, s) == TextIn(b) = TextIn(a) \o (Ink(s.heading) \o Ink(s.body)) /\ ~Nothing(b)

LEMMA AccParts ==
  ASSUME NEW S, S \subseteq PageType, NEW P \in Seq(S), NEW C \in Seq(Section)
  PROVE  /\ Acc([pages |-> P, current |-> C], S)
         /\ TextIn([pages |-> P, current |-> C]) = PagesText(P) \o AllText(C)
         /\ PagesText(P) \in Text /\ AllText(C) \in Text /\ PagesText(P) \o AllText(C) \in Text
         /\ (Nothing([pages |-> P, current |-> C]) <=> P = <<>> /\ C = <<>>)
<1>1. PICK a : a = [pages |-> P, current |-> C]  OBVIOUS
<1>2. a.pages = P /\ a.current = C  BY <1>1
<1>3. P \in Seq(PageType)  BY SeqMonotonic
<1>4. PagesText(P) \in Text /\ AllText(C) \in Text  BY <1>3, PagesTextFacts, AllTextFacts DEF Text
<1>5. PagesText(P) \o AllText(C) \in Text  BY <1>4, Concats
<1>6. Acc(a, S)  BY <1>1, <1>2 DEF Acc
<1> QED BY <1>1, <1>2, <1>4, <1>5, <1>6 DEF TextIn, Nothing

\* A full page, a section more on a page, a section on pages of its own.
LEMMA FlushFacts ==
  ASSUME NEW S, NEW a, Acc(a, S), a.current # <<>> => Page(a.current, <<>>, FALSE) \in S
  PROVE  /\ Acc(Flush(a), S) /\ Flush(a).current = <<>> /\ TextIn(Flush(a)) = TextIn(a)
         /\ Nothing(Flush(a)) <=> Nothing(a)
<1>1. PICK P, C : P = a.pages /\ C = a.current  OBVIOUS
<1>2. P \in Seq(S) /\ S \subseteq PageType /\ C \in Seq(Section) /\ a = [pages |-> P, current |-> C]  BY <1>1 DEF Acc
<1>3. CASE C = <<>>
  <2>1. Flush(a) = a  BY <1>1, <1>3 DEF Flush
  <2> QED BY <1>1, <1>3, <2>1
<1>4. CASE C # <<>>
  <2>1. PICK q \in S : q = Page(C, <<>>, FALSE)  BY <1>1, <1>4
  <2>2. PICK Q \in Seq(S) : Q = Append(P, q) /\ Q # <<>>  BY <1>2, <2>1, AppendProperties
  <2>3. PICK f : f = Flush(a)  OBVIOUS
  <2>4. f = [pages |-> Q, current |-> <<>>]  BY <1>1, <1>2, <1>4, <2>1, <2>2, <2>3 DEF Flush
  <2>5. <<>> \in Seq(Section)  BY EmptySeq
  <2>6. Acc(f, S) /\ f.current = <<>> /\ TextIn(f) = PagesText(Q) \o AllText(<<>>) /\ ~Nothing(f) /\ PagesText(Q) \in Text
    <3> DEFINE E == <<>>
    <3>1. E \in Seq(Section)  BY <2>5
    <3> HIDE DEF E
    <3>2. /\ Acc([pages |-> Q, current |-> E], S) /\ TextIn([pages |-> Q, current |-> E]) = PagesText(Q) \o AllText(E)
          /\ PagesText(Q) \in Text /\ (Nothing([pages |-> Q, current |-> E]) <=> Q = <<>> /\ E = <<>>)
      BY <1>2, <2>2, <3>1, AccParts
    <3>3. f = [pages |-> Q, current |-> E] /\ f.current = E  BY <2>4 DEF E
    <3>4. Acc(f, S) /\ f.current = E /\ TextIn(f) = PagesText(Q) \o AllText(E) /\ ~Nothing(f)
      BY <2>2, <3>2, <3>3
    <3> QED BY <3>2, <3>4 DEF E
  <2>7. TextIn(a) = PagesText(P) \o AllText(C) /\ ~Nothing(a)
    <3>1. TextIn([pages |-> P, current |-> C]) = PagesText(P) \o AllText(C) /\ (Nothing([pages |-> P, current |-> C]) <=> P = <<>> /\ C = <<>>)
      BY <1>2, AccParts
    <3> QED BY <1>2, <1>4, <3>1
  <2>8. PagesText(Q) = PagesText(P) \o AllText(C)
    <3>1. P \in Seq(PageType) /\ q \in PageType  BY <1>2, SeqMonotonic
    <3>2. q.sections = C  BY <2>1 DEF Page
    <3>3. PagesText(Append(P, q)) = PagesText(P) \o AllText(q.sections)  BY <3>1, PagesTextFacts
    <3> QED BY <2>2, <3>2, <3>3
  <2>9. PagesText(Q) \o <<>> = PagesText(Q)  BY <2>6, Concats
  <2> QED BY <2>3, <2>6, <2>7, <2>8, <2>9, AllTextFacts
<1> QED BY <1>3, <1>4

LEMMA AddSection ==
  ASSUME NEW S, NEW a, Acc(a, S), NEW s \in Section, NEW b, b = [pages |-> a.pages, current |-> Append(a.current, s)]
  PROVE  /\ Acc(b, S) /\ b.pages = a.pages /\ b.current = Append(a.current, s)
         /\ TextIn(b) = TextIn(a) \o (Ink(s.heading) \o Ink(s.body)) /\ ~Nothing(b)
<1>1. PICK P, C : P = a.pages /\ C = a.current  OBVIOUS
<1>2. P \in Seq(S) /\ S \subseteq PageType /\ C \in Seq(Section) /\ a = [pages |-> P, current |-> C]  BY <1>1 DEF Acc
<1>3. PICK D \in Seq(Section) : D = Append(C, s) /\ D # <<>>  BY <1>2, AppendProperties
<1>4. b = [pages |-> P, current |-> D]  BY <1>2, <1>3
<1>5. Acc(b, S) /\ b.pages = P /\ b.current = D /\ TextIn(b) = PagesText(P) \o AllText(D) /\ ~Nothing(b)
  <2>1. /\ Acc([pages |-> P, current |-> D], S) /\ TextIn([pages |-> P, current |-> D]) = PagesText(P) \o AllText(D)
        /\ (Nothing([pages |-> P, current |-> D]) <=> P = <<>> /\ D = <<>>)
    BY <1>2, <1>3, AccParts
  <2>2. b.pages = P /\ b.current = D  BY <1>4
  <2> QED BY <1>3, <1>4, <2>1, <2>2
<1>6. TextIn(a) = PagesText(P) \o AllText(C) /\ PagesText(P) \in Text /\ AllText(C) \in Text
  <2>1. /\ TextIn([pages |-> P, current |-> C]) = PagesText(P) \o AllText(C)
        /\ PagesText(P) \in Text /\ AllText(C) \in Text
    BY <1>2, AccParts
  <2> QED BY <1>2, <2>1
<1>7. AllText(D) = AllText(C) \o (Ink(s.heading) \o Ink(s.body)) /\ Ink(s.heading) \o Ink(s.body) \in Text
  BY <1>2, <1>3, AllTextFacts, SectionInkType
<1>8. (PagesText(P) \o AllText(C)) \o (Ink(s.heading) \o Ink(s.body)) = PagesText(P) \o (AllText(C) \o (Ink(s.heading) \o Ink(s.body)))
  BY <1>6, <1>7, Assoc
<1> QED BY <1>1, <1>3, <1>5, <1>6, <1>7, <1>8

WithPages(a, N) == [pages |-> a.pages \o N, current |-> a.current]

LEMMA AddPages ==
  ASSUME NEW S, NEW a, Acc(a, S), AllText(a.current) = <<>>, NEW s \in Section, NEW cs \in Seq(Text), InkOf(cs) = Ink(s.body),
         NEW N \in Seq(S), N = ChunkPages(cs, s.heading)
  PROVE  /\ Acc(WithPages(a, N), S) /\ WithPages(a, N).current = a.current
         /\ cs = <<>> => Stays(a, WithPages(a, N))
         /\ cs # <<>> => Grows(a, WithPages(a, N), s)
<1>b. PICK b : b = WithPages(a, N)  OBVIOUS
<1>1. PICK P, C : P = a.pages /\ C = a.current  OBVIOUS
<1>2. P \in Seq(S) /\ S \subseteq PageType /\ C \in Seq(Section) /\ a = [pages |-> P, current |-> C] /\ AllText(C) = <<>>
  BY <1>1 DEF Acc
<1>3. s.heading \in Text /\ s.body \in Text  BY SectionParts
<1>5. Len(N) = Len(cs)  BY <1>3, ChunkPagesType
<1>6. PICK Q \in Seq(S) : Q = P \o N /\ Len(Q) = Len(P) + Len(N)  BY <1>2, ConcatProperties
<1>7. b = [pages |-> Q, current |-> C]  BY <1>b, <1>1, <1>2, <1>6 DEF WithPages
<1>8. Acc(b, S) /\ b.current = C /\ TextIn(b) = PagesText(Q) \o <<>> /\ (Nothing(b) <=> Q = <<>> /\ C = <<>>) /\ PagesText(Q) \in Text
  <2>1. /\ Acc([pages |-> Q, current |-> C], S) /\ TextIn([pages |-> Q, current |-> C]) = PagesText(Q) \o AllText(C)
        /\ (Nothing([pages |-> Q, current |-> C]) <=> Q = <<>> /\ C = <<>>) /\ PagesText(Q) \in Text
    BY <1>2, <1>6, AccParts
  <2>2. b.current = C  BY <1>7
  <2> QED BY <1>2, <1>7, <2>1, <2>2
<1>9. TextIn(a) = PagesText(P) \o <<>> /\ PagesText(P) \in Text /\ (Nothing(a) <=> P = <<>> /\ C = <<>>)
  <2>1. /\ TextIn([pages |-> P, current |-> C]) = PagesText(P) \o AllText(C) /\ PagesText(P) \in Text
        /\ (Nothing([pages |-> P, current |-> C]) <=> P = <<>> /\ C = <<>>)
    BY <1>2, AccParts
  <2> QED BY <1>2, <2>1
<1>10. TextIn(b) = PagesText(Q) /\ TextIn(a) = PagesText(P)  BY <1>8, <1>9, Concats
<1>11. PagesText(Q) = PagesText(P) \o PagesText(N)
  <2>1. P \in Seq(PageType) /\ N \in Seq(PageType)  BY <1>2, SeqMonotonic
  <2> QED BY <1>6, <2>1, PagesTextFacts
<1>12. PagesText(N) = IF cs = <<>> THEN <<>> ELSE Ink(s.heading) \o Ink(s.body)  BY <1>3, ChunkPagesText
<1>13. Len(P) \in Nat /\ Len(cs) \in Nat /\ (P = <<>> <=> Len(P) = 0) /\ (cs = <<>> <=> Len(cs) = 0) /\ (Q = <<>> <=> Len(Q) = 0)
  BY <1>2, LenProperties, EmptySeq
<1>14. CASE cs = <<>>
  <2>1. PagesText(Q) = PagesText(P) \o <<>>  BY <1>11, <1>12, <1>14
  <2>2. PagesText(Q) = PagesText(P)  BY <1>9, <2>1, Concats
  <2>3. Len(Q) = Len(P)  BY <1>5, <1>6, <1>13, <1>14
  <2>4. Q = <<>> <=> P = <<>>  BY <1>13, <2>3
  <2> QED BY <1>b, <1>1, <1>8, <1>9, <1>10, <1>14, <2>2, <2>4 DEF Stays
<1>15. CASE cs # <<>>
  <2>1. Len(Q) # 0  BY <1>5, <1>6, <1>13, <1>15
  <2>2. Q # <<>>  BY <1>13, <2>1
  <2> QED BY <1>b, <1>1, <1>8, <1>10, <1>11, <1>12, <1>15, <2>2 DEF Grows
<1> QED BY <1>b, <1>1, <1>8, <1>14, <1>15 DEF Stays, Grows

(* ---- packing pages ------------------------------------------------------ *)

\* Sections of no characters have no ink.
LEMMA NoInk ==
  \A ss \in Seq(Section) : CharCount(ss) = 0 => AllText(ss) = <<>>
<1> DEFINE P == {ss \in Seq(Section) : CharCount(ss) = 0 => AllText(ss) = <<>>}
<1>1. <<>> \in P  BY EmptySeq, AllTextFacts
<1>2. ASSUME NEW ss \in Seq(Section), NEW s \in Section, ss \in P PROVE Append(ss, s) \in P
  <2>1. Append(ss, s) \in Seq(Section)  BY AppendProperties
  <2>2. PICK c \in Nat : c = CharCount(ss)  BY CharCountFacts
  <2>3. PICK m \in Nat, n \in Nat : m = Len(s.heading) /\ n = Len(s.body)  BY SectionParts
  <2>4. Chars(s) = m + n  BY <2>3, SectionParts
  <2>5. CharCount(Append(ss, s)) = c + (m + n)  BY <2>2, <2>4, CharCountFacts
  <2>6. ASSUME CharCount(Append(ss, s)) = 0 PROVE AllText(Append(ss, s)) = <<>>
    <3>1. c = 0 /\ m = 0 /\ n = 0  BY <2>5, <2>6
    <3>2. s.heading = <<>> /\ s.body = <<>>  BY <2>3, <3>1, SectionParts, EmptySeq DEF Text
    <3>3. AllText(ss) = <<>>  BY <1>2, <2>2, <3>1
    <3>4. AllText(Append(ss, s)) = <<>> \o (Ink(<<>>) \o Ink(<<>>))  BY <3>2, <3>3, AllTextFacts
    <3>5. Ink(<<>>) = <<>>  BY InkFacts
    <3>6. <<>> \o <<>> = <<>>  BY EmptySeq, ConcatEmptySeq
    <3> QED BY <3>4, <3>5, <3>6
  <2> QED BY <2>1, <2>6
<1> HIDE DEF P
<1>3. \A ss \in Seq(Section) : ss \in P  BY <1>1, <1>2, SeqInd
<1> QED BY <1>3 DEF P

LEMMA AccIs ==
  ASSUME NEW S, S \subseteq PageType, NEW a
  PROVE  Acc(a, S) <=> a \in [pages : Seq(S), current : Seq(Section)]
BY DEF Acc

(* by characters *)

\* What PagesFit says of a page of the "a4" profile.
Pages4 == {p \in Solid : /\ CharCount(p.sections) <= MaxChars \/ \E s \in Range(p.sections) : Adopts(s.body)
                         /\ p.continues => ~IsMarker(p.sections[1].body)}
Packing4 == {a \in [pages : Seq(Pages4), current : Seq(Section)] : CharCount(a.current) <= MaxChars}

\* A section of which nothing is packed.
Drops4(s) == Strip(s.body) = <<>> /\ Chars(s) > MaxChars

LEMMA Pages4Types == Pages4 \subseteq PageType
BY DEF Pages4, Solid

LEMMA Flushed4 ==
  ASSUME NEW C \in Seq(Section), C # <<>>, CharCount(C) <= MaxChars
  PROVE  Page(C, <<>>, FALSE) \in Pages4
<1>1. /\ Page(C, <<>>, FALSE) \in PageType /\ Page(C, <<>>, FALSE).sections = C
      /\ Page(C, <<>>, FALSE).continues = FALSE
  BY EmptyText, PageIs
<1> QED BY <1>1 DEF Pages4, Solid

LEMMA Chunk4 ==
  ASSUME NEW h \in Text, Len(h) < MaxChars, NEW cs, Chunks(cs, MaxChars - Len(h))
  PROVE  ChunkPages(cs, h) \in Seq(Pages4)
<1>1. cs \in Seq(Text)  BY DEF Chunks
<1>2. ASSUME NEW i \in DOMAIN cs PROVE ChunkPage(cs[i], h, i) \in Pages4
  <2>1. i \in 1..Len(cs) /\ Len(cs) \in Nat  BY <1>1, LenProperties
  <2>2. i \in Pos  BY <2>1 DEF Pos
  <2>3. PICK c \in Text : c = cs[i]  BY <1>1, <2>1, ElementOfSeq
  <2>4. (Len(c) <= MaxChars - Len(h) \/ Adopts(c)) /\ (i > 1 => ~IsMarker(c))  BY <2>3 DEF Chunks
  <2>5. PICK p : p = ChunkPage(c, h, i)  OBVIOUS
  <2>6. PICK s \in Section : s = ChunkSection(c, h, i)  BY <2>2, ChunkPageFacts
  <2>7. p \in Solid /\ p.sections = <<s>> /\ p.continues = (i > 1)  BY <2>2, <2>5, <2>6, ChunkPageFacts
  <2>8. s.body = c /\ s.heading = IF i = 1 THEN h ELSE <<>>  BY <2>6 DEF ChunkSection
  <2>9. <<s>>[1] = s /\ s \in Range(<<s>>) /\ CharCount(<<s>>) = Chars(s)
    <3>1. <<s>> \in Seq(Section) /\ <<s>> # <<>> /\ DOMAIN <<s>> = {1} /\ <<s>>[1] = s  BY OneOf
    <3> QED BY <3>1, OneSection DEF Range
  <2>10. p.continues => ~IsMarker(p.sections[1].body)  BY <2>4, <2>7, <2>8, <2>9
  <2>11. CASE Adopts(c)
    <3>1. \E x \in Range(p.sections) : Adopts(x.body)  BY <2>7, <2>8, <2>9, <2>11
    <3> QED BY <2>3, <2>5, <2>7, <2>10, <3>1 DEF Pages4
  <2>12. CASE ~Adopts(c)
    <3>1. PICK m \in Nat, n \in Nat, x \in Nat : m = Len(h) /\ n = Len(c) /\ x = Len(s.heading)
      BY LenProperties, SectionParts DEF Text
    <3>2. MaxChars \in Nat /\ n <= MaxChars - m /\ m < MaxChars  BY <2>4, <2>12, <3>1, LineWidthType
    <3>3. x = m \/ x = 0  BY <2>8, <3>1, EmptySeq
    <3>4. Chars(s) = x + n  BY <2>8, <3>1, SectionParts
    <3>5. Chars(s) <= MaxChars  BY <3>1, <3>2, <3>3, <3>4
    <3>6. CharCount(p.sections) <= MaxChars  BY <2>7, <2>9, <3>5
    <3> QED BY <2>3, <2>5, <2>7, <2>10, <3>6 DEF Pages4
  <2> QED BY <2>11, <2>12
<1> QED BY <1>1, <1>2, ChunkPagesBy

\* Packing one section keeps the pages fit, and adds its text unless it is dropped.
LEMMA PackByCharsStep ==
  ASSUME NEW a \in Packing4, NEW s \in TitledSection
  PROVE  /\ PackByChars(a, s) \in Packing4
         /\ IF Drops4(s) THEN Stays(a, PackByChars(a, s)) ELSE Grows(a, PackByChars(a, s), s)
<1>1. s \in Section /\ Titled(s) /\ Len(s.heading) < MaxChars /\ s.heading \in Text /\ s.body \in Text
  BY SectionParts DEF TitledSection, Titled
<1>2. Acc(a, Pages4) /\ CharCount(a.current) <= MaxChars /\ a.current \in Seq(Section) BY Pages4Types, AccIs DEF Packing4
<1>3. PICK c \in Nat, n \in Nat, m \in Nat : c = CharCount(a.current) /\ n = Chars(s) /\ m = MaxChars
  <2>1. PICK x \in Nat, y \in Nat : x = Len(s.heading) /\ y = Len(s.body)  BY <1>1, SectionParts
  <2>2. Chars(s) = x + y  BY <1>1, <2>1, SectionParts
  <2>3. Chars(s) \in Nat  BY <2>2
  <2> QED BY <1>2, <2>3, CharCountFacts, LineWidthType
<1>4. PICK r : r = IF c > 0 /\ c + n > m THEN Flush(a) ELSE a  OBVIOUS
<1>5. /\ Acc(r, Pages4) /\ Stays(a, r)
      /\ c > 0 /\ c + n > m => r.current = <<>>
      /\ ~(c > 0 /\ c + n > m) => r = a
  <2>1. CASE c > 0 /\ c + n > m
    <3>1. r = Flush(a)  BY <1>4, <2>1
    <3>2. a.current # <<>> => Page(a.current, <<>>, FALSE) \in Pages4  BY <1>2, Flushed4
    <3>3. Acc(Flush(a), Pages4) /\ Flush(a).current = <<>> /\ TextIn(Flush(a)) = TextIn(a) /\ (Nothing(Flush(a)) <=> Nothing(a))
      BY <1>2, <3>2, FlushFacts
    <3> QED BY <2>1, <3>1, <3>3 DEF Stays
  <2>2. CASE ~(c > 0 /\ c + n > m)  BY <1>2, <1>4, <2>2 DEF Stays
  <2> QED BY <2>1, <2>2
<1>6. PICK b : b = PackByChars(a, s)  OBVIOUS
<1>7. CASE n > m
  <2>1. AllText(r.current) = <<>> /\ CharCount(r.current) <= m
    <3>1. CASE c > 0  BY <1>3, <1>5, <1>7, <3>1, AllTextFacts, CharCountFacts
    <3>2. CASE ~(c > 0)
      <4>1. c = 0 /\ r = a  BY <1>5, <3>2
      <4>2. CharCount(a.current) = 0  BY <1>3, <4>1
      <4>3. AllText(a.current) = <<>>  BY <1>2, <4>2, NoInk
      <4>4. 0 <= m  OBVIOUS
      <4> QED BY <4>1, <4>2, <4>3, <4>4
    <3> QED BY <3>1, <3>2
  <2>a. PICK k \in Nat, l \in Nat : k = Len(s.heading) /\ l = Len(s.body)  BY <1>1, SectionParts
  <2>b. n = k + l /\ k < m  BY <1>1, <1>3, <2>a, SectionParts
  <2>2. PICK size \in Nat \ {0} : size = MaxChars - Len(s.heading) /\ l > size
    <3>1. m - k \in Nat \ {0} /\ l > m - k  BY <1>7, <2>b
    <3> QED BY <1>3, <2>a, <3>1
  <2>3. PICK cs : cs = SplitLongBody(s.body, size)  OBVIOUS
  <2>4. Chunks(cs, size) /\ InkOf(cs) = Ink(s.body) /\ (cs = <<>> <=> Strip(s.body) = <<>>)
    <3>1. cs = <<>> <=> Len(s.body) > size /\ Strip(s.body) = <<>>  BY <1>1, <2>3, SplitLongFacts
    <3>2. Len(s.body) > size  BY <2>a, <2>2
    <3>3. Chunks(cs, size) /\ InkOf(cs) = Ink(s.body)  BY <1>1, <2>3, SplitLongFacts
    <3> QED BY <3>1, <3>2, <3>3
  <2>5. cs \in Seq(Text) /\ ChunkPages(cs, s.heading) \in Seq(Pages4)  BY <1>1, <2>2, <2>4, Chunk4 DEF Chunks
  <2>6. b = [pages |-> r.pages \o ChunkPages(cs, s.heading), current |-> r.current]
    <3>1. b = [r EXCEPT !.pages = @ \o ChunkPages(cs, s.heading)]
      BY <1>3, <1>4, <1>6, <1>7, <2>2, <2>3 DEF PackByChars
    <3>2. PICK P, C : r = [pages |-> P, current |-> C]  BY <1>5 DEF Acc
    <3> QED BY <3>1, <3>2
  <2>7. /\ Acc(b, Pages4) /\ b.current = r.current
        /\ cs = <<>> => Stays(r, b)
        /\ cs # <<>> => Grows(r, b, s)
    <3>1. PICK N \in Seq(Pages4) : N = ChunkPages(cs, s.heading)  BY <2>5
    <3>2. b = WithPages(r, N)  BY <2>6, <3>1 DEF WithPages
    <3>3. Acc(r, Pages4) /\ AllText(r.current) = <<>> /\ s \in Section  BY <1>1, <1>5, <2>1
    <3>4. cs \in Seq(Text) /\ InkOf(cs) = Ink(s.body)  BY <2>4, <2>5
    <3>5. /\ Acc(WithPages(r, N), Pages4) /\ WithPages(r, N).current = r.current
          /\ cs = <<>> => Stays(r, WithPages(r, N))
          /\ cs # <<>> => Grows(r, WithPages(r, N), s)
      BY ONLY <3>1, <3>3, <3>4, AddPages
    <3> QED BY <3>2, <3>5
  <2>8. b \in Packing4
    <3>1. b \in [pages : Seq(Pages4), current : Seq(Section)]  BY <2>7, Pages4Types, AccIs
    <3> QED BY <1>3, <2>1, <2>7, <3>1 DEF Packing4
  <2>9. Drops4(s) <=> cs = <<>>  BY <1>3, <1>7, <2>4 DEF Drops4
  <2> QED BY <1>5, <1>6, <2>7, <2>8, <2>9 DEF Stays, Grows
<1>8. CASE ~(n > m)
  <2>1. CharCount(r.current) + n <= m
    <3>1. CASE c > 0 /\ c + n > m
      <4>1. CharCount(r.current) = 0  BY <1>5, <3>1, CharCountFacts
      <4> QED BY <1>8, <4>1
    <3>2. CASE ~(c > 0 /\ c + n > m)
      <4>1. CharCount(r.current) = c  BY <1>3, <1>5, <3>2
      <4>2. c + n <= m  BY <1>8, <3>2
      <4> QED BY <4>1, <4>2
    <3> QED BY <3>1, <3>2
  <2>2. b = [pages |-> r.pages, current |-> Append(r.current, s)]
    <3>1. b = [r EXCEPT !.current = Append(@, s)]  BY <1>3, <1>4, <1>6, <1>8 DEF PackByChars
    <3>2. PICK P, C : r = [pages |-> P, current |-> C]  BY <1>5 DEF Acc
    <3> QED BY <3>1, <3>2
  <2>3. /\ Acc(b, Pages4) /\ b.current = Append(r.current, s)
        /\ TextIn(b) = TextIn(r) \o (Ink(s.heading) \o Ink(s.body)) /\ ~Nothing(b)
    BY <1>1, <1>5, <2>2, AddSection, ZenonT(60)
  <2>4. b \in Packing4
    <3>1. b \in [pages : Seq(Pages4), current : Seq(Section)]  BY <2>3, Pages4Types, AccIs
    <3>2. r.current \in Seq(Section)  BY <1>5 DEF Acc
    <3>3. CharCount(b.current) = CharCount(r.current) + Chars(s)  BY <1>1, <2>3, <3>2, CharCountFacts
    <3> QED BY <1>3, <2>1, <3>1, <3>3 DEF Packing4
  <2>5. ~Drops4(s)  BY <1>3, <1>8 DEF Drops4
  <2> QED BY <1>5, <1>6, <2>3, <2>4, <2>5 DEF Stays, Grows
<1> QED BY <1>7, <1>8

(* by lines *)

\* What PagesFit says of a page of the "messenger_card" profile.
PagesOfLines(splits) ==
  {p \in Solid : IF splits THEN Height(p.sections) <= Budget ELSE p.continues => ~IsMarker(p.sections[1].body)}
PackingOfLines(splits) ==
  {a \in [pages : Seq(PagesOfLines(splits)), current : Seq(Section)] : Height(a.current) <= Budget}
DropsOfLines(s) == Drops4(s) /\ Len(SectionLines(s)) > Budget

LEMMA PagesOfLinesTypes == ASSUME NEW splits PROVE PagesOfLines(splits) \subseteq PageType
BY DEF PagesOfLines, Solid

LEMMA FlushedLines ==
  ASSUME NEW splits \in BOOLEAN, NEW C \in Seq(Section), C # <<>>, Height(C) <= Budget
  PROVE  Page(C, <<>>, FALSE) \in PagesOfLines(splits)
<1>1. /\ Page(C, <<>>, FALSE) \in PageType /\ Page(C, <<>>, FALSE).sections = C
      /\ Page(C, <<>>, FALSE).continues = FALSE
  BY EmptyText, PageIs
<1> QED BY <1>1 DEF PagesOfLines, Solid

LEMMA ChunkLines ==
  ASSUME NEW splits \in BOOLEAN, NEW h \in Text, Len(Lines(h)) < Budget, NEW cs \in Seq(Text), NEW size,
         splits => Fitted(cs, Len(Lines(h))), ~splits => Chunks(cs, size)
  PROVE  ChunkPages(cs, h) \in Seq(PagesOfLines(splits))
<1>1. ASSUME NEW i \in DOMAIN cs PROVE ChunkPage(cs[i], h, i) \in PagesOfLines(splits)
  <2>1. i \in 1..Len(cs) /\ Len(cs) \in Nat  BY LenProperties
  <2>2. i \in Pos  BY <2>1 DEF Pos
  <2>3. PICK c \in Text : c = cs[i]  BY <2>1, ElementOfSeq
  <2>4. PICK p : p = ChunkPage(c, h, i)  OBVIOUS
  <2>5. PICK s \in Section : s = ChunkSection(c, h, i)  BY <2>2, ChunkPageFacts
  <2>6. p \in Solid /\ p.sections = <<s>> /\ p.continues = (i > 1)  BY <2>2, <2>4, <2>5, ChunkPageFacts
  <2>7. s.body = c /\ s.heading = IF i = 1 THEN h ELSE <<>>  BY <2>5 DEF ChunkSection
  <2>8. CASE splits
    <3>1. PICK x \in Nat, y \in Nat, z \in Nat, b \in Nat :
             x = Len(Lines(h)) /\ y = Len(Lines(s.heading)) /\ z = Len(Lines(Clean(c))) /\ b = Budget
      <4>1. Lines(h) \in Seq(Text) /\ Lines(s.heading) \in Seq(Text) /\ Lines(Clean(c)) \in Seq(Text)
        BY LinesType, CleanType, SectionParts
      <4> QED BY <4>1, LenProperties, LineWidthType
    <3>2. x < b  BY <3>1
    <3>3. z <= Room(x, i)  BY <2>3, <2>8, <3>1 DEF Fitted, Low
    <3>4. Lines(<<>>) = <<>> /\ Len(<<>>) = 0  BY EmptySeq DEF Lines
    <3>5. y + z <= b
      <4>1. CASE i = 1
        <5>1. y = x /\ z <= b - x  BY <2>7, <3>1, <3>3, <4>1 DEF Room
        <5> QED BY <5>1
      <4>2. CASE i # 1
        <5>1. y = 0 /\ z <= b  BY <2>7, <3>1, <3>3, <3>4, <4>2 DEF Room
        <5> QED BY <5>1
      <4> QED BY <4>1, <4>2
    <3>6. Len(SectionLines(s)) = y + z  BY <2>7, <3>1, SectionParts
    <3>7. Height(p.sections) = Len(SectionLines(s))  BY <2>6, OneSection
    <3> QED BY <2>3, <2>4, <2>6, <2>8, <3>1, <3>5, <3>6, <3>7 DEF PagesOfLines
  <2>9. CASE ~splits
    <3>1. i > 1 => ~IsMarker(c)  BY <2>3, <2>9 DEF Chunks
    <3>2. p.continues => ~IsMarker(c)  BY <2>6, <3>1
    <3>3. p.sections[1].body = c  BY <2>6, <2>7, OneSection
    <3> QED BY <2>3, <2>4, <2>6, <2>9, <3>2, <3>3 DEF PagesOfLines
  <2> QED BY <2>8, <2>9
<1> QED BY <1>1, ChunkPagesBy

LEMMA HeightFacts ==
  /\ Height(<<>>) = 0
  /\ \A ss \in Seq(Section) : Height(ss) \in Nat
BY AllLinesFacts, EmptySeq, LenProperties DEF Height

\* As PackByCharsStep.
LEMMA PackByPixelsStep ==
  ASSUME NEW splits \in BOOLEAN, NEW a \in PackingOfLines(splits), NEW s \in TitledSection
  PROVE  /\ PackByPixels(a, s, splits) \in PackingOfLines(splits)
         /\ IF DropsOfLines(s) THEN Stays(a, PackByPixels(a, s, splits)) ELSE Grows(a, PackByPixels(a, s, splits), s)
<1>1. /\ s \in Section /\ Titled(s) /\ Len(Lines(s.heading)) < Budget
      /\ s.heading \in Text /\ s.body \in Text
  BY SectionParts DEF TitledSection, Titled
<1>0. PICK S : S = PagesOfLines(splits) /\ S \subseteq PageType  BY PagesOfLinesTypes
<1>2. Acc(a, S) /\ Height(a.current) <= Budget /\ a.current \in Seq(Section)
  BY <1>0, AccIs DEF PackingOfLines
<1>3. PICK f : f = Flush(a)  OBVIOUS
<1>4. Acc(f, S) /\ Stays(a, f) /\ f.current = <<>>
  <2>1. a.current # <<>> => Page(a.current, <<>>, FALSE) \in S  BY <1>0, <1>2, FlushedLines
  <2>2. Acc(Flush(a), S) /\ Flush(a).current = <<>> /\ TextIn(Flush(a)) = TextIn(a) /\ (Nothing(Flush(a)) <=> Nothing(a))
    BY <1>2, <2>1, FlushFacts
  <2> QED BY <1>3, <2>2 DEF Stays
<1>5. PICK n \in Nat, m \in Nat : n = Len(SectionLines(s)) /\ m = Budget
  BY <1>1, SectionLinesType, LenProperties, LineWidthType
<1>6. PICK b : b = PackByPixels(a, s, splits)  OBVIOUS
<1>7. CASE n > m
  <2>1. AllText(f.current) = <<>> /\ Height(f.current) <= Budget
    <3>1. 0 <= Budget  BY LineWidthType
    <3> QED BY <1>4, <3>1, AllTextFacts, HeightFacts
  <2>2. PICK cs : cs = ChunksByPixels(s, splits)  OBVIOUS
  <2>a. Len(SectionLines(s)) > Budget  BY <1>5, <1>7
  <2>3. /\ cs \in Seq(Text) /\ InkOf(cs) = Ink(s.body)
        /\ splits => Fitted(cs, Len(Lines(s.heading)))
        /\ ~splits => Chunks(cs, MaxChars - Len(s.heading))
        /\ cs = <<>> <=> Strip(s.body) = <<>> /\ Chars(s) > MaxChars
    BY <1>1, <2>a, <2>2, ChunksByPixelsFacts
  <2>4. PICK N \in Seq(S) : N = ChunkPages(cs, s.heading)  BY <1>0, <1>1, <2>3, ChunkLines
  <2>5. b = WithPages(f, N)
    <3>1. b = [f EXCEPT !.pages = @ \o N]  BY <1>3, <1>6, <2>a, <2>2, <2>4 DEF PackByPixels
    <3>2. PICK P, C : f = [pages |-> P, current |-> C]  BY <1>4 DEF Acc
    <3> QED BY <3>1, <3>2 DEF WithPages
  <2>6. /\ Acc(b, S) /\ b.current = f.current
        /\ cs = <<>> => Stays(f, b)
        /\ cs # <<>> => Grows(f, b, s)
    <3>1. Acc(f, S) /\ AllText(f.current) = <<>> /\ s \in Section  BY <1>1, <1>4, <2>1
    <3>2. cs \in Seq(Text) /\ InkOf(cs) = Ink(s.body)  BY <2>3
    <3>3. /\ Acc(WithPages(f, N), S) /\ WithPages(f, N).current = f.current
          /\ cs = <<>> => Stays(f, WithPages(f, N))
          /\ cs # <<>> => Grows(f, WithPages(f, N), s)
      BY ONLY <2>4, <3>1, <3>2, AddPages
    <3> QED BY <2>5, <3>3
  <2>7. b \in PackingOfLines(splits)
    <3>1. b \in [pages : Seq(S), current : Seq(Section)]  BY <1>0, <2>6, AccIs
    <3> QED BY <1>0, <2>1, <2>6, <3>1 DEF PackingOfLines
  <2>8. DropsOfLines(s) <=> cs = <<>>  BY <2>a, <2>3 DEF DropsOfLines, Drops4
  <2> QED BY <1>4, <1>6, <2>6, <2>7, <2>8 DEF Stays, Grows
<1>8. CASE ~(n > m)
  <2>0. ~(Len(SectionLines(s)) > Budget)  BY <1>5, <1>8
  <2>1. PICK r : r = IF Height(Append(a.current, s)) > Budget THEN f ELSE a  OBVIOUS
  <2>2. Acc(r, S) /\ Stays(a, r) /\ Height(Append(r.current, s)) <= Budget /\ r.current \in Seq(Section)
    <3>1. CASE Height(Append(a.current, s)) > Budget
      <4>1. r = f  BY <2>1, <3>1
      <4>2. Append(f.current, s) = <<s>>  BY <1>4
      <4>3. Height(<<s>>) = n  BY <1>1, <1>5, OneSection
      <4>4. n <= m  BY <1>8
      <4> QED BY <1>4, <1>5, <4>1, <4>2, <4>3, <4>4, EmptySeq
    <3>2. CASE ~(Height(Append(a.current, s)) > Budget)
      <4>1. r = a  BY <2>1, <3>2
      <4>2. Append(a.current, s) \in Seq(Section)  BY <1>1, <1>2, AppendProperties
      <4>3. PICK x \in Nat : x = Height(Append(a.current, s))  BY <4>2, HeightFacts
      <4>4. x <= m  BY <1>5, <3>2, <4>3
      <4> QED BY <1>2, <1>5, <4>1, <4>3, <4>4 DEF Stays
    <3> QED BY <3>1, <3>2
  <2>3. b = [pages |-> r.pages, current |-> Append(r.current, s)]
    <3>1. b = [r EXCEPT !.current = Append(@, s)]  BY <1>3, <1>6, <2>0, <2>1 DEF PackByPixels
    <3>2. PICK P, C : r = [pages |-> P, current |-> C]  BY <2>2 DEF Acc
    <3> QED BY <3>1, <3>2
  <2>4. /\ Acc(b, S) /\ b.current = Append(r.current, s)
        /\ TextIn(b) = TextIn(r) \o (Ink(s.heading) \o Ink(s.body)) /\ ~Nothing(b)
    BY <1>1, <2>2, <2>3, AddSection, ZenonT(60)
  <2>5. b \in PackingOfLines(splits)
    <3>1. b \in [pages : Seq(S), current : Seq(Section)]  BY <1>0, <2>4, AccIs
    <3> QED BY <1>0, <2>2, <2>4, <3>1 DEF PackingOfLines
  <2>6. ~DropsOfLines(s)  BY <2>0 DEF DropsOfLines
  <2> QED BY <1>6, <2>2, <2>4, <2>5, <2>6 DEF Stays, Grows
<1> QED BY <1>7, <1>8

(* ---- what the packed pages hold ----------------------------------------- *)

LEMMA OnlyStep ==
  ASSUME NEW X, NEW S, NEW t \in Seq(X), NEW x \in X
  PROVE  Only(t, S) \in Seq(X) /\ Only(Append(t, x), S) = IF x \in S THEN Append(Only(t, S), x) ELSE Only(t, S)
<1>1. \A u \in Seq(X) : Only(u, S) \in Seq(X)  BY OnlyFold
<1>2. \A u \in Seq(X), y \in X : Only(Append(u, y), S) = IF y \in S THEN Append(Only(u, S), y) ELSE Only(u, S)
  BY OnlyFold, Zenon
<1> QED BY <1>1, <1>2

NoPages == [pages |-> <<>>, current |-> <<>>]

LEMMA NoPagesFacts ==
  /\ NoPages \in Packing4
  /\ \A splits \in BOOLEAN : NoPages \in PackingOfLines(splits)
  /\ TextIn(NoPages) = <<>> /\ Nothing(NoPages)
<1>1. <<>> \in Seq(Pages4) /\ <<>> \in Seq(Section) /\ CharCount(<<>>) = 0 /\ Height(<<>>) = 0 /\ 0 <= MaxChars /\ 0 <= Budget
  BY EmptySeq, CharCountFacts, HeightFacts, LineWidthType
<1>2. NoPages.pages = <<>> /\ NoPages.current = <<>>  BY DEF NoPages
<1>3. NoPages \in [pages : Seq(Pages4), current : Seq(Section)]  BY <1>1 DEF NoPages
<1>4. ASSUME NEW splits \in BOOLEAN PROVE NoPages \in PackingOfLines(splits)
  <2>1. <<>> \in Seq(PagesOfLines(splits))  BY EmptySeq
  <2>2. NoPages \in [pages : Seq(PagesOfLines(splits)), current : Seq(Section)]  BY <1>1, <2>1 DEF NoPages
  <2> QED BY <1>1, <1>2, <2>2 DEF PackingOfLines
<1>5. <<>> \o <<>> = <<>>  BY EmptySeq, ConcatEmptySeq
<1>6. TextIn(NoPages) = <<>> /\ Nothing(NoPages)  BY <1>2, <1>5, PagesTextFacts, AllTextFacts DEF TextIn, Nothing
<1> QED BY <1>1, <1>2, <1>3, <1>4, <1>6 DEF Packing4

LEMMA PackedByCharsFold ==
  /\ PackedByChars(<<>>) = NoPages
  /\ \A t \in Seq(TitledSection) : PackedByChars(t) \in Packing4
  /\ \A t \in Seq(TitledSection), x \in TitledSection : PackedByChars(Append(t, x)) = PackByChars(PackedByChars(t), x)
<1> DEFINE Op(a, x) == PackByChars(a, x)
           step == [p \in Packing4 \X TitledSection |-> Op(p[1], p[2])]
           H == [t \in Seq(TitledSection) |-> PackedByChars(t)]
<1>1. Stepping(Packing4, TitledSection, NoPages, step)
  BY NoPagesFacts, PackByCharsStep DEF Stepping
<1>2. \A a \in Packing4, x \in TitledSection : step[<<a, x>>] = Op(a, x)  OBVIOUS
<1> HIDE DEF step
<1>3. ASSUME NEW t \in Seq(TitledSection) PROVE \E g : Folds(g, t, Packing4, NoPages, step) /\ H[t] = g[DOMAIN t]
  <2> DEFINE Body(g) == [T \in SUBSET DOMAIN t |-> IF T = {} THEN NoPages ELSE Op(g[T \ {Max(T)}], t[Max(T)])]
             iter == CHOOSE g : g = Body(g)
  <2>1. PICK g : Solved(g, t, Packing4, TitledSection, NoPages, step)  BY <1>1, FoldSolved
  <2>2. g = Body(g)  BY <1>2, <2>1 DEF Solved
  <2>3. iter = Body(iter)  BY <2>2
  <2>4. PackedByChars(t) = iter[DOMAIN t]  BY DEF PackedByChars, NoPages, FoldLeft, MapThenFoldSet
  <2> HIDE DEF iter
  <2>5. Folds(iter, t, Packing4, NoPages, step)  BY <2>3, <1>2, <2>1, ZenonT(60) DEF Folds, Solved
  <2> QED BY <2>4, <2>5
<1>4. \A t \in Seq(TitledSection) : H[t] = PackedByChars(t)  OBVIOUS
<1> HIDE DEF H, Op
<1>5. Computed(H, Packing4, TitledSection, NoPages, step)
  <2>1. Folding(H, Packing4, TitledSection, NoPages, step)  BY <1>1, <1>3 DEF Folding
  <2> QED BY <2>1, FoldFacts
<1>6. PackedByChars(<<>>) = NoPages /\ \A t \in Seq(TitledSection) : PackedByChars(t) \in Packing4  BY <1>4, <1>5, EmptySeq DEF Computed
<1>7. ASSUME NEW t \in Seq(TitledSection), NEW x \in TitledSection PROVE PackedByChars(Append(t, x)) = Op(PackedByChars(t), x)
  <2>1. Append(t, x) \in Seq(TitledSection)  BY AppendProperties
  <2>2. H[Append(t, x)] = step[<<H[t], x>>] /\ H[t] \in Packing4  BY <1>5 DEF Computed
  <2> QED BY <1>2, <1>4, <2>1, <2>2
<1> QED BY <1>6, <1>7 DEF Op

LEMMA PackedByPixelsFold ==
  ASSUME NEW splits \in BOOLEAN
  PROVE  /\ PackedByPixels(<<>>, splits) = NoPages
         /\ \A t \in Seq(TitledSection) : PackedByPixels(t, splits) \in PackingOfLines(splits)
         /\ \A t \in Seq(TitledSection), x \in TitledSection : PackedByPixels(Append(t, x), splits) = PackByPixels(PackedByPixels(t, splits), x, splits)
<1> DEFINE Op(a, x) == PackByPixels(a, x, splits)
           step == [p \in PackingOfLines(splits) \X TitledSection |-> Op(p[1], p[2])]
           H == [t \in Seq(TitledSection) |-> PackedByPixels(t, splits)]
<1>1. Stepping(PackingOfLines(splits), TitledSection, NoPages, step)
  BY NoPagesFacts, PackByPixelsStep DEF Stepping
<1>2. \A a \in PackingOfLines(splits), x \in TitledSection : step[<<a, x>>] = Op(a, x)  OBVIOUS
<1> HIDE DEF step
<1>3. ASSUME NEW t \in Seq(TitledSection) PROVE \E g : Folds(g, t, PackingOfLines(splits), NoPages, step) /\ H[t] = g[DOMAIN t]
  <2> DEFINE Body(g) == [T \in SUBSET DOMAIN t |-> IF T = {} THEN NoPages ELSE Op(g[T \ {Max(T)}], t[Max(T)])]
             iter == CHOOSE g : g = Body(g)
  <2>1. PICK g : Solved(g, t, PackingOfLines(splits), TitledSection, NoPages, step)  BY <1>1, FoldSolved
  <2>2. g = Body(g)  BY <1>2, <2>1 DEF Solved
  <2>3. iter = Body(iter)  BY <2>2
  <2>4. PackedByPixels(t, splits) = iter[DOMAIN t]  BY DEF PackedByPixels, NoPages, FoldLeft, MapThenFoldSet
  <2> HIDE DEF iter
  <2>5. Folds(iter, t, PackingOfLines(splits), NoPages, step)  BY <2>3, <1>2, <2>1, ZenonT(60) DEF Folds, Solved
  <2> QED BY <2>4, <2>5
<1>4. \A t \in Seq(TitledSection) : H[t] = PackedByPixels(t, splits)  OBVIOUS
<1> HIDE DEF H, Op
<1>5. Computed(H, PackingOfLines(splits), TitledSection, NoPages, step)
  <2>1. Folding(H, PackingOfLines(splits), TitledSection, NoPages, step)  BY <1>1, <1>3 DEF Folding
  <2> QED BY <2>1, FoldFacts
<1>6. PackedByPixels(<<>>, splits) = NoPages /\ \A t \in Seq(TitledSection) : PackedByPixels(t, splits) \in PackingOfLines(splits)  BY <1>4, <1>5, EmptySeq DEF Computed
<1>7. ASSUME NEW t \in Seq(TitledSection), NEW x \in TitledSection PROVE PackedByPixels(Append(t, x), splits) = Op(PackedByPixels(t, splits), x)
  <2>1. Append(t, x) \in Seq(TitledSection)  BY AppendProperties
  <2>2. H[Append(t, x)] = step[<<H[t], x>>] /\ H[t] \in PackingOfLines(splits)  BY <1>5 DEF Computed
  <2> QED BY <1>2, <1>4, <2>1, <2>2
<1> QED BY <1>6, <1>7 DEF Op

LEMMA TitledTypes == TitledSection \subseteq Section
BY DEF TitledSection

\* The packed pages hold the text of what was not dropped.
LEMMA PackedByCharsText ==
  \A ss \in Seq(TitledSection) :
    LET a == PackedByChars(ss)
        written == Only(ss, {s \in TitledSection : ~Drops4(s)})
    IN a \in Packing4 /\ TextIn(a) = AllText(written) /\ (Nothing(a) <=> written = <<>>)
<1> DEFINE K == {s \in TitledSection : ~Drops4(s)}
           P == {ss \in Seq(TitledSection) : TextIn(PackedByChars(ss)) = AllText(Only(ss, K)) /\ (Nothing(PackedByChars(ss)) <=> Only(ss, K) = <<>>)}
<1>1. <<>> \in P
  <2>1. PackedByChars(<<>>) = NoPages /\ Only(<<>>, K) = <<>>  BY PackedByCharsFold, OnlyFold
  <2> QED BY <2>1, EmptySeq, NoPagesFacts, AllTextFacts
<1>2. ASSUME NEW ss \in Seq(TitledSection), NEW s \in TitledSection, ss \in P PROVE Append(ss, s) \in P
  <2>1. Append(ss, s) \in Seq(TitledSection)  BY AppendProperties
  <2>2. PICK a \in Packing4 : a = PackedByChars(ss)  BY PackedByCharsFold
  <2>3. PICK b : b = PackedByChars(Append(ss, s))  OBVIOUS
  <2>4. IF Drops4(s) THEN Stays(a, b) ELSE Grows(a, b, s)
    <3>1. b = PackByChars(a, s)  BY <2>2, <2>3, PackedByCharsFold
    <3> QED BY <3>1, PackByCharsStep
  <2>5. PICK w \in Seq(TitledSection) : w = Only(ss, K)  BY OnlyFold
  <2>6. TextIn(a) = AllText(w) /\ (Nothing(a) <=> w = <<>>)  BY <1>2, <2>2, <2>5
  <2>7. Only(Append(ss, s), K) = IF s \in K THEN Append(w, s) ELSE w
    <3> HIDE DEF K
    <3>1. Only(Append(ss, s), K) = IF s \in K THEN Append(Only(ss, K), s) ELSE Only(ss, K)  BY OnlyStep
    <3> QED BY <2>5, <3>1
  <2>8. CASE Drops4(s)
    <3>1. s \notin K  BY <2>8
    <3>2. Only(Append(ss, s), K) = w  BY <2>7, <3>1
    <3>3. TextIn(b) = TextIn(a) /\ (Nothing(b) <=> Nothing(a))  BY <2>4, <2>8 DEF Stays
    <3> QED BY <2>1, <2>3, <2>6, <3>2, <3>3
  <2>9. CASE ~Drops4(s)
    <3>1. s \in K  BY <2>9
    <3>2. Only(Append(ss, s), K) = Append(w, s) /\ Append(w, s) # <<>>  BY <2>5, <2>7, <3>1, AppendProperties
    <3>3. TextIn(b) = TextIn(a) \o (Ink(s.heading) \o Ink(s.body)) /\ ~Nothing(b)  BY <2>4, <2>9 DEF Grows
    <3>4. w \in Seq(Section) /\ s \in Section  BY <2>5, TitledTypes, SeqMonotonic
    <3>5. AllText(Append(w, s)) = AllText(w) \o (Ink(s.heading) \o Ink(s.body))  BY <3>4, AllTextFacts
    <3> QED BY <2>1, <2>3, <2>6, <3>2, <3>3, <3>5
  <2> QED BY <2>8, <2>9
<1> HIDE DEF P, K
<1>3. \A ss \in Seq(TitledSection) : ss \in P  BY <1>1, <1>2, SeqInd
<1> QED BY <1>3, PackedByCharsFold DEF P, K

LEMMA PackedByPixelsText ==
  ASSUME NEW splits \in BOOLEAN PROVE
  \A ss \in Seq(TitledSection) :
    LET a == PackedByPixels(ss, splits)
        written == Only(ss, {s \in TitledSection : ~DropsOfLines(s)})
    IN a \in PackingOfLines(splits) /\ TextIn(a) = AllText(written) /\ (Nothing(a) <=> written = <<>>)
<1> DEFINE K == {s \in TitledSection : ~DropsOfLines(s)}
           P == {ss \in Seq(TitledSection) : TextIn(PackedByPixels(ss, splits)) = AllText(Only(ss, K)) /\ (Nothing(PackedByPixels(ss, splits)) <=> Only(ss, K) = <<>>)}
<1>1. <<>> \in P
  <2>1. PackedByPixels(<<>>, splits) = NoPages /\ Only(<<>>, K) = <<>>  BY PackedByPixelsFold, OnlyFold
  <2> QED BY <2>1, EmptySeq, NoPagesFacts, AllTextFacts
<1>2. ASSUME NEW ss \in Seq(TitledSection), NEW s \in TitledSection, ss \in P PROVE Append(ss, s) \in P
  <2>1. Append(ss, s) \in Seq(TitledSection)  BY AppendProperties
  <2>2. PICK a \in PackingOfLines(splits) : a = PackedByPixels(ss, splits)  BY PackedByPixelsFold
  <2>3. PICK b : b = PackedByPixels(Append(ss, s), splits)  OBVIOUS
  <2>4. IF DropsOfLines(s) THEN Stays(a, b) ELSE Grows(a, b, s)
    <3>1. b = PackByPixels(a, s, splits)  BY <2>2, <2>3, PackedByPixelsFold
    <3> QED BY <3>1, PackByPixelsStep
  <2>5. PICK w \in Seq(TitledSection) : w = Only(ss, K)  BY OnlyFold
  <2>6. TextIn(a) = AllText(w) /\ (Nothing(a) <=> w = <<>>)  BY <1>2, <2>2, <2>5
  <2>7. Only(Append(ss, s), K) = IF s \in K THEN Append(w, s) ELSE w
    <3> HIDE DEF K
    <3>1. Only(Append(ss, s), K) = IF s \in K THEN Append(Only(ss, K), s) ELSE Only(ss, K)  BY OnlyStep
    <3> QED BY <2>5, <3>1
  <2>8. CASE DropsOfLines(s)
    <3>1. s \notin K  BY <2>8
    <3>2. Only(Append(ss, s), K) = w  BY <2>7, <3>1
    <3>3. TextIn(b) = TextIn(a) /\ (Nothing(b) <=> Nothing(a))  BY <2>4, <2>8 DEF Stays
    <3> QED BY <2>1, <2>3, <2>6, <3>2, <3>3
  <2>9. CASE ~DropsOfLines(s)
    <3>1. s \in K  BY <2>9
    <3>2. Only(Append(ss, s), K) = Append(w, s) /\ Append(w, s) # <<>>  BY <2>5, <2>7, <3>1, AppendProperties
    <3>3. TextIn(b) = TextIn(a) \o (Ink(s.heading) \o Ink(s.body)) /\ ~Nothing(b)  BY <2>4, <2>9 DEF Grows
    <3>4. w \in Seq(Section) /\ s \in Section  BY <2>5, TitledTypes, SeqMonotonic
    <3>5. AllText(Append(w, s)) = AllText(w) \o (Ink(s.heading) \o Ink(s.body))  BY <3>4, AllTextFacts
    <3> QED BY <2>1, <2>3, <2>6, <3>2, <3>3, <3>5
  <2> QED BY <2>8, <2>9
<1> HIDE DEF P, K
<1>3. \A ss \in Seq(TitledSection) : ss \in P  BY <1>1, <1>2, SeqInd
<1> QED BY <1>3, PackedByPixelsFold DEF P, K

LEMMA FlushedPages ==
  ASSUME NEW S, NEW a, Acc(a, S), a.current # <<>> => Page(a.current, <<>>, FALSE) \in S
  PROVE  /\ Flush(a).pages \in Seq(S) /\ PagesText(Flush(a).pages) = TextIn(a)
         /\ Flush(a).pages = <<>> <=> Nothing(a)
<1>1. PICK f : f = Flush(a)  OBVIOUS
<1>2. Acc(f, S) /\ f.current = <<>> /\ TextIn(f) = TextIn(a) /\ (Nothing(f) <=> Nothing(a))
  BY <1>1, FlushFacts
<1>3. f.pages \in Seq(S) /\ S \subseteq PageType  BY <1>2 DEF Acc
<1>4. PagesText(f.pages) \in Text  BY <1>3, SeqMonotonic, PagesTextFacts
<1>5. TextIn(f) = PagesText(f.pages) \o <<>>  BY <1>2, AllTextFacts DEF TextIn
<1>6. TextIn(f) = PagesText(f.pages)  BY <1>4, <1>5, Concats
<1>7. Nothing(f) <=> f.pages = <<>>  BY <1>2 DEF Nothing
<1> QED BY <1>1, <1>2, <1>3, <1>6, <1>7

(* The finished pages, by characters and by lines.                             *)
LEMMA PaginateByCharsFacts ==
  ASSUME NEW ss \in Seq(TitledSection), NEW written, written = Only(ss, {s \in TitledSection : ~Drops4(s)})
  PROVE  /\ PaginateByChars(ss) \in Seq(Pages4)
         /\ PagesText(PaginateByChars(ss)) = AllText(written)
         /\ PaginateByChars(ss) = <<>> <=> written = <<>>
<1>1. PICK a : a = PackedByChars(ss)  OBVIOUS
<1>2. a \in Packing4 /\ TextIn(a) = AllText(written) /\ (Nothing(a) <=> written = <<>>)  BY <1>1, PackedByCharsText
<1>3. Acc(a, Pages4) /\ CharCount(a.current) <= MaxChars /\ a.current \in Seq(Section)
  BY <1>2, Pages4Types, AccIs DEF Packing4
<1>4. a.current # <<>> => Page(a.current, <<>>, FALSE) \in Pages4  BY <1>3, Flushed4
<1>5. /\ Flush(a).pages \in Seq(Pages4) /\ PagesText(Flush(a).pages) = TextIn(a)
      /\ Flush(a).pages = <<>> <=> Nothing(a)
  BY <1>3, <1>4, FlushedPages
<1> QED BY <1>1, <1>2, <1>5 DEF PaginateByChars

LEMMA PackedPagesOfLines ==
  ASSUME NEW splits \in BOOLEAN, NEW ss \in Seq(TitledSection),
         NEW written, written = Only(ss, {s \in TitledSection : ~DropsOfLines(s)}),
         NEW ps, ps = Flush(PackedByPixels(ss, splits)).pages
  PROVE  /\ ps \in Seq(PagesOfLines(splits)) /\ PagesText(ps) = AllText(written)
         /\ ps = <<>> <=> written = <<>>
<1>1. PICK a : a = PackedByPixels(ss, splits)  OBVIOUS
<1>2. a \in PackingOfLines(splits) /\ TextIn(a) = AllText(written) /\ (Nothing(a) <=> written = <<>>)  BY <1>1, PackedByPixelsText
<1>0. PICK S : S = PagesOfLines(splits) /\ S \subseteq PageType  BY PagesOfLinesTypes
<1>3. Acc(a, S) /\ Height(a.current) <= Budget /\ a.current \in Seq(Section)
  BY <1>0, <1>2, AccIs DEF PackingOfLines
<1>4. a.current # <<>> => Page(a.current, <<>>, FALSE) \in S  BY <1>0, <1>3, FlushedLines
<1>5. /\ Flush(a).pages \in Seq(S) /\ PagesText(Flush(a).pages) = TextIn(a)
      /\ Flush(a).pages = <<>> <=> Nothing(a)
  BY <1>3, <1>4, FlushedPages
<1> QED BY <1>0, <1>1, <1>2, <1>5

(* ---- merging pages ------------------------------------------------------ *)

LEMMA SectionsAssoc ==
  ASSUME NEW x \in Seq(Section), NEW y \in Seq(Section), NEW z \in Seq(Section)
  PROVE  /\ (x \o y) \o z = x \o (y \o z) /\ x \o y \in Seq(Section)
         /\ x # <<>> => x \o y # <<>> /\ (x \o y)[1] = x[1]
<1>1. (x \o y) \o z = x \o (y \o z)  BY ConcatAssociative
<1>2. PICK m \in Nat, n \in Nat : m = Len(x) /\ n = Len(y)  BY LenProperties
<1>3. /\ x \o y \in Seq(Section) /\ Len(x \o y) = m + n
      /\ \A i \in 1..m+n : (x \o y)[i] = IF i <= m THEN x[i] ELSE y[i - m]
  BY <1>2, ConcatProperties
<1>4. ASSUME x # <<>> PROVE x \o y # <<>> /\ (x \o y)[1] = x[1]
  <2>1. m # 0  BY <1>2, <1>4, EmptySeq
  <2>2. 1 \in 1..m+n /\ 1 <= m /\ m + n # 0  BY <2>1
  <2> QED BY <1>3, <2>2, EmptySeq
<1> QED BY <1>1, <1>3, <1>4

LEMMA MergedFacts ==
  ASSUME NEW p \in Solid, NEW q \in Solid
  PROVE  /\ Merged(p, q) \in Solid /\ Merged(p, q).sections = p.sections \o q.sections
         /\ Merged(p, q).continues = p.continues /\ Merged(p, q).sections[1] = p.sections[1]
<1>1. PICK x, y : x = p.sections /\ y = q.sections  OBVIOUS
<1>2. x \in Seq(Section) /\ y \in Seq(Section) /\ x # <<>> /\ p.topic \in Text /\ q.topic \in Text /\ p.continues \in BOOLEAN
  BY <1>1 DEF Solid, PageType
<1>3. x \o y \in Seq(Section) /\ x \o y # <<>> /\ (x \o y)[1] = x[1]  BY <1>2, SectionsAssoc
<1>4. PICK t \in Text : t = IF p.topic # <<>> THEN p.topic ELSE q.topic  BY <1>2
<1>5. Merged(p, q) = Page(x \o y, t, p.continues)  BY <1>1, <1>4 DEF Merged
<1>6. /\ Page(x \o y, t, p.continues) \in PageType /\ Page(x \o y, t, p.continues).sections = x \o y
      /\ Page(x \o y, t, p.continues).continues = p.continues
  <2>1. PICK z : z = x \o y  OBVIOUS
  <2>2. z \in Seq(Section) /\ t \in Text /\ p.continues \in BOOLEAN  BY <1>2, <1>3, <1>4, <2>1
  <2>3. /\ Page(z, t, p.continues) \in PageType /\ Page(z, t, p.continues).sections = z
        /\ Page(z, t, p.continues).continues = p.continues
    BY ONLY <2>2, PageIs, Zenon
  <2> QED BY <2>1, <2>3
<1> QED BY <1>1, <1>3, <1>5, <1>6 DEF Solid

\* Pages that may be merged when both fit on one.
Joins(S) == S \subseteq Solid /\ \A p, q \in S : Height(p.sections \o q.sections) <= Budget => Merged(p, q) \in S

LEMMA PagesOfLinesJoin == ASSUME NEW splits \in BOOLEAN PROVE Joins(PagesOfLines(splits))
<1>1. ASSUME NEW p \in PagesOfLines(splits), NEW q \in PagesOfLines(splits), Height(p.sections \o q.sections) <= Budget
      PROVE  Merged(p, q) \in PagesOfLines(splits)
  <2>1. p \in Solid /\ q \in Solid  BY DEF PagesOfLines
  <2>2. PICK r : r = Merged(p, q)  OBVIOUS
  <2>3. /\ r \in Solid /\ r.sections = p.sections \o q.sections
        /\ r.continues = p.continues /\ r.sections[1] = p.sections[1]
    BY <2>1, <2>2, MergedFacts
  <2>4. CASE splits  BY <1>1, <2>2, <2>3, <2>4 DEF PagesOfLines
  <2>5. CASE ~splits
    <3>1. p.continues => ~IsMarker(p.sections[1].body)  BY <2>5 DEF PagesOfLines
    <3> QED BY <2>2, <2>3, <2>5, <3>1 DEF PagesOfLines
  <2> QED BY <2>4, <2>5
<1> QED BY <1>1 DEF Joins, PagesOfLines

LEMMA PlaceholderFacts ==
  /\ Placeholder \in Solid /\ Height(Placeholder.sections) <= Budget /\ CharCount(Placeholder.sections) <= MaxChars
  /\ Placeholder.continues = FALSE
<1> DEFINE t == Append(<<>>, "x")
           s == [heading |-> <<>>, body |-> t]
<1>1. <<>> \in Text /\ "x" \in Char  BY EmptyText DEF Char
<1>2. t \in Text /\ t = <<"x">> /\ t # <<>> /\ Len(t) = 1
  <2>1. t \in Text  BY <1>1, ParaSteps
  <2>2. t = <<"x">>  OBVIOUS
  <2> QED BY <2>1, <2>2
<1>3. s \in Section  BY <1>1, <1>2 DEF Section
<1>4. <<s>> \in Seq(Section) /\ <<s>> # <<>> /\ CharCount(<<s>>) = Chars(s) /\ Height(<<s>>) = Len(SectionLines(s))
  BY <1>3, OneSection
<1>5. Placeholder = Page(<<s>>, <<>>, FALSE)  BY <1>2 DEF Placeholder
<1>6. Placeholder \in PageType /\ Placeholder.sections = <<s>> /\ Placeholder.continues = FALSE
  BY <1>1, <1>4, <1>5, PageIs
<1>7. Chars(s) = 1
  <2>1. s.heading = <<>> /\ s.body = t /\ Len(<<>>) = 0  BY <1>1, EmptyText
  <2> QED BY <1>2, <2>1 DEF Chars
<1>8. Len(SectionLines(s)) <= 1
  <2> HIDE DEF t
  <2>1. s.heading = <<>> /\ s.body = t  OBVIOUS
  <2>2. PICK c \in Text : c = Clean(t)  BY <1>2, CleanType
  <2>3. Breaks(t) = 0 /\ Bad(t) = 0
    <3>1. "x" # "/" /\ Gap("x") = 0  BY GapType
    <3>2. /\ Breaks(Append(<<>>, "x")) = Breaks(<<>>) /\ Bad(Append(<<>>, "x")) = Bad(<<>>) + Over(Run(<<>>) + 1, Blanks(<<>>) + Gap("x"))
      BY <1>1, <3>1, ParaSteps
    <3>3. Over(1, 0) = 0  BY OverFacts
    <3>4. Run(<<>>) + 1 = 1 /\ Blanks(<<>>) + Gap("x") = 0 /\ Breaks(<<>>) = 0 /\ Bad(<<>>) = 0  BY <3>1, ParaOfNone
    <3> QED BY <3>2, <3>3, <3>4 DEF t
  <2>4. Breaks(c) = 0 /\ Bad(c) = 0
    <3>1. Breaks(c) <= 0 /\ Bad(c) <= 0  BY <1>2, <2>2, <2>3, ParaOfClean
    <3>2. Breaks(c) \in Nat /\ Bad(c) \in Nat  BY ParaTypes
    <3> QED BY <3>1, <3>2
  <2>5. Len(Lines(c)) <= 1
    <3>1. CASE c = <<>>  BY <3>1, EmptyText DEF Lines
    <3>2. CASE c # <<>>  BY <2>4, <3>2, LinesCounted
    <3> QED BY <3>1, <3>2
  <2>6. Len(Lines(<<>>)) = 0  BY EmptyText DEF Lines
  <2>7. Len(SectionLines(s)) = Len(Lines(<<>>)) + Len(Lines(c))  BY <1>3, <2>1, <2>2, SectionParts
  <2>8. Lines(c) \in Seq(Text)  BY LinesType
  <2>9. PICK n \in Nat : n = Len(Lines(c))  BY <2>8, LenProperties
  <2> QED BY <2>5, <2>6, <2>7, <2>9
<1>9. Budget \in Nat /\ Budget >= 1 /\ MaxChars \in Nat /\ MaxChars >= 1  BY LineWidthType
<1>10. Len(SectionLines(s)) \in Nat  BY <1>3, SectionLinesType, LenProperties
<1> HIDE DEF s
<1>11. Height(<<s>>) <= Budget /\ CharCount(<<s>>) <= MaxChars  BY <1>4, <1>7, <1>8, <1>9, <1>10
<1> QED BY <1>4, <1>6, <1>11 DEF Solid

LEMMA SectionsOf ==
  ASSUME NEW p \in PageType, NEW ps \in Seq(PageType)
  PROVE  /\ AllSections(<<p>>) = p.sections /\ p.sections \in Seq(Section)
         /\ AllSections(<<p>> \o ps) = p.sections \o AllSections(ps)
         /\ AllSections(ps) \in Seq(Section)
<1>1. <<>> \in Seq(PageType)  BY EmptySeq
<1>2. <<p>> \in Seq(PageType) /\ p.sections \in Seq(Section) /\ AllSections(ps) \in Seq(Section)
  BY OneOf, PageSectionsType, AllSectionsFacts
<1>3. AllSections(Append(<<>>, p)) = <<>> \o p.sections  BY <1>1, AllSectionsFacts
<1>4. Append(<<>>, p) = <<p>>  OBVIOUS
<1>5. <<>> \o p.sections = p.sections  BY <1>2, ConcatEmptySeq
<1>6. AllSections(<<p>> \o ps) = AllSections(<<p>>) \o AllSections(ps)  BY <1>2, AllSectionsFacts
<1> QED BY <1>2, <1>3, <1>4, <1>5, <1>6

LEMMA TailOf ==
  ASSUME NEW X, NEW t \in Seq(X), NEW i \in Pos, i <= Len(t)
  PROVE  /\ SubSeq(t, i + 1, Len(t)) \in Seq(X)
         /\ SubSeq(t, i, Len(t)) = <<t[i]>> \o SubSeq(t, i + 1, Len(t))
<1>1. i \in Nat /\ i >= 1 /\ i <= i + 1  BY DEF Pos
<1>2. PICK n \in Nat : n = Len(t)  BY LenProperties
<1>3. /\ SubSeq(t, i, i) \in Seq(X) /\ Len(SubSeq(t, i, i)) = i - i + 1
      /\ SubSeq(t, i + 1, Len(t)) \in Seq(X)
      /\ SubSeq(t, i, Len(t)) = SubSeq(t, i, i) \o SubSeq(t, i + 1, Len(t))
  BY <1>1, CutSeq
<1>4. SubSeq(t, i, i) = <<t[i]>>
  <2>1. \A j \in i..i : t[j] \in X  BY <1>1, <1>2, ElementOfSeq
  <2>2. \A j \in 1..i-i+1 : SubSeq(t, i, i)[j] = t[i + j - 1]  BY <1>1, <2>1, SubSeqProperties
  <2>3. SubSeq(t, i, i)[1] = t[i]
    <3>1. 1 \in 1..i-i+1 /\ i + 1 - 1 = i  BY <1>1
    <3> QED BY <2>2, <3>1
  <2>4. t[i] \in X /\ i - i + 1 = 1  BY <1>1, <2>1
  <2>5. <<t[i]>> \in Seq(X) /\ Len(<<t[i]>>) = 1 /\ <<t[i]>>[1] = t[i]  BY <2>4, OneOf
  <2>6. Len(SubSeq(t, i, i)) = Len(<<t[i]>>)  BY <1>3, <2>4, <2>5
  <2>7. ASSUME NEW j \in 1..1 PROVE SubSeq(t, i, i)[j] = <<t[i]>>[j]
    <3>1. j = 1  OBVIOUS
    <3> QED BY <2>3, <2>5, <3>1
  <2> QED BY <1>3, <2>5, <2>6, <2>7, SeqEqual
<1> QED BY <1>3, <1>4

\* A page that is joined with the next one.
Near(ps, i) == /\ i < Len(ps)
               /\ 100 * Height(ps[i].sections) < 65 * Budget
               /\ Height(ps[i].sections \o ps[i+1].sections) <= Budget

\* The pages in pairs or one by one hold the sections in their order.
LEMMA MergeUnderfilledFacts ==
  ASSUME NEW S, Joins(S), NEW ps \in Seq(S)
  PROVE  /\ MergeUnderfilled(ps) \in Seq(S)
         /\ AllSections(MergeUnderfilled(ps)) = AllSections(ps)
         /\ MergeUnderfilled(ps) = <<>> <=> ps = <<>>
<1> DEFINE n == Len(ps)
           Body(f) == [i \in Nat \ {0} |->
                         IF i > n THEN <<>>
                         ELSE IF Near(ps, i) THEN <<Merged(ps[i], ps[i+1])>> \o f[i+2] ELSE <<ps[i]>> \o f[i+1]]
           item == [i \in Pos |-> IF i > n THEN Placeholder ELSE IF Near(ps, i) THEN Merged(ps[i], ps[i+1]) ELSE ps[i]]
           next == [i \in Pos |-> IF Near(ps, i) THEN i + 2 ELSE i + 1]
           f == CHOOSE g : g = Body(g)
<1>1. MergeUnderfilled(ps) = f[1]
  <2>1. f = CHOOSE g : g = [i \in Nat \ {0} |->
                              IF i > Len(ps) THEN <<>>
                              ELSE IF /\ i < Len(ps)
                                      /\ 100 * Height(ps[i].sections) < 65 * Budget
                                      /\ Height(ps[i].sections \o ps[i+1].sections) <= Budget
                                   THEN <<Merged(ps[i], ps[i+1])>> \o g[i+2]
                                   ELSE <<ps[i]>> \o g[i+1]]
    BY DEF Near
  <2> QED BY <2>1 DEF MergeUnderfilled
<1>2. n \in Nat /\ S \subseteq Solid /\ S \subseteq PageType /\ Solid \subseteq PageType
  BY LenProperties, SolidPages DEF Joins
<1>3. \A i \in Pos : i \in Nat /\ i >= 1 /\ i + 1 \in Pos /\ i + 2 \in Pos /\ (~(i > n) <=> i <= n)
  BY <1>2 DEF Pos
<1>4. ASSUME NEW i \in Pos, i <= n PROVE ps[i] \in S
  <2>1. i \in 1..n  BY <1>2, <1>3, <1>4
  <2> QED BY <2>1, ElementOfSeq
<1>5. ASSUME NEW i \in Pos, Near(ps, i) PROVE i + 1 <= n /\ ps[i+1] \in S /\ Merged(ps[i], ps[i+1]) \in S
  <2>1. i < n  BY <1>5 DEF Near
  <2>2. i <= n /\ i + 1 <= n /\ i + 1 \in Pos  BY <1>2, <1>3, <2>1
  <2>3. ps[i] \in S /\ ps[i+1] \in S  BY <1>4, <2>2
  <2> QED BY <1>5, <2>2, <2>3 DEF Near, Joins
<1> HIDE DEF n
<1>6. ASSUME NEW i \in Pos
      PROVE  /\ next[i] \in Pos /\ next[i] > i /\ next[i] = IF Near(ps, i) THEN i + 2 ELSE i + 1
             /\ item[i] = IF i > n THEN Placeholder ELSE IF Near(ps, i) THEN Merged(ps[i], ps[i+1]) ELSE ps[i]
  BY <1>3
<1>7. \A i \in Pos : item[i] \in PageType /\ (i <= n => item[i] \in S)
  <2> SUFFICES ASSUME NEW i \in Pos PROVE item[i] \in PageType /\ (i <= n => item[i] \in S)  OBVIOUS
  <2>1. CASE i > n
    <3>1. item[i] = Placeholder  BY <1>6, <2>1
    <3>2. Placeholder \in PageType  BY <1>2, PlaceholderFacts
    <3>3. ~(i <= n)  BY <1>2, <1>3, <2>1
    <3> QED BY <3>1, <3>2, <3>3
  <2>2. CASE ~(i > n)
    <3>1. i <= n  BY <1>3, <2>2
    <3>2. item[i] = IF Near(ps, i) THEN Merged(ps[i], ps[i+1]) ELSE ps[i]  BY <1>6, <2>2
    <3>3. item[i] \in S  BY <1>4, <1>5, <3>1, <3>2
    <3> QED BY <1>2, <3>3
  <2> QED BY <2>1, <2>2
<1>8. item \in [Pos -> PageType] /\ next \in [Pos -> Pos]
  <2>1. \A i \in Pos : item[i] \in PageType  BY <1>7
  <2>2. \A i \in Pos : next[i] \in Pos  BY <1>6
  <2>3. item = [i \in Pos |-> item[i]] /\ next = [i \in Pos |-> next[i]]  OBVIOUS
  <2> HIDE DEF item, next
  <2> QED BY <2>1, <2>2, <2>3
<1> HIDE DEF item, next
<1>9. Walk(item, next, PageType)  BY <1>6, <1>8 DEF Walk
<1>10. \E g : g = Body(g)
  <2>1. PICK g \in [Pos -> Seq(PageType)] : Walks(g, item, next, n)  BY <1>2, <1>9, WalkExists
  <2>2. ASSUME NEW i \in Pos
        PROVE  g[i] = IF i > n THEN <<>>
                      ELSE IF Near(ps, i) THEN <<Merged(ps[i], ps[i+1])>> \o g[i+2] ELSE <<ps[i]>> \o g[i+1]
    <3>1. g[i] = IF i > n THEN <<>> ELSE <<item[i]>> \o g[next[i]]  BY <2>1 DEF Walks
    <3> QED BY <1>6, <3>1
  <2>3. g = Body(g)  BY <2>1, <2>2 DEF Pos
  <2> QED BY <2>3
<1>11. f = Body(f)
  <2> HIDE DEF Body
  <2> QED BY <1>10
<1> HIDE DEF f
<1>12. \A i \in Pos : f[i] = IF i > n THEN <<>>
                             ELSE IF Near(ps, i) THEN <<Merged(ps[i], ps[i+1])>> \o f[i+2] ELSE <<ps[i]>> \o f[i+1]
  BY <1>11 DEF Pos
<1> HIDE DEF Body
<1> DEFINE P == {i \in Pos : /\ f[i] \in Seq(S) /\ AllSections(f[i]) = AllSections(SubSeq(ps, i, n))
                             /\ (f[i] = <<>> <=> i > n)}
<1>13. ASSUME NEW i \in Pos, i > n PROVE i \in P
  <2>1. f[i] = <<>>  BY <1>12, <1>13
  <2>2. SubSeq(ps, i, n) = <<>>  BY <1>13, NoSeq DEF n
  <2> QED BY <1>13, <2>1, <2>2, EmptySeq
<1>14. ASSUME NEW i \in Pos, i <= n, next[i] \in P PROVE i \in P
  <2>1. PICK j, r, x : j = next[i] /\ r = f[j] /\ x = item[i]  OBVIOUS
  <2>2. j \in Pos /\ r \in Seq(S) /\ AllSections(r) = AllSections(SubSeq(ps, j, n))  BY <1>14, <2>1
  <2>3. x \in S /\ x \in PageType  BY <1>7, <1>14, <2>1
  <2>4. f[i] = <<x>> \o r
    <3>1. ~(i > n)  BY <1>3, <1>14
    <3> QED BY <1>6, <1>12, <2>1, <3>1
  <2>5. f[i] \in Seq(S) /\ f[i] # <<>>
    <3>1. <<x>> \in Seq(S) /\ Len(<<x>>) = 1  BY <2>3, OneOf
    <3>2. f[i] \in Seq(S) /\ Len(f[i]) = 1 + Len(r) /\ Len(r) \in Nat  BY <2>2, <2>4, <3>1, ConcatProperties, LenProperties
    <3>3. Len(f[i]) # 0  BY <3>2
    <3> QED BY <3>2, <3>3, EmptySeq
  <2>6. r \in Seq(PageType) /\ ps \in Seq(PageType)  BY <1>2, <2>2, SeqMonotonic
  <2>7. AllSections(f[i]) = x.sections \o AllSections(r)  BY <2>3, <2>4, <2>6, SectionsOf
  <2>8. PICK p : p = ps[i]  OBVIOUS
  <2>9. p \in S /\ p \in PageType /\ p \in Solid  BY <1>2, <1>4, <1>14, <2>8
  <2>10. /\ SubSeq(ps, i + 1, n) \in Seq(PageType)
         /\ AllSections(SubSeq(ps, i, n)) = p.sections \o AllSections(SubSeq(ps, i + 1, n))
    <3>1. SubSeq(ps, i + 1, n) \in Seq(PageType) /\ SubSeq(ps, i, n) = <<p>> \o SubSeq(ps, i + 1, n)
      BY <1>14, <2>6, <2>8, TailOf DEF n
    <3> QED BY <2>9, <3>1, SectionsOf
  <2>11. CASE Near(ps, i)
    <3>1. PICK q : q = ps[i+1]  OBVIOUS
    <3>2. i + 1 \in Pos /\ i + 1 <= n /\ q \in S /\ q \in PageType /\ q \in Solid  BY <1>2, <1>3, <1>5, <2>11, <3>1
    <3>3. x = Merged(p, q) /\ j = i + 2
      <4>1. ~(i > n)  BY <1>3, <1>14
      <4> QED BY <1>6, <2>1, <2>8, <2>11, <3>1, <4>1
    <3>4. x.sections = p.sections \o q.sections  BY <2>9, <3>2, <3>3, MergedFacts
    <3>5. PICK t \in Seq(PageType) : t = SubSeq(ps, i + 2, n) /\ SubSeq(ps, i + 1, n) = <<q>> \o t
      <4>1. SubSeq(ps, (i + 1) + 1, n) \in Seq(PageType) /\ SubSeq(ps, i + 1, n) = <<q>> \o SubSeq(ps, (i + 1) + 1, n)
        BY <2>6, <3>1, <3>2, TailOf DEF n
      <4>2. (i + 1) + 1 = i + 2  BY <1>3
      <4> QED BY <4>1, <4>2
    <3>6. AllSections(<<q>> \o t) = q.sections \o AllSections(t)  BY <3>2, SectionsOf
    <3>7. AllSections(SubSeq(ps, i, n)) = p.sections \o (q.sections \o AllSections(t))  BY <2>10, <3>5, <3>6
    <3>8. AllSections(f[i]) = (p.sections \o q.sections) \o AllSections(t)  BY <2>2, <2>7, <3>3, <3>4, <3>5
    <3>9. p.sections \in Seq(Section) /\ q.sections \in Seq(Section) /\ AllSections(t) \in Seq(Section)
      BY <2>9, <3>2, PageSectionsType, AllSectionsFacts
    <3>10. AllSections(f[i]) = AllSections(SubSeq(ps, i, n))
      <4>1. PICK u \in Seq(Section), v \in Seq(Section), w \in Seq(Section) :
               u = p.sections /\ v = q.sections /\ w = AllSections(t)
        BY <3>9
      <4>2. (u \o v) \o w = u \o (v \o w)  BY SectionsAssoc
      <4> QED BY <3>7, <3>8, <4>1, <4>2
    <3> QED BY <1>3, <1>14, <2>5, <3>10
  <2>12. CASE ~Near(ps, i)
    <3>1. x = p /\ j = i + 1
      <4>1. ~(i > n)  BY <1>3, <1>14
      <4> QED BY <1>6, <2>1, <2>8, <2>12, <4>1
    <3>2. AllSections(f[i]) = AllSections(SubSeq(ps, i, n))  BY <2>2, <2>7, <2>10, <3>1
    <3> QED BY <1>3, <1>14, <2>5, <3>2
  <2> QED BY <2>11, <2>12
<1> HIDE DEF P
<1>15. \A i \in Pos : i \in P
  <2>1. \A i \in Pos : next[i] > i  BY <1>6
  <2> QED BY <1>2, <1>8, <1>13, <1>14, <2>1, WalkInd
<1>16. 1 \in Pos  BY DEF Pos
<1>17. f[1] \in Seq(S) /\ AllSections(f[1]) = AllSections(SubSeq(ps, 1, n)) /\ (f[1] = <<>> <=> 1 > n)  BY <1>15, <1>16 DEF P
<1>18. SubSeq(ps, 1, n) = ps  BY WholeSeq DEF n
<1>19. 1 > n <=> ps = <<>>
  <2>1. ps = <<>> <=> n = 0  BY EmptySeq DEF n
  <2> QED BY <1>2, <2>1
<1> QED BY <1>1, <1>17, <1>18, <1>19

LEMMA FrontFacts ==
  ASSUME NEW X, NEW t \in Seq(X), Len(t) >= 2
  PROVE  \E a \in Seq(X), x \in X, y \in X :
           /\ t = Append(Append(a, x), y) /\ a = SubSeq(t, 1, Len(t) - 2)
           /\ x = t[Len(t)-1] /\ y = Last(t)
<1>1. PICK n \in Nat : n = Len(t)  BY LenProperties
<1>2. n >= 2 /\ n - 2 \in Nat /\ n - 1 \in 1..n /\ n \in 1..n  BY <1>1
<1>3. PICK x \in X, y \in X : x = t[n-1] /\ y = t[n]  BY <1>1, <1>2, ElementOfSeq
<1>4. PICK a : a = SubSeq(t, 1, n - 2)  OBVIOUS
<1>5. a \in Seq(X) /\ Len(a) = n - 2 /\ \A j \in 1..n-2 : a[j] = t[j]
  <2>1. \A j \in 1..n-2 : t[j] \in X
    <3>1. \A j \in 1..n-2 : j \in 1..n  BY <1>2
    <3> QED BY <1>1, <3>1, ElementOfSeq
  <2>2. /\ a \in Seq(X) /\ Len(a) = IF 1 <= n - 2 THEN n - 2 - 1 + 1 ELSE 0
        /\ \A j \in 1..n-2-1+1 : a[j] = t[1 + j - 1]
    <3>1. 1 \in Int /\ n - 2 \in Int  BY <1>2
    <3> QED BY <1>4, <2>1, <3>1, SubSeqProperties
  <2>3. Len(a) = n - 2  BY <1>2, <2>2
  <2>4. n - 2 - 1 + 1 = n - 2  BY <1>2
  <2>5. ASSUME NEW j \in 1..n-2 PROVE a[j] = t[j]
    <3>1. 1 + j - 1 = j  OBVIOUS
    <3>2. a[j] = t[1 + j - 1]  BY <2>2, <2>4
    <3> QED BY <3>1, <3>2
  <2> QED BY <2>2, <2>3, <2>5
<1>6. PICK b \in Seq(X) : b = Append(a, x)  BY <1>3, <1>5, AppendProperties
<1>7. Len(b) = n - 1 /\ b[n-1] = x /\ \A j \in 1..n-2 : b[j] = a[j]
  <2>1. Len(b) = (n - 2) + 1 /\ b[(n-2) + 1] = x /\ \A j \in 1..n-2 : b[j] = a[j]
    BY <1>3, <1>5, <1>6, AppendProperties
  <2>2. (n - 2) + 1 = n - 1  BY <1>2
  <2> QED BY <2>1, <2>2
<1>8. PICK c \in Seq(X) : c = Append(b, y)  BY <1>3, <1>6, AppendProperties
<1>9. Len(c) = n /\ c[n] = y /\ \A j \in 1..n-1 : c[j] = b[j]
  <2>1. Len(c) = (n - 1) + 1 /\ c[(n-1) + 1] = y /\ \A j \in 1..n-1 : c[j] = b[j]
    BY <1>3, <1>6, <1>7, <1>8, AppendProperties
  <2>2. (n - 1) + 1 = n  BY <1>2
  <2> QED BY <2>1, <2>2
<1>10. ASSUME NEW j \in 1..n PROVE c[j] = t[j]
  <2>1. CASE j = n  BY <1>3, <1>9, <2>1
  <2>2. CASE j = n - 1
    <3>1. j \in 1..n-1  BY <1>2, <2>2
    <3> QED BY <1>3, <1>7, <1>9, <2>2, <3>1
  <2>3. CASE j # n /\ j # n - 1
    <3>1. j \in 1..n-1 /\ j \in 1..n-2  BY <1>2, <2>3
    <3> QED BY <1>5, <1>7, <1>9, <3>1
  <2> QED BY <2>1, <2>2, <2>3
<1>11. c = t  BY <1>1, <1>8, <1>9, <1>10, SeqEqual
<1>12. Last(t) = y  BY <1>1, <1>3 DEF Last
<1> QED BY <1>1, <1>3, <1>4, <1>5, <1>6, <1>8, <1>11, <1>12

\* So does a last page that is put on the one before it.
LEMMA MergeTrailingFacts ==
  ASSUME NEW S, Joins(S), NEW ps \in Seq(S)
  PROVE  /\ MergeTrailingShortPage(ps) \in Seq(S)
         /\ AllSections(MergeTrailingShortPage(ps)) = AllSections(ps)
         /\ MergeTrailingShortPage(ps) = <<>> <=> ps = <<>>
<1> DEFINE Ends == /\ Len(ps) >= 2 /\ CharCount(Last(ps).sections) <= ShortTail
                   /\ Height(ps[Len(ps)-1].sections \o Last(ps).sections) <= Budget
<1>1. CASE ~Ends
  <2>1. MergeTrailingShortPage(ps) = ps  BY <1>1 DEF MergeTrailingShortPage
  <2> QED BY <2>1
<1>2. CASE Ends
  <2>1. PICK a \in Seq(S), p \in S, q \in S : /\ ps = Append(Append(a, p), q) /\ a = SubSeq(ps, 1, Len(ps) - 2)
                                              /\ p = ps[Len(ps)-1] /\ q = Last(ps)
    BY <1>2, FrontFacts
  <2>2. Height(p.sections \o q.sections) <= Budget  BY <1>2, <2>1
  <2>3. PICK r \in S : r = Merged(p, q)  BY <2>2 DEF Joins
  <2>4. MergeTrailingShortPage(ps) = Append(a, r)  BY <1>2, <2>1, <2>3 DEF MergeTrailingShortPage
  <2>5. Append(a, r) \in Seq(S) /\ Append(a, r) # <<>>  BY AppendProperties
  <2>6. PICK b \in Seq(S) : b = Append(a, p)  BY AppendProperties
  <2>7. ps = Append(b, q) /\ ps # <<>>  BY <2>1, <2>6, AppendProperties
  <2>8. p \in Solid /\ q \in Solid /\ r.sections = p.sections \o q.sections  BY <2>3, MergedFacts DEF Joins
  <2>9. p \in PageType /\ q \in PageType /\ r \in PageType /\ a \in Seq(PageType) /\ b \in Seq(PageType)
    <3>1. S \subseteq PageType  BY SolidPages DEF Joins
    <3> QED BY <3>1, SeqMonotonic
  <2>10. AllSections(Append(a, r)) = AllSections(a) \o r.sections  BY <2>9, AllSectionsFacts
  <2>11. AllSections(ps) = AllSections(b) \o q.sections  BY <2>7, <2>9, AllSectionsFacts
  <2>12. AllSections(b) = AllSections(a) \o p.sections  BY <2>6, <2>9, AllSectionsFacts
  <2>13. AllSections(a) \in Seq(Section) /\ p.sections \in Seq(Section) /\ q.sections \in Seq(Section)
    BY <2>9, AllSectionsFacts, PageSectionsType
  <2>14. (AllSections(a) \o p.sections) \o q.sections = AllSections(a) \o (p.sections \o q.sections)  BY <2>13, SectionsAssoc, ZenonT(60)
  <2> QED BY <2>4, <2>5, <2>7, <2>8, <2>10, <2>11, <2>12, <2>14
<1> QED BY <1>1, <1>2

(* ---- the finished pages ------------------------------------------------- *)

LEMMA MinOfSet ==
  ASSUME NEW n \in Nat, NEW I \in SUBSET (1..n), I # {}
  PROVE  Min(I) \in I
<1> DEFINE J == {n + 1 - k : k \in I}
<1>1. J \in SUBSET (1..n) /\ J # {}
  <2>1. \A k \in I : n + 1 - k \in 1..n /\ n + 1 - k \in J  OBVIOUS
  <2>2. \A x \in J : \E k \in I : x = n + 1 - k  OBVIOUS
  <2> HIDE DEF J
  <2> QED BY <2>1, <2>2
<1> HIDE DEF J
<1>2. Max(J) \in J /\ \A k \in J : k <= Max(J)  BY <1>1, MaxOfSet
<1>3. PICK i \in I : Max(J) = n + 1 - i  BY <1>2 DEF J
<1>4. \A k \in I : n + 1 - k <= n + 1 - i  BY <1>2, <1>3 DEF J
<1>5. \A k \in I : i <= k  BY <1>4
<1>6. \A x \in I : (\A y \in I : x <= y) => x = i  BY <1>5
<1> QED BY <1>5, <1>6 DEF Min

\* Finalize names a page after its first heading.
HeadingOf(p) ==
  LET i == SelectInSeq(p.sections, LAMBDA s : s.heading # <<>>)
  IN IF i = 0 THEN <<>> ELSE p.sections[i].heading

LEMMA HeadingOfType == ASSUME NEW p \in PageType PROVE HeadingOf(p) \in Text
<1> DEFINE I == {i \in 1..Len(p.sections) : p.sections[i].heading # <<>>}
<1>1. PICK x \in Seq(Section) : x = p.sections  BY PageSectionsType
<1>2. PICK n \in Nat : n = Len(x)  BY LenProperties
<1>3. HeadingOf(p) = LET i == IF I # {} THEN Min(I) ELSE 0 IN IF i = 0 THEN <<>> ELSE p.sections[i].heading
  BY DEF HeadingOf, SelectInSeq
<1>4. CASE I = {}  BY <1>3, <1>4, EmptyText
<1>5. CASE I # {}
  <2>1. I \in SUBSET (1..n)  BY <1>1, <1>2
  <2> HIDE DEF I
  <2>2. PICK i \in I : i = Min(I)  BY <1>5, <2>1, MinOfSet
  <2>3. i \in 1..n /\ i # 0  BY <2>1, <2>2
  <2>4. x[i] \in Section  BY <1>2, <2>3, ElementOfSeq
  <2>5. HeadingOf(p) = x[i].heading  BY <1>1, <1>3, <1>5, <2>2, <2>3
  <2> QED BY <2>4, <2>5, SectionParts
<1> QED BY <1>4, <1>5

Retitled(p) == [p EXCEPT !.topic = IF @ = <<>> THEN HeadingOf(p) ELSE @]

LEMMA RetitledFacts ==
  ASSUME NEW p \in Solid
  PROVE  /\ Retitled(p) \in Solid /\ Retitled(p).sections = p.sections /\ Retitled(p).continues = p.continues
<1>1. PICK x, t, u : x = p.sections /\ t = p.topic /\ u = IF t = <<>> THEN HeadingOf(p) ELSE t  OBVIOUS
<1>2. x \in Seq(Section) /\ x # <<>> /\ t \in Text /\ p.continues \in BOOLEAN /\ p \in PageType
      /\ p = Page(x, t, p.continues)
  BY <1>1 DEF Solid, PageType, Page
<1>3. u \in Text  BY <1>1, <1>2, HeadingOfType
<1>4. Retitled(p) = Page(x, u, p.continues)  BY <1>1, <1>2 DEF Retitled, Page
<1>5. /\ Page(x, u, p.continues) \in PageType /\ Page(x, u, p.continues).sections = x
      /\ Page(x, u, p.continues).continues = p.continues
  BY <1>2, <1>3, PageIs, ZenonT(60)
<1> QED BY <1>1, <1>2, <1>4, <1>5 DEF Solid

\* Pages get their topics and stay what they are.
LEMMA FinalizeFacts ==
  ASSUME NEW ps \in Seq(Solid), ps # <<>>
  PROVE  /\ Finalize(ps) \in Seq(Solid) /\ Len(Finalize(ps)) = Len(ps) /\ DOMAIN Finalize(ps) = DOMAIN ps
         /\ \A i \in DOMAIN ps : /\ Finalize(ps)[i].sections = ps[i].sections
                                 /\ Finalize(ps)[i].continues = ps[i].continues
         /\ AllSections(Finalize(ps)) = AllSections(ps)
<1>1. PICK n \in Nat : n = Len(ps) /\ DOMAIN ps = 1..n  BY LenProperties
<1>2. PICK f : f = Finalize(ps)  OBVIOUS
<1>3. f = [i \in 1..n |-> Retitled(ps[i])]  BY <1>1, <1>2 DEF Finalize, Retitled, HeadingOf
<1>4. \A i \in 1..n : ps[i] \in Solid  BY <1>1, ElementOfSeq
<1>5. \A i \in 1..n : f[i] = Retitled(ps[i]) /\ f[i] \in Solid /\ f[i].sections = ps[i].sections /\ f[i].continues = ps[i].continues
  BY <1>3, <1>4, RetitledFacts
<1>6. f = [i \in 1..n |-> f[i]]  BY <1>3
<1>7. f \in Seq(Solid) /\ Len(f) = n /\ DOMAIN f = 1..n  BY <1>5, <1>6, SeqBy
<1>8. AllSections(f) = AllSections(ps)
  <2>1. [k \in DOMAIN f |-> f[k].sections] = [k \in DOMAIN ps |-> ps[k].sections]  BY <1>1, <1>5, <1>7
  <2> QED BY <2>1 DEF AllSections
<1> QED BY <1>1, <1>2, <1>5, <1>7, <1>8

\* What each profile drops, and what it promises of its pages.
DropsIn(profile, s) == Drops4(s) /\ (profile = "messenger_card" => Len(SectionLines(s)) > Budget)

FitsProfile(profile, splits, p) ==
  IF profile = "messenger_card" THEN p \in PagesOfLines(splits) ELSE p \in Pages4

(* What _paginate promises of every reading, by either profile.                *)
LEMMA PaginateFacts ==
  ASSUME NEW profile, NEW ss \in Seq(TitledSection), NEW splits \in BOOLEAN, NEW ps, NEW written,
         ps = PaginateAnalysis(profile, ss, splits), written = Only(ss, {s \in TitledSection : ~DropsIn(profile, s)})
  PROVE  /\ ps \in Seq(Solid) /\ ps # <<>>
         /\ \A k \in DOMAIN ps : FitsProfile(profile, splits, ps[k])
         /\ IF written = <<>> THEN ps = <<Placeholder>> ELSE AllText(AllSections(ps)) = AllText(written)
<1> DEFINE S == IF profile = "messenger_card" THEN PagesOfLines(splits) ELSE Pages4
           q == IF profile = "messenger_card" THEN PaginateByPixels(ss, splits) ELSE PaginateByChars(ss)
<1>1. q \in Seq(S) /\ PagesText(q) = AllText(written) /\ (q = <<>> <=> written = <<>>) /\ S \subseteq Solid
  <2>1. CASE profile = "messenger_card"
    <3>1. {s \in TitledSection : ~DropsIn(profile, s)} = {s \in TitledSection : ~DropsOfLines(s)}
      BY <2>1 DEF DropsIn, DropsOfLines
    <3>2. PICK K : K = PagesOfLines(splits)  OBVIOUS
    <3>3. Joins(K) /\ K \subseteq Solid  BY <3>2, PagesOfLinesJoin DEF Joins
    <3>4. PICK a : a = Flush(PackedByPixels(ss, splits)).pages  OBVIOUS
    <3>5. a \in Seq(K) /\ PagesText(a) = AllText(written) /\ (a = <<>> <=> written = <<>>)
      <4>1. written = Only(ss, {s \in TitledSection : ~DropsOfLines(s)})  BY <3>1
      <4> QED BY <3>2, <3>4, <4>1, PackedPagesOfLines
    <3>6. PICK b \in Seq(K) : b = MergeUnderfilled(a) /\ AllSections(b) = AllSections(a) /\ (b = <<>> <=> a = <<>>)
      BY <3>3, <3>5, MergeUnderfilledFacts
    <3>7. PICK c \in Seq(K) : c = MergeTrailingShortPage(b) /\ AllSections(c) = AllSections(b) /\ (c = <<>> <=> b = <<>>)
      BY <3>3, <3>6, MergeTrailingFacts
    <3>8. q = c  BY <2>1, <3>4, <3>6, <3>7 DEF PaginateByPixels
    <3>9. PagesText(c) = PagesText(a)  BY <3>6, <3>7 DEF PagesText
    <3>10. S = K  BY <2>1, <3>2
    <3> QED BY <3>3, <3>5, <3>6, <3>7, <3>8, <3>9, <3>10
  <2>2. CASE profile # "messenger_card"
    <3>1. {s \in TitledSection : ~DropsIn(profile, s)} = {s \in TitledSection : ~Drops4(s)}
      BY <2>2 DEF DropsIn
    <3>2. written = Only(ss, {s \in TitledSection : ~Drops4(s)})  BY <3>1
    <3>3. /\ PaginateByChars(ss) \in Seq(Pages4)
          /\ PagesText(PaginateByChars(ss)) = AllText(written)
          /\ PaginateByChars(ss) = <<>> <=> written = <<>>
      BY <3>2, PaginateByCharsFacts
    <3>4. Pages4 \subseteq Solid  BY DEF Pages4
    <3> QED BY <2>2, <3>3, <3>4
  <2> QED BY <2>1, <2>2
<1>2. ps = Finalize(q)  BY DEF PaginateAnalysis
<1>3. \A p \in Solid : p \in S <=> FitsProfile(profile, splits, p)  BY DEF FitsProfile
<1>4. ASSUME NEW p \in Solid, NEW r \in S, p.sections = r.sections, p.continues = r.continues PROVE p \in S
  BY <1>4 DEF Pages4, PagesOfLines
<1> HIDE DEF S, q
<1>5. CASE q = <<>>
  <2>1. ps = <<Placeholder>> /\ written = <<>>  BY <1>1, <1>2, <1>5 DEF Finalize
  <2>2. Placeholder \in Solid /\ FitsProfile(profile, splits, Placeholder)
    <3>1. Placeholder \in Solid /\ Height(Placeholder.sections) <= Budget /\ CharCount(Placeholder.sections) <= MaxChars
          /\ Placeholder.continues = FALSE
      BY PlaceholderFacts
    <3> QED BY <3>1 DEF FitsProfile, Pages4, PagesOfLines
  <2>3. <<Placeholder>> \in Seq(Solid) /\ <<Placeholder>> # <<>> /\ DOMAIN <<Placeholder>> = {1} /\ <<Placeholder>>[1] = Placeholder
    BY <2>2, OneOf
  <2> QED BY <2>1, <2>2, <2>3
<1>6. CASE q # <<>>
  <2>1. q \in Seq(Solid)  BY <1>1, SeqMonotonic
  <2>2. /\ ps \in Seq(Solid) /\ Len(ps) = Len(q) /\ DOMAIN ps = DOMAIN q
        /\ \A i \in DOMAIN q : ps[i].sections = q[i].sections /\ ps[i].continues = q[i].continues
        /\ AllSections(ps) = AllSections(q)
    BY <1>2, <1>6, <2>1, FinalizeFacts
  <2>3. ps # <<>>
    <3>1. Len(q) # 0  BY <1>6, <2>1, EmptySeq
    <3> QED BY <2>2, <3>1, EmptySeq
  <2>4. ASSUME NEW k \in DOMAIN ps PROVE FitsProfile(profile, splits, ps[k])
    <3>1. k \in 1..Len(q) /\ k \in 1..Len(ps)  BY <2>1, <2>2, LenProperties
    <3>2. ps[k] \in Solid /\ q[k] \in S  BY <1>1, <2>2, <3>1, ElementOfSeq
    <3>3. ps[k].sections = q[k].sections /\ ps[k].continues = q[k].continues  BY <2>2
    <3> QED BY <1>3, <1>4, <3>2, <3>3
  <2> QED BY <1>1, <1>6, <2>2, <2>3, <2>4 DEF PagesText
<1> QED BY <1>5, <1>6

(* ---- drawing ------------------------------------------------------------ *)

\* As many lines as there is room for.
Top(a, n) == SubSeq(a, 1, Min({Len(a), n}))

LEMMA TopFacts ==
  ASSUME NEW a \in Seq(Text), NEW n \in Nat
  PROVE  /\ Top(a, n) \in Seq(Text)
         /\ Len(a) <= n => Top(a, n) = a
         /\ ~(Len(a) <= n) => Len(Top(a, n)) = n
         /\ \A i \in 1..Len(Top(a, n)) : Top(a, n)[i] = a[i]
<1>1. PICK l \in Nat : l = Len(a)  BY LenProperties
<1>2. PICK m \in Nat : m = Min({l, n}) /\ m = IF l <= n THEN l ELSE n  BY <1>1, MinOfTwo
<1>3. m <= l /\ (l <= n => m = l) /\ (~(l <= n) => m = n)  BY <1>2
<1>4. PICK t : t = SubSeq(a, 1, m)  OBVIOUS
<1>5. t \in Seq(Text) /\ Len(t) = m /\ \A i \in 1..m : t[i] = a[i]
  <2>1. \A i \in 1..m : i \in 1..l  BY <1>3
  <2>2. \A i \in 1..m : a[i] \in Text  BY <1>1, <2>1, ElementOfSeq
  <2>3. 1 \in Int /\ m \in Int /\ m - 1 + 1 = m  BY <1>2
  <2>4. /\ t \in Seq(Text) /\ Len(t) = IF 1 <= m THEN m - 1 + 1 ELSE 0
        /\ \A i \in 1..m-1+1 : t[i] = a[1 + i - 1]
    BY <1>4, <2>2, <2>3, SubSeqProperties
  <2>5. Len(t) = m  BY <1>2, <2>4
  <2>6. ASSUME NEW i \in 1..m PROVE t[i] = a[i]
    <3>1. 1 + i - 1 = i  OBVIOUS
    <3>2. t[i] = a[1 + i - 1]  BY <2>3, <2>4
    <3> QED BY <3>1, <3>2
  <2> QED BY <2>4, <2>5, <2>6
<1>6. t = Top(a, n)  BY <1>1, <1>2, <1>4 DEF Top
<1>7. l <= n => t = a
  <2>1. SUFFICES ASSUME l <= n PROVE t = a  OBVIOUS
  <2>2. Len(t) = Len(a) /\ \A i \in 1..Len(t) : t[i] = a[i]  BY <1>1, <1>3, <1>5, <2>1
  <2> QED BY <1>5, <2>2, SeqEqual
<1> QED BY <1>1, <1>3, <1>5, <1>6, <1>7

\* Where the first part fills the room, nothing of the second is drawn.
LEMMA TopConcat ==
  ASSUME NEW a \in Seq(Text), NEW b \in Seq(Text), NEW n \in Nat
  PROVE  /\ ~(Len(Top(a, n)) + 1 > n) => Top(a, n) = a
         /\ Len(Top(a, n)) + 1 > n => Top(a \o b, n) = Top(a, n)
         /\ Top(a, n) \o Fitting(b, Len(Top(a, n)), n) = Top(a \o b, n)
<1>1. PICK k \in Nat, l \in Nat : k = Len(a) /\ l = Len(b)  BY LenProperties
<1>2. PICK c \in Seq(Text) : c = a \o b /\ Len(c) = k + l  BY <1>1, ConcatProperties
<1>3. \A i \in 1..k+l : c[i] = IF i <= k THEN a[i] ELSE b[i - k]  BY <1>1, <1>2, ConcatProperties
<1>4. PICK t \in Seq(Text) : t = Top(a, n)  BY TopFacts
<1>5. PICK u \in Seq(Text) : u = Top(c, n)  BY TopFacts
<1>6. PICK x \in Nat, y \in Nat : x = Len(t) /\ y = Len(u)  BY LenProperties
<1>7. /\ k <= n => t = a /\ x = k
      /\ ~(k <= n) => x = n
      /\ \A i \in 1..x : t[i] = a[i]
  <2>1. /\ Len(a) <= n => Top(a, n) = a
        /\ ~(Len(a) <= n) => Len(Top(a, n)) = n
        /\ \A i \in 1..Len(Top(a, n)) : Top(a, n)[i] = a[i]
    BY TopFacts
  <2>a. (k <= n => t = a) /\ (~(k <= n) => Len(t) = n) /\ \A i \in 1..Len(t) : t[i] = a[i]
    BY <1>1, <1>4, <1>6, <2>1
  <2>b. k <= n => x = k
    BY <2>a, <1>1, <1>4, <1>6, <2>1
  <2>c. ~(k <= n) => x = n
    BY <2>a, <1>1, <1>4, <1>6, <2>1
  <2>d. \A i \in 1..x : t[i] = a[i]
    BY <2>a, <1>1, <1>4, <1>6, <2>1
  <2> QED BY <2>a, <2>b, <2>c, <2>d
<1>8. /\ k + l <= n => u = c /\ y = k + l
      /\ ~(k + l <= n) => y = n
      /\ \A i \in 1..y : u[i] = c[i]
  <2>1. /\ Len(c) <= n => Top(c, n) = c
        /\ ~(Len(c) <= n) => Len(Top(c, n)) = n
        /\ \A i \in 1..Len(Top(c, n)) : Top(c, n)[i] = c[i]
    BY TopFacts
  <2>a. (k + l <= n => u = c) /\ (~(k + l <= n) => Len(u) = n) /\ \A i \in 1..Len(u) : u[i] = c[i]
    BY <1>2, <1>5, <1>6, <2>1
  <2>b. k + l <= n => y = k + l
    BY <2>a, <1>2, <1>5, <1>6, <2>1
  <2>c. ~(k + l <= n) => y = n
    BY <2>a, <1>2, <1>5, <1>6, <2>1
  <2>d. \A i \in 1..y : u[i] = c[i]
    BY <2>a, <1>2, <1>5, <1>6, <2>1
  <2> QED BY <2>a, <2>b, <2>c, <2>d
<1>9. ~(x + 1 > n) => t = a
  <2>1. ~(x + 1 > n) => k <= n  BY <1>7
  <2> QED BY <1>7, <2>1
<1>10. k >= n => u = t
  <2>1. SUFFICES ASSUME k >= n PROVE u = t  OBVIOUS
  <2>2. x = n  BY <1>7, <2>1
  <2>3. y = n  BY <1>8, <2>1
  <2>4. ASSUME NEW i \in 1..n PROVE u[i] = t[i]
    <3>1. i \in 1..k+l /\ i <= k  BY <2>1
    <3> QED BY <1>3, <1>7, <1>8, <2>2, <2>3, <3>1
  <2> QED BY <1>6, <2>2, <2>3, <2>4, SeqEqual
<1>11. x + 1 > n => u = t
  <2>1. x + 1 > n => k >= n  BY <1>7
  <2> QED BY <1>10, <2>1
<1>12. PICK f \in Seq(Text) : f = Fitting(b, x, n) /\ f = IF n - x <= 0 THEN <<>> ELSE Top(b, n - x)
  <2>1. Fitting(b, x, n) = SubSeq(b, 1, Min({l, n - x}))  BY <1>1 DEF Fitting
  <2>2. CASE n - x <= 0
    <3>1. Min({l, n - x}) = IF l <= n - x THEN l ELSE n - x  BY MinOfTwo
    <3>2. Min({l, n - x}) <= 0 /\ Min({l, n - x}) \in Int  BY <2>2, <3>1
    <3>3. SubSeq(b, 1, Min({l, n - x})) = <<>>
      <4>1. PICK m \in Int : m = Min({l, n - x}) /\ m < 1  BY <3>2
      <4> QED BY <4>1, SubSeqEmpty
    <3> QED BY <2>1, <2>2, <3>3, EmptySeq
  <2>3. CASE ~(n - x <= 0)
    <3>1. n - x \in Nat  BY <2>3
    <3>2. Top(b, n - x) \in Seq(Text)  BY <3>1, TopFacts
    <3> QED BY <1>1, <2>1, <2>3, <3>2 DEF Top
  <2> QED BY <2>2, <2>3
<1>13. t \o f = u
  <2>1. CASE k >= n
    <3>1. x = n  BY <1>7, <2>1
    <3>2. f = <<>>  BY <1>12, <3>1
    <3>3. t \o <<>> = t  BY ConcatEmptySeq
    <3> QED BY <1>10, <2>1, <3>2, <3>3
  <2>2. CASE ~(k >= n)
    <3>1. t = a /\ x = k  BY <1>7, <2>2
    <3>2. PICK m \in Nat : m = n - x /\ m = n - k /\ m > 0  BY <2>2, <3>1
    <3>3. f = Top(b, m)  BY <1>12, <3>2
    <3>4. PICK z \in Nat : z = Len(f)  BY LenProperties
    <3>5. /\ l <= m => f = b /\ z = l
          /\ ~(l <= m) => z = m
          /\ \A i \in 1..z : f[i] = b[i]
      <4>1. /\ Len(b) <= m => Top(b, m) = b
            /\ ~(Len(b) <= m) => Len(Top(b, m)) = m
            /\ \A i \in 1..Len(Top(b, m)) : Top(b, m)[i] = b[i]
        BY TopFacts
      <4>a. (l <= m => f = b) /\ (~(l <= m) => Len(f) = m) /\ \A i \in 1..Len(f) : f[i] = b[i]
    BY <1>1, <3>3, <3>4, <4>1
      <4>b. l <= m => z = l
    BY <4>a, <1>1, <3>3, <3>4, <4>1
      <4>c. ~(l <= m) => z = m
    BY <4>a, <1>1, <3>3, <3>4, <4>1
      <4>d. \A i \in 1..z : f[i] = b[i]
    BY <4>a, <1>1, <3>3, <3>4, <4>1
      <4> QED BY <4>a, <4>b, <4>c, <4>d
    <3>6. k + z = y /\ z <= l
      <4>1. CASE l <= m  BY <1>8, <3>2, <3>5, <4>1
      <4>2. CASE ~(l <= m)  BY <1>8, <3>2, <3>5, <4>2
      <4> QED BY <4>1, <4>2
    <3>7. /\ t \o f \in Seq(Text) /\ Len(t \o f) = k + z
          /\ \A i \in 1..k+z : (t \o f)[i] = IF i <= k THEN t[i] ELSE f[i - k]
      <4>1. /\ t \o f \in Seq(Text) /\ Len(t \o f) = Len(t) + Len(f)
            /\ \A i \in 1..Len(t)+Len(f) : (t \o f)[i] = IF i <= Len(t) THEN t[i] ELSE f[i - Len(t)]
        BY ConcatProperties
      <4>2. Len(t) = k /\ Len(f) = z  BY <1>6, <3>1, <3>4
      <4> QED BY <4>1, <4>2
    <3>8. ASSUME NEW i \in 1..y PROVE (t \o f)[i] = u[i]
      <4>1. i \in 1..k+z /\ i \in 1..k+l  BY <3>6
      <4>2. u[i] = c[i]  BY <1>8
      <4>3. CASE i <= k  BY <1>3, <3>1, <3>7, <4>1, <4>2, <4>3
      <4>4. CASE ~(i <= k)
        <5>1. i - k \in 1..z  BY <3>6, <4>4
        <5>2. f[i - k] = b[i - k]  BY <3>5, <5>1
        <5> QED BY <1>3, <3>7, <4>1, <4>2, <4>4, <5>2
      <4> QED BY <4>3, <4>4
    <3> QED BY <1>6, <3>6, <3>7, <3>8, SeqEqual
  <2> QED BY <2>1, <2>2
<1> QED BY <1>2, <1>4, <1>5, <1>6, <1>9, <1>11, <1>12, <1>13

\* One section more under what is drawn.
Drawing(drawn, s, space) ==
  IF Len(drawn) + 1 > space THEN drawn
  ELSE LET titled == drawn \o Fitting(Lines(s.heading), Len(drawn), space)
       IN titled \o Fitting(Lines(Clean(s.body)), Len(titled), space)

LEMMA DrawingFacts ==
  ASSUME NEW a \in Seq(Text), NEW s \in Section, NEW n \in Nat
  PROVE  Drawing(Top(a, n), s, n) = Top(a \o SectionLines(s), n)
<1>1. PICK h \in Seq(Text), b \in Seq(Text) : h = Lines(s.heading) /\ b = Lines(Clean(s.body)) /\ SectionLines(s) = h \o b
  BY SectionParts DEF SectionLines
<1>2. PICK t : t = Top(a, n)  OBVIOUS
<1>3. CASE Len(t) + 1 > n
  <2>1. h \o b \in Seq(Text)  BY ConcatProperties
  <2>2. Top(a \o (h \o b), n) = t  BY <1>2, <1>3, <2>1, TopConcat
  <2> QED BY <1>1, <1>2, <1>3, <2>2 DEF Drawing
<1>4. CASE ~(Len(t) + 1 > n)
  <2>1. PICK u : u = t \o Fitting(h, Len(t), n)  OBVIOUS
  <2>2. u = Top(a \o h, n)  BY <1>2, <2>1, TopConcat
  <2>3. a \o h \in Seq(Text)  BY ConcatProperties
  <2>4. u \o Fitting(b, Len(u), n) = Top((a \o h) \o b, n)  BY <2>2, <2>3, TopConcat
  <2>5. (a \o h) \o b = a \o (h \o b)  BY ConcatAssociative
  <2>6. Drawing(t, s, n) = u \o Fitting(b, Len(u), n)  BY <1>1, <1>4, <2>1 DEF Drawing
  <2> QED BY <1>1, <1>2, <2>4, <2>5, <2>6
<1> QED BY <1>3, <1>4

\* Section after section under a title.
Drawn(base, ss, space) == FoldLeft(LAMBDA drawn, s : Drawing(drawn, s, space), base, ss)

LEMMA FittingType ==
  ASSUME NEW b \in Seq(Text), NEW x \in Nat, NEW n \in Nat
  PROVE  Fitting(b, x, n) \in Seq(Text)
<1>1. PICK l \in Nat : l = Len(b)  BY LenProperties
<1>2. PICK m \in Int : m = Min({l, n - x}) /\ m <= l
  <2>1. Min({l, n - x}) = IF l <= n - x THEN l ELSE n - x  BY MinOfTwo
  <2> QED BY <2>1
<1>3. Fitting(b, x, n) = SubSeq(b, 1, m)  BY <1>1, <1>2 DEF Fitting
<1>4. \A i \in 1..m : b[i] \in Text
  <2>1. \A i \in 1..m : i \in 1..l  BY <1>2
  <2> QED BY <1>1, <2>1, ElementOfSeq
<1> QED BY <1>3, <1>4, SubSeqProperties

LEMMA DrawingType ==
  ASSUME NEW n \in Nat, NEW d \in Seq(Text), NEW s \in Section
  PROVE  Drawing(d, s, n) \in Seq(Text)
<1>1. PICK h \in Seq(Text), b \in Seq(Text) : h = Lines(s.heading) /\ b = Lines(Clean(s.body))  BY SectionParts
<1>2. PICK x \in Nat : x = Len(d)  BY LenProperties
<1>3. PICK u \in Seq(Text) : u = d \o Fitting(h, Len(d), n)
  <2>1. Fitting(h, x, n) \in Seq(Text)  BY FittingType
  <2> QED BY <1>2, <2>1, ConcatProperties
<1>4. PICK y \in Nat : y = Len(u)  BY LenProperties
<1>5. Fitting(b, y, n) \in Seq(Text)  BY FittingType
<1>6. u \o Fitting(b, Len(u), n) \in Seq(Text)  BY <1>4, <1>5, ConcatProperties
<1> QED BY <1>1, <1>3, <1>6 DEF Drawing

LEMMA DrawnFold ==
  ASSUME NEW n \in Nat, NEW base \in Seq(Text)
  PROVE  /\ Drawn(base, <<>>, n) = base
         /\ \A t \in Seq(Section) : Drawn(base, t, n) \in Seq(Text)
         /\ \A t \in Seq(Section), x \in Section : Drawn(base, Append(t, x), n) = Drawing(Drawn(base, t, n), x, n)
<1> DEFINE Op(a, x) == Drawing(a, x, n)
           step == [p \in Seq(Text) \X Section |-> Op(p[1], p[2])]
           H == [t \in Seq(Section) |-> Drawn(base, t, n)]
<1>1. Stepping(Seq(Text), Section, base, step)
  BY DrawingType DEF Stepping
<1>2. \A a \in Seq(Text), x \in Section : step[<<a, x>>] = Op(a, x)  OBVIOUS
<1> HIDE DEF step
<1>3. ASSUME NEW t \in Seq(Section) PROVE \E g : Folds(g, t, Seq(Text), base, step) /\ H[t] = g[DOMAIN t]
  <2> DEFINE Body(g) == [T \in SUBSET DOMAIN t |-> IF T = {} THEN base ELSE Op(g[T \ {Max(T)}], t[Max(T)])]
             iter == CHOOSE g : g = Body(g)
  <2>1. PICK g : Solved(g, t, Seq(Text), Section, base, step)  BY <1>1, FoldSolved
  <2>2. g = Body(g)  BY <1>2, <2>1 DEF Solved
  <2>3. iter = Body(iter)  BY <2>2
  <2>4. Drawn(base, t, n) = iter[DOMAIN t]  BY DEF Drawn, FoldLeft, MapThenFoldSet
  <2> HIDE DEF iter
  <2>5. Folds(iter, t, Seq(Text), base, step)  BY <2>3, <1>2, <2>1, ZenonT(60) DEF Folds, Solved
  <2> QED BY <2>4, <2>5
<1>4. \A t \in Seq(Section) : H[t] = Drawn(base, t, n)  OBVIOUS
<1> HIDE DEF H, Op
<1>5. Computed(H, Seq(Text), Section, base, step)
  <2>1. Folding(H, Seq(Text), Section, base, step)  BY <1>1, <1>3 DEF Folding
  <2> QED BY <2>1, FoldFacts
<1>6. Drawn(base, <<>>, n) = base /\ \A t \in Seq(Section) : Drawn(base, t, n) \in Seq(Text)  BY <1>4, <1>5, EmptySeq DEF Computed
<1>7. ASSUME NEW t \in Seq(Section), NEW x \in Section PROVE Drawn(base, Append(t, x), n) = Op(Drawn(base, t, n), x)
  <2>1. Append(t, x) \in Seq(Section)  BY AppendProperties
  <2>2. H[Append(t, x)] = step[<<H[t], x>>] /\ H[t] \in Seq(Text)  BY <1>5 DEF Computed
  <2> QED BY <1>2, <1>4, <2>1, <2>2
<1> QED BY <1>6, <1>7 DEF Op

\* What is drawn is the top of the title and the lines of the sections.
LEMMA DrawnFacts ==
  ASSUME NEW n \in Nat, NEW title \in Seq(Text)
  PROVE  \A ss \in Seq(Section) : Drawn(Top(title, n), ss, n) = Top(title \o AllLines(ss), n)
<1>0. PICK base \in Seq(Text) : base = Top(title, n)  BY TopFacts
<1> DEFINE P == {ss \in Seq(Section) : Drawn(base, ss, n) = Top(title \o AllLines(ss), n)}
<1>1. <<>> \in P
  <2>1. Drawn(base, <<>>, n) = base  BY DrawnFold
  <2>2. title \o <<>> = title  BY ConcatEmptySeq
  <2> QED BY <1>0, <2>1, <2>2, AllLinesFacts, EmptySeq
<1>2. ASSUME NEW ss \in Seq(Section), NEW s \in Section, ss \in P PROVE Append(ss, s) \in P
  <2>1. PICK d : d = Drawn(base, ss, n)  OBVIOUS
  <2>2. Drawn(base, Append(ss, s), n) = Drawing(d, s, n)  BY <2>1, DrawnFold
  <2>3. PICK x \in Seq(Text), y \in Seq(Text) : x = AllLines(ss) /\ y = SectionLines(s)  BY AllLinesFacts, SectionLinesType
  <2>4. d = Top(title \o x, n)  BY <1>2, <2>1, <2>3
  <2>5. title \o x \in Seq(Text)  BY ConcatProperties
  <2>6. Drawing(d, s, n) = Top((title \o x) \o y, n)  BY <2>3, <2>4, <2>5, DrawingFacts
  <2>7. (title \o x) \o y = title \o (x \o y)  BY ConcatAssociative
  <2>8. AllLines(Append(ss, s)) = x \o y  BY <2>3, AllLinesFacts
  <2>9. Append(ss, s) \in Seq(Section)  BY AppendProperties
  <2> QED BY <2>2, <2>6, <2>7, <2>8, <2>9
<1> HIDE DEF P
<1>3. \A ss \in Seq(Section) : ss \in P  BY <1>1, <1>2, SeqInd
<1> QED BY <1>0, <1>3 DEF P

LEMMA DrawSectionsFacts ==
  ASSUME NEW p \in PageType, NEW n \in Nat, TitleLines(p) \in Seq(Text)
  PROVE  /\ DrawSections(p, n) \in Seq(Text)
         /\ IsPrefix(DrawSections(p, n), TitleLines(p) \o AllLines(p.sections))
         /\ Len(TitleLines(p) \o AllLines(p.sections)) <= n => DrawSections(p, n) = TitleLines(p) \o AllLines(p.sections)
<1>1. PICK title \in Seq(Text) : title = TitleLines(p)  OBVIOUS
<1>2. PICK ss \in Seq(Section) : ss = p.sections  BY PageSectionsType
<1>3. Fitting(title, 0, n) = Top(title, n)
  <2>1. n - 0 = n  OBVIOUS
  <2> QED BY <2>1 DEF Fitting, Top
<1>4. DrawSections(p, n) = Drawn(Fitting(TitleLines(p), 0, n), p.sections, n)  BY DEF DrawSections, Drawn, Drawing
<1>5. PICK all \in Seq(Text) : all = title \o AllLines(ss)  BY AllLinesFacts, ConcatProperties
<1>6. DrawSections(p, n) = Top(all, n)  BY <1>1, <1>2, <1>3, <1>4, <1>5, DrawnFacts
<1>7. PICK t \in Seq(Text) : t = Top(all, n) /\ (Len(all) <= n => t = all) /\ \A i \in 1..Len(t) : t[i] = all[i]
  BY TopFacts
<1>8. Len(t) <= Len(all)
  <2>1. PICK a \in Nat, b \in Nat : a = Len(all) /\ b = Len(t)  BY LenProperties
  <2>2. ~(a <= n) => b = n  BY <1>7, <2>1, TopFacts
  <2>3. a <= n => b = a  BY <1>7, <2>1
  <2> QED BY <2>1, <2>2, <2>3
<1>9. SubSeq(t, 1, Len(t)) = SubSeq(all, 1, Len(t))
  <2>1. SubSeq(t, 1, Len(t)) = t  BY WholeSeq
  <2>2. PICK m \in Nat, a \in Nat : m = Len(t) /\ a = Len(all) /\ m <= a  BY <1>8, LenProperties
  <2>3. 1 \in Pos /\ 1 <= m + 1  BY <2>2 DEF Pos
  <2>4. SubSeq(all, 1, m) \in Seq(Text) /\ Len(SubSeq(all, 1, m)) = m - 1 + 1  BY <2>2, <2>3, CutSeq
  <2>5. Len(SubSeq(all, 1, m)) = m  BY <2>2, <2>4
  <2>6. \A i \in 1..m : SubSeq(all, 1, m)[i] = all[i]
    <3>1. \A i \in 1..m : all[i] \in Text
      <4>1. \A i \in 1..m : i \in 1..a  BY <2>2
      <4> QED BY <2>2, <4>1, ElementOfSeq
    <3>2. 1 \in Int /\ m \in Int /\ m - 1 + 1 = m  BY <2>2
    <3>3. \A i \in 1..m-1+1 : SubSeq(all, 1, m)[i] = all[1 + i - 1]  BY <3>1, <3>2, SubSeqProperties
    <3>4. \A i \in 1..m : 1 + i - 1 = i  OBVIOUS
    <3> QED BY <3>2, <3>3, <3>4
  <2>7. SubSeq(all, 1, m) = t  BY <1>7, <2>2, <2>4, <2>5, <2>6, SeqEqual
  <2> QED BY <2>1, <2>2, <2>7
<1>10. IsPrefix(t, all)  BY <1>8, <1>9 DEF IsPrefix
<1> QED BY <1>1, <1>2, <1>5, <1>6, <1>7, <1>10

(* ---- a reading on its way ----------------------------------------------- *)

\* Sets that agree on a sequence keep the same of it.
LEMMA OnlyAgree ==
  ASSUME NEW X, NEW S, NEW T
  PROVE  \A t \in Seq(X) : (\A i \in DOMAIN t : t[i] \in S <=> t[i] \in T) => Only(t, S) = Only(t, T)
<1> DEFINE P == {t \in Seq(X) : (\A i \in DOMAIN t : t[i] \in S <=> t[i] \in T) => Only(t, S) = Only(t, T)}
<1>1. <<>> \in P
  <2>1. Only(<<>>, S) = <<>> /\ Only(<<>>, T) = <<>>  BY OnlyFold
  <2> QED BY <2>1, EmptySeq
<1>2. ASSUME NEW t \in Seq(X), NEW x \in X, t \in P PROVE Append(t, x) \in P
  <2>1. PICK n \in Nat : n = Len(t) /\ DOMAIN t = 1..n  BY LenProperties
  <2>0. PICK u : u = Append(t, x)  OBVIOUS
  <2>2. u \in Seq(X) /\ u = Append(t, x) /\ Len(u) = n + 1 /\ u[n + 1] = x /\ \A i \in 1..n : u[i] = t[i]
    <3>1. u \in Seq(X) /\ Len(u) = Len(t) + 1 /\ u[Len(t) + 1] = x /\ \A i \in 1..Len(t) : u[i] = t[i]
      BY <2>0, AppendProperties
    <3> QED BY <2>0, <2>1, <3>1
  <2>3. DOMAIN u = 1..n+1  BY <2>2, LenProperties
  <2>4. SUFFICES ASSUME \A i \in DOMAIN u : u[i] \in S <=> u[i] \in T PROVE Only(u, S) = Only(u, T)
    BY <2>2
  <2>5. \A i \in DOMAIN t : t[i] \in S <=> t[i] \in T
    <3>1. \A i \in 1..n : i \in 1..n+1  OBVIOUS
    <3> QED BY <2>1, <2>2, <2>3, <2>4, <3>1
  <2>6. Only(t, S) = Only(t, T)  BY <1>2, <2>5
  <2>7. x \in S <=> x \in T
    <3>1. n + 1 \in 1..n+1  OBVIOUS
    <3> QED BY <2>2, <2>3, <2>4, <3>1
  <2>8. Only(u, S) = IF x \in S THEN Append(Only(t, S), x) ELSE Only(t, S)  BY <2>2, OnlyStep
  <2>9. Only(u, T) = IF x \in T THEN Append(Only(t, T), x) ELSE Only(t, T)  BY <2>2, OnlyStep
  <2> QED BY <2>6, <2>7, <2>8, <2>9
<1> HIDE DEF P
<1>3. \A t \in Seq(X) : t \in P  BY <1>1, <1>2, SeqInd
<1> QED BY <1>3 DEF P

(* ---- a reading on its way ----------------------------------------------- *)

\* The pages are those that were cut of the reading.
CutInv == /\ Legible(reading)
          /\ pages = <<>> \/ pages = PaginateAnalysis(reading.profile, reading.sections, reading.splits)

LEMMA CutKept ==
  ASSUME NEW Readings, \A r \in Readings : Legible(r)
  PROVE  /\ CardsInit(Readings) => CutInv
         /\ CutInv /\ [CardsNext]_cardsVars => CutInv'
<1>1. CardsInit(Readings) => CutInv  BY DEF CardsInit, CutInv
<1>2. CutInv /\ [CardsNext]_cardsVars => CutInv'
  <2> SUFFICES ASSUME CutInv, [CardsNext]_cardsVars PROVE CutInv'  OBVIOUS
  <2>1. CASE Paginate  BY <2>1 DEF Paginate, CutInv
  <2>2. CASE RenderPage  BY <2>2 DEF RenderPage, CutInv
  <2>3. CASE SendTextFallback  BY <2>3 DEF SendTextFallback, CutInv
  <2>4. ASSUME NEW k, SkipCard(k) \/ PostCard(k) PROVE CutInv'
    BY <2>4 DEF SkipCard, PostCard, CutInv
  <2>5. CASE UNCHANGED cardsVars  BY <2>5 DEF cardsVars, CutInv
  <2> QED BY <2>1, <2>2, <2>3, <2>4, <2>5 DEF CardsNext
<1> QED BY <1>1, <1>2

LEMMA CutFacts ==
  ASSUME CutInv, NEW written, written = Only(reading.sections, {s \in Range(reading.sections) : ~Dropped(s)})
  PROVE  /\ pages \in Seq(Solid)
         /\ \A k \in DOMAIN pages : FitsProfile(reading.profile, reading.splits, pages[k])
         /\ pages # <<>> => IF written = <<>> THEN pages = <<Placeholder>> ELSE AllText(AllSections(pages)) = AllText(written)
<1>0. PICK profile : profile = reading.profile  OBVIOUS
<1>1. PICK ss \in Seq(TitledSection), splits \in BOOLEAN :
         ss = reading.sections /\ splits = reading.splits /\ profile = reading.profile
  BY <1>0 DEF CutInv, Legible
<1>2. CASE pages = <<>>
  <2>1. DOMAIN pages = 1..0  BY <1>2
  <2> QED BY <1>2, <2>1, EmptySeq
<1>3. CASE pages # <<>>
  <2>1. pages = PaginateAnalysis(profile, ss, splits)  BY <1>1, <1>3 DEF CutInv
  <2>2. PICK S, T : S = {s \in Range(ss) : ~Dropped(s)} /\ T = {s \in TitledSection : ~DropsIn(profile, s)}  OBVIOUS
  <2>3. \A i \in DOMAIN ss : ss[i] \in S <=> ss[i] \in T
    <3>1. ASSUME NEW i \in DOMAIN ss PROVE ss[i] \in S <=> ss[i] \in T
      <4>1. i \in 1..Len(ss)  BY LenProperties
      <4>2. ss[i] \in TitledSection /\ ss[i] \in Range(ss)  BY <4>1, ElementOfSeq DEF Range
      <4>3. Dropped(ss[i]) <=> DropsIn(profile, ss[i])  BY <1>1 DEF Dropped, DropsIn, Drops4
      <4> QED BY <2>2, <4>2, <4>3
    <3> QED BY <3>1
  <2>4. Only(ss, S) = Only(ss, T)  BY <2>3, OnlyAgree
  <2>5. written = Only(ss, {s \in TitledSection : ~DropsIn(profile, s)})  BY <1>1, <2>2, <2>4
  <2>6. PICK ps : ps = pages  OBVIOUS
  <2>7. /\ ps \in Seq(Solid) /\ ps # <<>>
        /\ \A k \in DOMAIN ps : FitsProfile(profile, splits, ps[k])
        /\ IF written = <<>> THEN ps = <<Placeholder>> ELSE AllText(AllSections(ps)) = AllText(written)
    BY <2>1, <2>5, <2>6, PaginateFacts
  <2> QED BY <1>1, <2>6, <2>7
<1> QED BY <1>2, <1>3

LEMMA CutType == CutInv => pages \in Seq(Solid)
<1> SUFFICES ASSUME CutInv PROVE pages \in Seq(Solid)  OBVIOUS
<1>1. PICK written : written = Only(reading.sections, {s \in Range(reading.sections) : ~Dropped(s)})  OBVIOUS
<1> QED BY <1>1, CutFacts

(* However long the texts, wide the lines, or full the cards: cut, flushed,     *)
(* split, merged forward and merged back (paginator.py), every letter of a      *)
(* reading is on exactly one page, in its order, but for long blank bodies.     *)
THEOREM NothingIsEverLost ==
  ASSUME NEW Readings, \A r \in Readings : Legible(r)
  PROVE  CardsInit(Readings) /\ [][CardsNext]_cardsVars => []NothingIsLost
<1>1. CardsInit(Readings) => CutInv  BY CutKept
<1>2. CutInv /\ [CardsNext]_cardsVars => CutInv'  BY CutKept
<1>3. CutInv => NothingIsLost
  <2> SUFFICES ASSUME CutInv PROVE NothingIsLost  OBVIOUS
  <2>1. PICK written : written = Only(reading.sections, {s \in Range(reading.sections) : ~Dropped(s)})  OBVIOUS
  <2>2. pages # <<>> => IF written = <<>> THEN pages = <<Placeholder>> ELSE AllText(AllSections(pages)) = AllText(written)
    BY <2>1, CutFacts
  <2> QED BY <2>1, <2>2 DEF NothingIsLost
<1> QED BY <1>1, <1>2, <1>3, PTL

(* No page of the "a4" profile is above its characters unless a chunk adopted a *)
(* list marker, no card is above its lines when it is measured again, and no    *)
(* list marker is left alone on a page that continues another.                  *)
THEOREM PagesAlwaysFit ==
  ASSUME NEW Readings, \A r \in Readings : Legible(r)
  PROVE  CardsInit(Readings) /\ [][CardsNext]_cardsVars => []PagesFit
<1>1. CardsInit(Readings) => CutInv  BY CutKept
<1>2. CutInv /\ [CardsNext]_cardsVars => CutInv'  BY CutKept
<1>3. CutInv => PagesFit
  <2> SUFFICES ASSUME CutInv PROVE PagesFit  OBVIOUS
  <2>1. \A k \in DOMAIN pages : FitsProfile(reading.profile, reading.splits, pages[k])
    <3>1. PICK written : written = Only(reading.sections, {s \in Range(reading.sections) : ~Dropped(s)})  OBVIOUS
    <3> QED BY <3>1, CutFacts
  <2>2. reading.splits \in BOOLEAN  BY DEF CutInv, Legible
  <2>3. ASSUME NEW k \in DOMAIN pages
        PROVE  /\ reading.profile = "a4" =>
                    CharCount(pages[k].sections) <= MaxChars \/ \E s \in Range(pages[k].sections) : Adopts(s.body)
               /\ reading.profile = "messenger_card" /\ reading.splits => Height(pages[k].sections) <= Budget
               /\ pages[k].continues /\ (reading.profile = "a4" \/ ~reading.splits) => ~IsMarker(pages[k].sections[1].body)
    <3>1. FitsProfile(reading.profile, reading.splits, pages[k])  BY <2>1
    <3>2. CASE reading.profile = "messenger_card"  BY <2>2, <3>1, <3>2 DEF FitsProfile, PagesOfLines
    <3>3. CASE reading.profile # "messenger_card"  BY <3>1, <3>3 DEF FitsProfile, Pages4
    <3> QED BY <3>2, <3>3
  <2> QED BY <2>3 DEF PagesFit, Adopts
<1> QED BY <1>1, <1>2, <1>3, PTL

\* The cards, their pages and their labels so far.
CardType == [drawn : Seq(Text), label : Seq(Nat)]

\* The inductive invariant: no more cards than pages, each of them true to its own.
ShownInv == /\ CutInv
            /\ cards \in Seq(CardType) /\ Len(cards) <= Len(pages)
            /\ CardsShowTheirPages

LEMMA TitleType ==
  ASSUME Legible(reading), NEW p \in PageType
  PROVE  TitleLines(p) \in Seq(Text)
<1>1. reading.focus \in Text /\ p.topic \in Text  BY DEF Legible, PageType
<1>2. CardTopic(p) \in Text  BY <1>1 DEF CardTopic
<1>3. Lines(CardTopic(p)) \in Seq(Text) /\ <<>> \in Seq(Text)  BY <1>2, LinesType, EmptySeq
<1> QED BY <1>3 DEF TitleLines

\* The label of a card, where all that are sent were asked for.
LEMMA PageLabelFacts ==
  ASSUME NEW k \in Nat, NEW n \in Nat, n = Len(pages), reading.sentTotal \in Nat
  PROVE  /\ PageLabel(k) \in Seq(Nat)
         /\ n > 1 /\ ToSend >= reading.sentTotal => PageLabel(k) = <<k, ToSend>>
<1>1. PICK s \in Nat : s = reading.sentTotal  OBVIOUS
<1>2. ToSend = IF s > 0 THEN Min({s, n}) ELSE n  BY <1>1 DEF ToSend
<1>3. Min({s, n}) = IF s <= n THEN s ELSE n  BY MinOfTwo
<1>4. PICK l : l = IF s > 0 THEN s ELSE n  OBVIOUS
<1>5. PageLabel(k) = IF n > 1 THEN <<k, l>> ELSE <<>>  BY <1>1, <1>4 DEF PageLabel
<1>6. l \in Nat  BY <1>4
<1>7. <<k, l>> \in Seq(Nat) /\ <<>> \in Seq(Nat)  BY <1>6
<1>8. ToSend >= s => ToSend = l  BY <1>2, <1>3, <1>4
<1> QED BY <1>1, <1>5, <1>7, <1>8

\* Drawing one page more leaves the cards before it as they are.
LEMMA ShownKept ==
  ASSUME NEW Readings, \A r \in Readings : Legible(r)
  PROVE  /\ CardsInit(Readings) => ShownInv
         /\ ShownInv /\ [CardsNext]_cardsVars => ShownInv'
<1>1. CardsInit(Readings) => ShownInv
  <2> SUFFICES ASSUME CardsInit(Readings) PROVE ShownInv  OBVIOUS
  <2>1. CutInv  BY CutKept
  <2>2. cards = <<>> /\ pages = <<>>  BY DEF CardsInit
  <2>3. cards \in Seq(CardType) /\ Len(cards) = 0 /\ DOMAIN cards = 1..0  BY <2>2, EmptySeq
  <2>4. Len(cards) <= Len(pages)  BY <2>2, <2>3
  <2>5. CardsShowTheirPages  BY <2>3 DEF CardsShowTheirPages
  <2> QED BY <2>1, <2>3, <2>4, <2>5 DEF ShownInv
<1>2. ShownInv /\ [CardsNext]_cardsVars => ShownInv'
  <2> SUFFICES ASSUME ShownInv, [CardsNext]_cardsVars PROVE ShownInv'  OBVIOUS
  <2>1. CutInv'  BY CutKept DEF ShownInv
  <2>2. ASSUME UNCHANGED <<reading, pages, cards, room>> PROVE ShownInv'
    <3>1. (cards \in Seq(CardType) /\ Len(cards) <= Len(pages))'  BY <2>2 DEF ShownInv
    <3>2. CardsShowTheirPages'
      BY <2>2 DEF ShownInv, CardsShowTheirPages, TitleLines, CardTopic, ToSend
    <3> QED BY <2>1, <3>1, <3>2 DEF ShownInv
  <2>3. CASE Paginate
    <3>1. pages = <<>> /\ cards' = cards  BY <2>3 DEF Paginate
    <3>2. Len(pages) = 0 /\ Len(cards) \in Nat /\ Len(cards) <= Len(pages)  BY <3>1, LenProperties, EmptySeq DEF ShownInv
    <3>3. cards = <<>>
      <4>1. Len(cards) = 0  BY <3>2
      <4> QED BY <4>1, EmptySeq DEF ShownInv
    <3>4. pages' \in Seq(Solid)
      <4>2. (pages \in Seq(Solid))'  BY <2>1, CutType, PTL
      <4> QED BY <4>2
    <3>5. cards' = <<>> /\ DOMAIN cards' = 1..0 /\ Len(cards') = 0 /\ cards' \in Seq(CardType)  BY <3>1, <3>3, EmptySeq
    <3>6. Len(cards') <= Len(pages')  BY <3>4, <3>5, LenProperties
    <3>7. CardsShowTheirPages'  BY <3>5 DEF CardsShowTheirPages
    <3> QED BY <2>1, <3>5, <3>6, <3>7 DEF ShownInv
  <2>4. CASE RenderPage
    <3>1. PICK r \in Rooms : /\ cards' = Append(cards, [drawn |-> DrawSections(pages[Len(cards) + 1], r), label |-> PageLabel(Len(cards) + 1)])
                             /\ room' = r
      BY <2>4 DEF RenderPage
    <3>2. Len(cards) < Len(pages) /\ UNCHANGED <<reading, pages>>  BY <2>4 DEF RenderPage
    <3>3. PICK m \in Nat, n \in Nat : m = Len(cards) /\ n = Len(pages) /\ m < n
      <4>1. pages \in Seq(Solid)  BY CutType DEF ShownInv
      <4>2. Len(cards) \in Nat /\ Len(pages) \in Nat  BY <4>1, LenProperties DEF ShownInv
      <4> QED BY <3>2, <4>2
    <3>4. PICK p \in PageType : p = pages[m + 1]
      <4>1. m + 1 \in 1..n  BY <3>3
      <4>2. pages \in Seq(Solid)  BY CutType DEF ShownInv
      <4> QED BY <3>3, <4>1, <4>2, ElementOfSeq, SolidPages
    <3>5. Legible(reading)  BY DEF ShownInv, CutInv
    <3>6. r \in Nat /\ TitleLines(p) \in Seq(Text)  BY <3>5, TitleType, CardsAssumption
    <3>7. PICK d \in Seq(Text) : d = DrawSections(p, r)  BY <3>6, DrawSectionsFacts
    <3>8. /\ IsPrefix(d, TitleLines(p) \o AllLines(p.sections))
          /\ Len(TitleLines(p) \o AllLines(p.sections)) <= r => d = TitleLines(p) \o AllLines(p.sections)
      BY <3>6, <3>7, DrawSectionsFacts
    <3>9. PICK l \in Seq(Nat) : l = PageLabel(m + 1) /\ (n > 1 /\ ToSend >= reading.sentTotal => l = <<m + 1, ToSend>>)
      <4>1. reading.sentTotal \in Nat /\ m + 1 \in Nat  BY <3>5 DEF Legible
      <4> QED BY <3>3, <4>1, PageLabelFacts
    <3>10. PICK c \in CardType : c = [drawn |-> d, label |-> l]  BY DEF CardType
    <3>11. cards' = Append(cards, c)  BY <3>1, <3>3, <3>4, <3>7, <3>9, <3>10
    <3>12. cards \in Seq(CardType)  BY DEF ShownInv
    <3>13. /\ cards' \in Seq(CardType) /\ Len(cards') = m + 1 /\ cards'[m + 1] = c
           /\ \A k \in 1..m : cards'[k] = cards[k]
      <4>1. /\ Append(cards, c) \in Seq(CardType) /\ Len(Append(cards, c)) = Len(cards) + 1
            /\ Append(cards, c)[Len(cards) + 1] = c /\ \A k \in 1..Len(cards) : Append(cards, c)[k] = cards[k]
        BY <3>12, AppendProperties
      <4> QED BY <3>3, <3>11, <4>1
    <3>14. DOMAIN cards' = 1..m+1 /\ DOMAIN cards = 1..m  BY <3>3, <3>12, <3>13, LenProperties
    <3>15. Len(cards') <= Len(pages')  BY <3>2, <3>3, <3>13
    <3>16. ASSUME NEW q PROVE TitleLines(q)' = TitleLines(q)  BY <3>2 DEF TitleLines, CardTopic
    <3>17. ToSend' = ToSend /\ reading'.sentTotal = reading.sentTotal  BY <3>2 DEF ToSend
    <3>18. ASSUME NEW k \in 1..m+1
           PROVE  LET all == TitleLines(pages[k]) \o AllLines(pages[k].sections)
                  IN /\ IsPrefix(cards'[k].drawn, all)
                     /\ k = m + 1 /\ Len(all) <= r => cards'[k].drawn = all
                     /\ n > 1 /\ k <= ToSend /\ ToSend >= reading.sentTotal => cards'[k].label = <<k, ToSend>>
      <4>1. CASE k = m + 1
        <5>1. cards'[k].drawn = d /\ cards'[k].label = l  BY <3>10, <3>13, <4>1
        <5> QED BY <3>4, <3>8, <3>9, <4>1, <5>1
      <4>2. CASE k # m + 1
        <5>1. k \in 1..m  BY <4>2
        <5>2. /\ IsPrefix(cards[k].drawn, TitleLines(pages[k]) \o AllLines(pages[k].sections))
              /\ n > 1 /\ k <= ToSend /\ ToSend >= reading.sentTotal => cards[k].label = <<k, ToSend>>
          BY <3>3, <3>14, <5>1 DEF ShownInv, CardsShowTheirPages
        <5> QED BY <3>13, <4>2, <5>1, <5>2
      <4> QED BY <4>1, <4>2
    <3>19. CardsShowTheirPages'
      <4>1. pages' = pages /\ room' = r /\ Len(cards') = m + 1 /\ Len(pages') = n  BY <3>1, <3>2, <3>3, <3>13
      <4>2. \A k \in 1..m+1 :
              LET all == TitleLines(pages[k]) \o AllLines(pages[k].sections)
              IN /\ IsPrefix(cards'[k].drawn, all)
                 /\ k = Len(cards') /\ Len(all) <= room' => cards'[k].drawn = all
                 /\ Len(pages) > 1 /\ k <= ToSend /\ ToSend >= reading.sentTotal => cards'[k].label = <<k, ToSend>>
        BY <3>3, <3>18, <4>1
      <4> HIDE <3>18, <3>16
      <4> QED BY <3>2, <3>14, <4>2 DEF CardsShowTheirPages, TitleLines, CardTopic, ToSend
    <3> QED BY <2>1, <3>13, <3>15, <3>19 DEF ShownInv
  <2>5. CASE SendTextFallback  BY <2>2, <2>5 DEF SendTextFallback
  <2>6. ASSUME NEW k, SkipCard(k) \/ PostCard(k) PROVE ShownInv'
    BY <2>2, <2>6 DEF SkipCard, PostCard
  <2>7. CASE UNCHANGED cardsVars  BY <2>2, <2>7 DEF cardsVars
  <2> QED BY <2>3, <2>4, <2>5, <2>6, <2>7 DEF CardsNext
<1> QED BY <1>1, <1>2

(* A card shows its page from the top whatever room the layout has, all of it   *)
(* where there is room, and the cards that are sent are numbered from 1 to      *)
(* their number (renderer.py).                                                  *)
THEOREM CardsAlwaysShowTheirPages ==
  ASSUME NEW Readings, \A r \in Readings : Legible(r)
  PROVE  CardsInit(Readings) /\ [][CardsNext]_cardsVars => []CardsShowTheirPages
<1>1. CardsInit(Readings) => ShownInv  BY ShownKept
<1>2. ShownInv /\ [CardsNext]_cardsVars => ShownInv'  BY ShownKept
<1>3. ShownInv => CardsShowTheirPages  BY DEF ShownInv
<1> QED BY <1>1, <1>2, <1>3, PTL

(* Both of them: pages that fit are shown by their cards, whatever is cut,      *)
(* merged and drawn.                                                            *)
THEOREM PagesAreAlwaysShown ==
  ASSUME NEW Readings, \A r \in Readings : Legible(r)
  PROVE  CardsInit(Readings) /\ [][CardsNext]_cardsVars => []PagesAreShown
<1>1. CardsInit(Readings) /\ [][CardsNext]_cardsVars => []PagesFit  BY PagesAlwaysFit
<1>2. CardsInit(Readings) /\ [][CardsNext]_cardsVars => []CardsShowTheirPages
  BY CardsAlwaysShowTheirPages
<1>3. PagesFit /\ CardsShowTheirPages => PagesAreShown  BY DEF PagesAreShown
<1> QED BY <1>1, <1>2, <1>3, PTL

(* ---- the cards on their way, by themselves ------------------------------ *)

LEMMA HitsOfAppend ==
  ASSUME NEW T, NEW s \in Seq(T), NEW x \in T, NEW S
  PROVE  /\ Hits(s, S) \in Nat
         /\ Hits(Append(s, x), S) = Hits(s, S) + (IF x \in S THEN 1 ELSE 0)
<1>1. PICK n \in Nat : n = Len(s) /\ DOMAIN s = 1..n  BY LenProperties
<1>2. PICK A : A = {i \in DOMAIN s : s[i] \in S}  OBVIOUS
<1>3. IsFiniteSet(A) /\ n + 1 \notin A
  <2>1. A \in SUBSET (1..n)  BY <1>1, <1>2
  <2>2. IsFiniteSet(1..n)  BY FS_Interval
  <2>3. IsFiniteSet(A)  BY <2>1, <2>2, FS_Subset
  <2>4. n + 1 \notin 1..n  OBVIOUS
  <2> QED BY <2>1, <2>3, <2>4
<1>4. PICK B : B = {i \in DOMAIN Append(s, x) : Append(s, x)[i] \in S}  OBVIOUS
<1>5. B = IF x \in S THEN A \cup {n + 1} ELSE A
  <2>1. DOMAIN Append(s, x) = 1..(n + 1)  BY <1>1, AppendProperties, LenProperties
  <2>2. \A i \in 1..n : Append(s, x)[i] = s[i]  BY <1>1, AppendProperties
  <2>3. Append(s, x)[n + 1] = x  BY <1>1, AppendProperties
  <2> QED BY <1>1, <1>2, <1>4, <2>1, <2>2, <2>3
<1>6. Cardinality(A) \in Nat /\ Cardinality(A \cup {n + 1}) = Cardinality(A) + 1
  BY <1>3, FS_AddElement, FS_CardinalityType
<1>7. Hits(s, S) = Cardinality(A) /\ Hits(Append(s, x), S) = Cardinality(B)
  BY <1>2, <1>4 DEF Hits
<1>8. CASE x \in S  BY <1>5, <1>6, <1>7, <1>8
<1>9. CASE x \notin S
  <2>1. A = B  BY <1>5, <1>9
  <2> QED BY <1>6, <1>7, <1>9, <2>1
<1> QED BY <1>8, <1>9

LEMMA NoHits ==
  ASSUME NEW s, NEW S, \A i \in DOMAIN s : s[i] \notin S
  PROVE  Hits(s, S) = 0
BY FS_EmptySet DEF Hits

LEMMA HitsAlike ==
  ASSUME NEW s, NEW S, NEW T, \A i \in DOMAIN s : s[i] \in S <=> s[i] \in T
  PROVE  Hits(s, S) = Hits(s, T)
<1>1. {i \in DOMAIN s : s[i] \in S} = {i \in DOMAIN s : s[i] \in T}  OBVIOUS
<1> QED BY <1>1 DEF Hits

Outcome == {"sent_ok", "send_failed", "debug_capture", "missing_token"}

SendTypeOK ==
  /\ chat \in Seq(Nat) /\ outcome \in Seq(Outcome)
  /\ attempt \in 0..SendRetries - 1 /\ lost \in Nat

\* The cards come in order, the one that is being sent last.
InOrder ==
  /\ \A i \in DOMAIN chat : chat[i] <= Len(outcome) + 1
  /\ \A i, j \in DOMAIN chat : i < j /\ chat[i] # 0 /\ chat[j] # 0 => chat[i] <= chat[j]
  /\ reading.token # "ok" => \A i \in DOMAIN chat : chat[i] = 0

\* What has come of the card that is being sent, and what was reported of the others.
CopiesCounted ==
  /\ Hits(chat, {Len(outcome) + 1}) <= attempt /\ Hits(chat, {Len(outcome) + 1}) <= lost
  /\ \A k \in DOMAIN outcome :
       /\ Hits(chat, {k}) <= SendRetries
       /\ outcome[k] = "sent_ok" => Hits(chat, {k}) >= 1
       /\ outcome[k] = "send_failed" => Hits(chat, {k}) <= lost
       /\ outcome[k] \in {"debug_capture", "missing_token"} => Hits(chat, {k}) = 0
  /\ Hits(chat, Nat \ {0}) <= Hits(outcome, {"sent_ok"}) + lost

CardsInv == SendTypeOK /\ InOrder /\ CopiesCounted

LEMMA NothingOfTheNext ==
  ASSUME SendTypeOK, NEW n \in Nat, \A i \in DOMAIN chat : chat[i] <= n
  PROVE  Hits(chat, {n + 1}) = 0
<1>1. \A i \in DOMAIN chat : chat[i] \in Nat  BY ElementOfSeq DEF SendTypeOK
<1> QED BY <1>1, NoHits

LEMMA SentCardsStay ==
  ASSUME CardsInv, UNCHANGED <<reading, attempt, outcome, chat, lost>>
  PROVE  CardsInv'
BY DEF CardsInv, SendTypeOK, InOrder, CopiesCounted, Hits

LEMMA SkipKeepsInv ==
  ASSUME CardsInv, NEW k, SkipCard(k)
  PROVE  CardsInv'
<1>1. PICK n \in Nat : n = Len(outcome)  BY LenProperties DEF CardsInv, SendTypeOK
<1>2. PICK o \in {"debug_capture", "missing_token"} : outcome' = Append(outcome, o)
  BY DEF SkipCard
<1>3. /\ reading.token # "ok" /\ UNCHANGED <<reading, attempt, chat, lost>> /\ SendTypeOK
      /\ chat \in Seq(Nat) /\ outcome \in Seq(Outcome) /\ o \in Outcome
  BY DEF SkipCard, CardsInv, SendTypeOK, Outcome
<1>4. \A i \in DOMAIN chat : chat[i] = 0  BY <1>3 DEF CardsInv, InOrder
<1>5. ASSUME NEW c \in Nat \ {0} PROVE Hits(chat, {c}) = 0  BY <1>4, NoHits
<1>6. /\ outcome' \in Seq(Outcome) /\ Len(outcome') = n + 1 /\ DOMAIN outcome = 1..n
      /\ DOMAIN outcome' = 1..(n + 1) /\ \A i \in 1..n : outcome'[i] = outcome[i]
      /\ outcome'[n + 1] = o
  BY <1>1, <1>2, <1>3, AppendProperties, LenProperties
<1>7. Hits(outcome', {"sent_ok"}) = Hits(outcome, {"sent_ok"}) /\ Hits(outcome, {"sent_ok"}) \in Nat
  <2>1. Hits(outcome, {"sent_ok"}) \in Nat  BY <1>3, HitsOfAppend
  <2>2. o \notin {"sent_ok"}  OBVIOUS
  <2>3. Hits(Append(outcome, o), {"sent_ok"}) = Hits(outcome, {"sent_ok"}) + 0
    BY <1>3, <2>2, HitsOfAppend
  <2> QED BY <1>2, <2>1, <2>3
<1>8. SendTypeOK'  BY <1>3, <1>6 DEF SendTypeOK
<1>9. InOrder'
  BY <1>3, <1>4, <1>6 DEF CardsInv, InOrder
<1>10. CopiesCounted'
  <2>1. attempt \in Nat /\ lost \in Nat /\ SendRetries \in Nat
    BY CardsAssumption DEF CardsInv, SendTypeOK
  <2>2. Hits(chat, {Len(outcome') + 1}) = 0  BY <1>1, <1>5, <1>6
  <2>3. ASSUME NEW c \in DOMAIN outcome'
        PROVE  Hits(chat, {c}) = 0 /\ outcome'[c] # "sent_ok"
    <3>1. Hits(chat, {c}) = 0  BY <1>1, <1>5, <1>6
    <3>2. CASE c = n + 1  BY <1>6, <3>1, <3>2
    <3>3. CASE c # n + 1
      <4>1. c \in DOMAIN outcome /\ outcome'[c] = outcome[c]  BY <1>1, <1>6, <3>3
      <4>2. outcome[c] = "sent_ok" => Hits(chat, {c}) >= 1  BY <4>1 DEF CardsInv, CopiesCounted
      <4> QED BY <3>1, <4>1, <4>2
    <3> QED BY <3>2, <3>3
  <2>4. Hits(chat, Nat \ {0}) <= Hits(outcome', {"sent_ok"}) + lost
    BY <1>7 DEF CardsInv, CopiesCounted
  <2> QED BY <1>3, <2>1, <2>2, <2>3, <2>4 DEF CopiesCounted
<1> QED BY <1>8, <1>9, <1>10 DEF CardsInv

LEMMA FallbackKeepsInv ==
  ASSUME CardsInv, SendTextFallback
  PROVE  CardsInv'
<1>1. /\ chat \in Seq(Nat) /\ chat' = Append(chat, 0) /\ 0 \in Nat
      /\ UNCHANGED <<reading, attempt, outcome, lost>>
  BY DEF CardsInv, SendTypeOK, SendTextFallback
<1>2. PICK m \in Nat : m = Len(chat)  BY <1>1, LenProperties
<1>3. /\ chat' \in Seq(Nat) /\ DOMAIN chat = 1..m /\ DOMAIN chat' = 1..(m + 1)
      /\ \A i \in 1..m : chat'[i] = chat[i] /\ chat[i] \in Nat
      /\ chat'[m + 1] = 0
  BY <1>1, <1>2, AppendProperties, LenProperties, ElementOfSeq
<1>4. PICK n \in Nat : n = Len(outcome) /\ DOMAIN outcome = 1..n
  BY LenProperties DEF CardsInv, SendTypeOK
<1>5. ASSUME NEW S, 0 \notin S PROVE Hits(chat', S) = Hits(chat, S)
  <2>1. Hits(chat, S) \in Nat /\ Hits(chat', S) = Hits(chat, S) + 0
    BY <1>1, <1>5, HitsOfAppend
  <2> QED BY <2>1
<1>6. SendTypeOK'  BY <1>1, <1>3 DEF CardsInv, SendTypeOK
<1>7. InOrder'
  <2>1. \A i \in DOMAIN chat' : i # m + 1 => i \in DOMAIN chat /\ chat'[i] = chat[i]
    BY <1>2, <1>3
  <2>2. \A i \in DOMAIN chat' : chat'[i] <= Len(outcome') + 1
    BY <1>1, <1>3, <1>4, <2>1 DEF CardsInv, InOrder
  <2>3. \A i, j \in DOMAIN chat' : i < j /\ chat'[i] # 0 /\ chat'[j] # 0 => chat'[i] <= chat'[j]
    BY <1>3, <2>1 DEF CardsInv, InOrder
  <2>4. reading.token # "ok" => \A i \in DOMAIN chat' : chat'[i] = 0
    BY <1>3, <2>1 DEF CardsInv, InOrder
  <2> QED BY <1>1, <2>2, <2>3, <2>4 DEF InOrder
<1>8. CopiesCounted'
  <2>1. Hits(chat', {Len(outcome) + 1}) = Hits(chat, {Len(outcome) + 1})  BY <1>4, <1>5
  <2>2. \A k \in DOMAIN outcome : Hits(chat', {k}) = Hits(chat, {k})  BY <1>4, <1>5
  <2>3. Hits(chat', Nat \ {0}) = Hits(chat, Nat \ {0})  BY <1>5
  <2> QED BY <1>1, <2>1, <2>2, <2>3 DEF CardsInv, CopiesCounted
<1> QED BY <1>6, <1>7, <1>8 DEF CardsInv

\* One request: a copies come of it, l answers are lost, and it may end the card.
Posted(k, a, l) ==
  /\ chat' = (IF a = 1 THEN Append(chat, k) ELSE chat) /\ lost' = lost + l
  /\ \/ outcome' = outcome /\ attempt' = attempt + 1 /\ attempt + 1 # SendRetries /\ a = l
     \/ outcome' = Append(outcome, "sent_ok") /\ attempt' = 0 /\ a = 1 /\ l = 0
     \/ outcome' = Append(outcome, "send_failed") /\ attempt' = 0 /\ a = l

LEMMA PostIsPosted ==
  ASSUME CardsInv, NEW k, PostCard(k)
  PROVE  /\ k = Len(outcome) + 1 /\ reading.token = "ok" /\ reading' = reading
         /\ \E a, l \in {0, 1} : Posted(k, a, l)
<1>1. k = Len(outcome) + 1 /\ reading.token = "ok" /\ reading' = reading  BY DEF PostCard, AtCard
<1>2. lost \in Nat  BY DEF CardsInv, SendTypeOK
<1>3. PICK arrives \in BOOLEAN, answered \in BOOLEAN :
       /\ answered => arrives
       /\ chat' = IF arrives THEN Append(chat, k) ELSE chat
       /\ lost' = IF arrives /\ ~answered THEN lost + 1 ELSE lost
       /\ IF answered \/ attempt + 1 = SendRetries
          THEN /\ outcome' = Append(outcome, IF answered THEN "sent_ok" ELSE "send_failed")
               /\ attempt' = 0
          ELSE attempt' = attempt + 1 /\ UNCHANGED outcome
  BY DEF PostCard
<1>4. CASE answered
  <2>1. /\ chat' = Append(chat, k) /\ lost' = lost /\ attempt' = 0
        /\ outcome' = Append(outcome, "sent_ok")
    BY <1>3, <1>4
  <2>2. Posted(k, 1, 0)  BY <1>2, <2>1 DEF Posted
  <2> QED BY <1>1, <2>2
<1>5. CASE arrives /\ ~answered
  <2>1. /\ chat' = Append(chat, k) /\ lost' = lost + 1
        /\ \/ outcome' = outcome /\ attempt' = attempt + 1 /\ attempt + 1 # SendRetries
           \/ outcome' = Append(outcome, "send_failed") /\ attempt' = 0
    BY <1>3, <1>5
  <2>2. Posted(k, 1, 1)  BY <2>1 DEF Posted
  <2> QED BY <1>1, <2>2
<1>6. CASE ~arrives
  <2>1. /\ chat' = chat /\ lost' = lost
        /\ \/ outcome' = outcome /\ attempt' = attempt + 1 /\ attempt + 1 # SendRetries
           \/ outcome' = Append(outcome, "send_failed") /\ attempt' = 0
    BY <1>3, <1>6
  <2>2. Posted(k, 0, 0)  BY <1>2, <2>1 DEF Posted
  <2> QED BY <1>1, <2>2
<1> QED BY <1>1, <1>4, <1>5, <1>6

LEMMA PostKeepsInv ==
  ASSUME CardsInv, NEW k, PostCard(k)
  PROVE  CardsInv'
<1>1. k = Len(outcome) + 1 /\ reading.token = "ok" /\ reading' = reading  BY PostIsPosted
<1>2. PICK a \in {0, 1}, l \in {0, 1} : Posted(k, a, l)  BY PostIsPosted
<1>3. /\ chat \in Seq(Nat) /\ outcome \in Seq(Outcome) /\ lost \in Nat /\ attempt \in Nat
      /\ SendRetries \in Nat \ {0} /\ attempt < SendRetries
  BY CardsAssumption DEF CardsInv, SendTypeOK
<1>4. PICK n \in Nat : n = Len(outcome) /\ DOMAIN outcome = 1..n /\ k = n + 1
  BY <1>1, <1>3, LenProperties
<1>5. PICK m \in Nat : m = Len(chat) /\ DOMAIN chat = 1..m  BY <1>3, LenProperties
<1>6. \A i \in 1..m : chat[i] \in Nat /\ chat[i] <= k
  BY <1>3, <1>4, <1>5, ElementOfSeq DEF CardsInv, InOrder
<1>7. /\ chat' \in Seq(Nat) /\ Len(chat') = m + a /\ DOMAIN chat' = 1..(m + a)
      /\ \A i \in 1..m : chat'[i] = chat[i]
      /\ \A i \in 1..(m + a) : i \notin 1..m => chat'[i] = k
  <2>1. CASE a = 0
    <3>1. chat' = chat  BY <1>2, <2>1 DEF Posted
    <3> QED BY <1>3, <1>5, <2>1, <3>1
  <2>2. CASE a = 1
    <3>1. chat' = Append(chat, k) /\ k \in Nat  BY <1>2, <1>4, <2>2 DEF Posted
    <3>2. /\ chat' \in Seq(Nat) /\ Len(chat') = m + 1 /\ DOMAIN chat' = 1..(m + 1)
          /\ \A i \in 1..m : chat'[i] = chat[i]
          /\ chat'[m + 1] = k
      BY <1>3, <1>5, <3>1, AppendProperties, LenProperties
    <3> QED BY <1>5, <2>2, <3>2
  <2> QED BY <2>1, <2>2
<1>8. ASSUME NEW S
      PROVE  /\ Hits(chat, S) \in Nat
             /\ k \in S => Hits(chat', S) = Hits(chat, S) + a
             /\ k \notin S => Hits(chat', S) = Hits(chat, S)
  <2>1. k \in Nat  BY <1>4
  <2>2. Hits(chat, S) \in Nat /\ Hits(Append(chat, k), S) = Hits(chat, S) + (IF k \in S THEN 1 ELSE 0)
    BY <1>3, <2>1, HitsOfAppend
  <2>3. CASE a = 0
    <3>1. chat' = chat  BY <1>2, <2>3 DEF Posted
    <3> QED BY <2>2, <2>3, <3>1
  <2>4. CASE a = 1
    <3>1. chat' = Append(chat, k)  BY <1>2, <2>4 DEF Posted
    <3> QED BY <2>2, <2>4, <3>1
  <2> QED BY <2>3, <2>4
<1>9. PICK b \in {0, 1}, o \in {"sent_ok", "send_failed"} :
        \/ b = 0 /\ outcome' = outcome /\ attempt' = attempt + 1 /\ attempt + 1 # SendRetries /\ a = l
        \/ b = 1 /\ outcome' = Append(outcome, o) /\ attempt' = 0
           /\ (IF o = "sent_ok" THEN a = 1 /\ l = 0 ELSE a = l)
  BY <1>2 DEF Posted
<1>10. /\ outcome' \in Seq(Outcome) /\ Len(outcome') = n + b /\ DOMAIN outcome' = 1..(n + b)
       /\ \A i \in 1..n : outcome'[i] = outcome[i]
       /\ b = 1 => outcome'[n + 1] = o
  <2>1. CASE b = 0  BY <1>3, <1>4, <1>9, <2>1
  <2>2. CASE b = 1
    <3>1. outcome' = Append(outcome, o) /\ o \in Outcome  BY <1>9, <2>2 DEF Outcome
    <3>2. /\ outcome' \in Seq(Outcome) /\ Len(outcome') = n + 1 /\ DOMAIN outcome' = 1..(n + 1)
          /\ \A i \in 1..n : outcome'[i] = outcome[i]
          /\ outcome'[n + 1] = o
      BY <1>3, <1>4, <3>1, AppendProperties, LenProperties
    <3> QED BY <2>2, <3>2
  <2> QED BY <2>1, <2>2
<1>11. lost' = lost + l /\ attempt' \in 0..SendRetries - 1 /\ attempt' \in Nat
  <2>1. lost' = lost + l  BY <1>2 DEF Posted
  <2>2. attempt' = 0 \/ (attempt' = attempt + 1 /\ attempt + 1 # SendRetries)  BY <1>9
  <2> QED BY <1>3, <2>1, <2>2
<1>12. SendTypeOK'  BY <1>3, <1>7, <1>10, <1>11 DEF SendTypeOK
<1>13. InOrder'
  <2>1. \A i \in DOMAIN chat' : chat'[i] \in Nat /\ chat'[i] <= k
    BY <1>4, <1>6, <1>7
  <2>2. \A i \in DOMAIN chat' : chat'[i] <= Len(outcome') + 1
    BY <1>4, <1>10, <2>1
  <2>3. \A i, j \in 1..m : i < j /\ chat'[i] # 0 /\ chat'[j] # 0 => chat'[i] <= chat'[j]
    BY <1>5, <1>7 DEF CardsInv, InOrder
  <2>4. ASSUME NEW i \in DOMAIN chat', NEW j \in DOMAIN chat', i < j, chat'[i] # 0, chat'[j] # 0
        PROVE  chat'[i] <= chat'[j]
    <3>1. CASE j \in 1..m
      <4>1. i \in 1..m  BY <1>7, <2>4, <3>1
      <4> QED BY <2>3, <2>4, <3>1, <4>1
    <3>2. CASE j \notin 1..m
      <4>1. chat'[j] = k  BY <1>7, <3>2
      <4> QED BY <2>1, <4>1
    <3> QED BY <3>1, <3>2
  <2> QED BY <1>1, <2>2, <2>4 DEF InOrder
<1>14. /\ Hits(chat, {k}) <= attempt /\ Hits(chat, {k}) <= lost /\ Hits(chat, {k}) \in Nat
       /\ Hits(chat', {k}) = Hits(chat, {k}) + a
  <2>1. k = Len(outcome) + 1  BY <1>1
  <2> QED BY <1>8, <2>1 DEF CardsInv, CopiesCounted
<1>15. ASSUME NEW c \in 1..n
       PROVE  /\ Hits(chat', {c}) = Hits(chat, {c}) /\ Hits(chat, {c}) \in Nat
              /\ Hits(chat, {c}) <= SendRetries
              /\ outcome[c] = "sent_ok" => Hits(chat, {c}) >= 1
              /\ outcome[c] = "send_failed" => Hits(chat, {c}) <= lost
              /\ outcome[c] \in {"debug_capture", "missing_token"} => Hits(chat, {c}) = 0
  <2>1. k \notin {c}  BY <1>4
  <2>2. Hits(chat', {c}) = Hits(chat, {c}) /\ Hits(chat, {c}) \in Nat  BY <1>8, <2>1
  <2> QED BY <1>4, <2>2 DEF CardsInv, CopiesCounted
<1>16. CopiesCounted'
  <2>1. /\ Hits(chat', {Len(outcome') + 1}) <= attempt' /\ Hits(chat', {Len(outcome') + 1}) <= lost'
    <3>1. CASE b = 0
      <4>1. Len(outcome') + 1 = k /\ attempt' = attempt + 1 /\ a = l  BY <1>4, <1>9, <1>10, <3>1
      <4>2. Hits(chat', {k}) <= attempt + 1 /\ Hits(chat', {k}) <= lost + l
        BY <1>3, <1>14, <4>1
      <4> QED BY <1>11, <4>1, <4>2
    <3>2. CASE b = 1
      <4>1. Len(outcome') = k  BY <1>4, <1>10, <3>2
      <4>2. k \in Nat /\ \A i \in DOMAIN chat' : chat'[i] # k + 1
        BY <1>4, <1>6, <1>7
      <4>3. Hits(chat', {k + 1}) = 0  BY <4>2, NoHits
      <4> QED BY <1>3, <1>11, <4>1, <4>3
    <3> QED BY <3>1, <3>2
  <2>2. ASSUME NEW c \in DOMAIN outcome'
        PROVE  /\ Hits(chat', {c}) <= SendRetries
               /\ outcome'[c] = "sent_ok" => Hits(chat', {c}) >= 1
               /\ outcome'[c] = "send_failed" => Hits(chat', {c}) <= lost'
               /\ outcome'[c] \in {"debug_capture", "missing_token"} => Hits(chat', {c}) = 0
    <3>1. CASE c \in 1..n
      <4>1. outcome'[c] = outcome[c]  BY <1>10, <3>1
      <4>2. lost <= lost'  BY <1>3, <1>11
      <4>5. ASSUME NEW h \in Nat, h <= lost PROVE h <= lost'  BY <1>3, <1>11, <4>2, <4>5
      <4>3. outcome[c] = "send_failed" => Hits(chat, {c}) <= lost'  BY <1>15, <3>1, <4>5
      <4> QED BY <1>15, <3>1, <4>1, <4>3
    <3>2. CASE c \notin 1..n
      <4>1. c = k /\ b = 1 /\ outcome'[c] = o  BY <1>4, <1>10, <3>2
      <4>2. IF o = "sent_ok" THEN a = 1 /\ l = 0 ELSE a = l  BY <1>9, <4>1
      <4>3. Hits(chat', {k}) <= SendRetries  BY <1>3, <1>14
      <4>4. o = "sent_ok" => Hits(chat', {k}) >= 1  BY <1>14, <4>2
      <4>5. o = "send_failed" => Hits(chat', {k}) <= lost'  BY <1>3, <1>11, <1>14, <4>2
      <4> QED BY <4>1, <4>3, <4>4, <4>5
    <3> QED BY <3>1, <3>2
  <2>3. Hits(chat', Nat \ {0}) <= Hits(outcome', {"sent_ok"}) + lost'
    <3>1. /\ Hits(chat', Nat \ {0}) = Hits(chat, Nat \ {0}) + a /\ Hits(chat, Nat \ {0}) \in Nat
          /\ Hits(chat, Nat \ {0}) <= Hits(outcome, {"sent_ok"}) + lost
      <4>1. k \in Nat \ {0}  BY <1>4
      <4> QED BY <1>8, <4>1 DEF CardsInv, CopiesCounted
    <3>2. Hits(outcome, {"sent_ok"}) \in Nat
      <4>1. "sent_ok" \in Outcome  BY DEF Outcome
      <4> QED BY <1>3, <4>1, HitsOfAppend
    <3>3. CASE b = 0
      <4>1. outcome' = outcome /\ a = l  BY <1>9, <3>3
      <4> QED BY <1>3, <1>11, <3>1, <3>2, <4>1
    <3>4. CASE b = 1 /\ o = "sent_ok"
      <4>1. Hits(outcome', {"sent_ok"}) = Hits(outcome, {"sent_ok"}) + 1
        <5>1. outcome' = Append(outcome, "sent_ok") /\ "sent_ok" \in Outcome  BY <1>9, <3>4 DEF Outcome
        <5> QED BY <1>3, <5>1, HitsOfAppend
      <4> QED BY <1>3, <1>11, <3>1, <3>2, <4>1
    <3>5. CASE b = 1 /\ o = "send_failed"
      <4>1. Hits(outcome', {"sent_ok"}) = Hits(outcome, {"sent_ok"})
        <5>1. outcome' = Append(outcome, "send_failed") /\ "send_failed" \in Outcome
          BY <1>9, <3>5 DEF Outcome
        <5>2. Hits(Append(outcome, "send_failed"), {"sent_ok"}) = Hits(outcome, {"sent_ok"}) + 0
          BY <1>3, <5>1, HitsOfAppend
        <5> QED BY <3>2, <5>1, <5>2
      <4>2. a = l  BY <1>9, <3>5
      <4> QED BY <1>3, <1>11, <3>1, <3>2, <4>1, <4>2
    <3> QED BY <3>3, <3>4, <3>5
  <2> QED BY <2>1, <2>2, <2>3 DEF CopiesCounted
<1> QED BY <1>12, <1>13, <1>16 DEF CardsInv

(* Whatever a reading is cut into, however large the plans and budgets: the      *)
(* cards come in order, a sent one was got, a failed one only if an answer was   *)
(* lost, and there are no copies but for the answers that were lost.             *)
THEOREM CopiesStayExplained ==
  ASSUME NEW Readings
  PROVE  CardsInit(Readings) /\ [][CardsNext]_cardsVars => []CopiesAreExplained
<1>1. CardsInit(Readings) => CardsInv
  <2> SUFFICES ASSUME CardsInit(Readings) PROVE CardsInv  OBVIOUS
  <2>1. /\ chat = <<>> /\ outcome = <<>> /\ attempt = 0 /\ lost = 0
        /\ chat \in Seq(Nat) /\ outcome \in Seq(Outcome)
    BY DEF CardsInit
  <2>2. \A S : Hits(chat, S) = 0 /\ Hits(outcome, S) = 0  BY <2>1, NoHits
  <2>3. SendTypeOK  BY <2>1, CardsAssumption DEF SendTypeOK
  <2>4. DOMAIN chat = {} /\ DOMAIN outcome = {}  BY <2>1
  <2>5. InOrder  BY <2>4 DEF InOrder
  <2>6. CopiesCounted  BY <2>1, <2>2, <2>4 DEF CopiesCounted
  <2> QED BY <2>3, <2>5, <2>6 DEF CardsInv
<1>2. CardsInv /\ [CardsNext]_cardsVars => CardsInv'
  <2> SUFFICES ASSUME CardsInv, [CardsNext]_cardsVars PROVE CardsInv'  OBVIOUS
  <2>1. CASE Paginate \/ RenderPage \/ UNCHANGED cardsVars
    BY <2>1, SentCardsStay DEF Paginate, RenderPage, cardsVars
  <2> QED BY <2>1, FallbackKeepsInv, SkipKeepsInv, PostKeepsInv DEF CardsNext
<1>3. CardsInv => CopiesAreExplained
  <2> SUFFICES ASSUME CardsInv PROVE CopiesAreExplained  OBVIOUS
  <2>1. PICK Got : Got = Range(chat) \ {0}  OBVIOUS
  <2>2. chat \in Seq(Nat) /\ SendRetries \in Nat /\ attempt \in Nat /\ attempt < SendRetries
    BY CardsAssumption DEF CardsInv, SendTypeOK
  <2>3. \A i \in DOMAIN chat : chat[i] \in Nat /\ (chat[i] \in Got <=> chat[i] \in Nat \ {0})
    BY <2>1, <2>2, ElementOfSeq DEF Range
  <2>4. Hits(chat, Got) = Hits(chat, Nat \ {0})  BY <2>3, HitsAlike
  <2>5. ASSUME NEW k \in Got PROVE Hits(chat, {k}) <= SendRetries
    <3>1. PICK i \in DOMAIN chat : chat[i] = k  BY <2>1 DEF Range
    <3>2. PICK n \in Nat : n = Len(outcome) /\ DOMAIN outcome = 1..n
      BY LenProperties DEF CardsInv, SendTypeOK
    <3>3. k \in Nat \ {0} /\ k <= n + 1  BY <2>1, <2>3, <3>1, <3>2 DEF CardsInv, InOrder
    <3>4. CASE k = n + 1
      <4>1. Hits(chat, {k}) <= attempt  BY <3>2, <3>4 DEF CardsInv, CopiesCounted
      <4>2. Hits(chat, {k}) \in Nat  BY <2>2, HitsOfAppend
      <4> QED BY <2>2, <4>1, <4>2
    <3>5. CASE k # n + 1
      <4>1. k \in DOMAIN outcome  BY <3>2, <3>3, <3>5
      <4> QED BY <4>1 DEF CardsInv, CopiesCounted
    <3> QED BY <3>4, <3>5
  <2>6. \A i, j \in DOMAIN chat : i < j /\ {chat[i], chat[j]} \subseteq Got => chat[i] <= chat[j]
    BY <2>1 DEF CardsInv, InOrder
  <2>7. Hits(chat, Got) <= Hits(outcome, {"sent_ok"}) + lost
    BY <2>4 DEF CardsInv, CopiesCounted
  <2> QED BY <2>1, <2>5, <2>6, <2>7 DEF CopiesAreExplained, CardsInv, CopiesCounted
<1> QED BY <1>1, <1>2, <1>3, PTL
=============================================================================
