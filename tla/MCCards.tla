------------------------------ MODULE MCCards ------------------------------
(* Cards for TLC: every text up to a length, alone or beside a second one.     *)
EXTENDS Cards

CONSTANTS Longest, LongestOfTwo   \* characters of a text

Texts(n) == {t \in UNION {[1..k -> Char] : k \in 0..n} :
               Cardinality({i \in DOMAIN t : t[i] = "*"}) \in {0, 2}}
Sections(n) == [heading : {<<>>, <<"x">>}, body : Texts(n)]

Reading(profile, sections, splits, focus, sentTotal, token) ==
  [profile |-> profile, sections |-> sections, splits |-> splits, focus |-> focus,
   sentTotal |-> sentTotal, token |-> token]

LongTexts == {<<s>> : s \in Sections(Longest)} \cup {<<s, t>> : s, t \in Sections(LongestOfTwo)} \cup {<<>>}

ListOfTwo == <<"1", ".", "_", "x", ".", "/", "1", ".", "_", "x">>
Emphasis == <<"x", "_", "*", "x", "_", "x", "*", ".", "_", "x">>

Readings ==
  {Reading("a4", ss, TRUE, <<>>, 0, "debug") : ss \in LongTexts}
  \cup {Reading("messenger_card", ss, splits, <<>>, 0, "debug") : ss \in LongTexts, splits \in BOOLEAN}
  \cup {Reading(profile, ss, splits, focus, sentTotal, token) :
          profile \in {"a4", "messenger_card"}, splits \in BOOLEAN, focus \in {<<>>, <<"x">>},
          sentTotal \in 1..2, token \in {"ok", "none"},
          ss \in {<<[heading |-> <<"x">>, body |-> b]>> : b \in {ListOfTwo, Emphasis}}
                 \cup {<<[heading |-> <<>>, body |-> ListOfTwo], [heading |-> <<"x">>, body |-> Emphasis]>>}}

ASSUME ReadingsAreLegible == \A r \in Readings : Legible(r)

Spec == CardsInit(Readings) /\ [][CardsNext]_cardsVars
=============================================================================
