----------------------------- MODULE JsonGrammar -----------------------------
(* The JSON grammar by construction, as a reference for Json's parser: every  *)
(* text of at most MaxTokens tokens over the scalars and names of Tokens,     *)
(* nested at most MaxDepth levels, with the value it means.                   *)
EXTENDS Json, FiniteSetsExt

CONSTANTS
  Tokens,      \* the tokens that are typed
  MaxTokens,   \* the longest text
  MaxDepth     \* kMaxDepth

ASSUME BoundsAssumption == MaxTokens \in Nat /\ MaxDepth \in Nat \ {0}
ASSUME TokensAssumption == Tokens \subseteq Token

Scalars == {t \in Tokens : t.kind \in {"null", "boolean", "number", "string"}}
TypedNames == {t.chars : t \in {u \in Tokens : u.kind = "string"}}

\* A list [text, items], then a comma and one of things, within the bound.
Longer(lists, things) ==
  UNION {{[text |-> Joined(l.text, x.text), items |-> Append(l.items, x.item)] :
            x \in {y \in things : Len(Joined(l.text, y.text)) + 2 <= MaxTokens}} : l \in lists}

Lists(things) ==
  LET of[n \in 0..MaxTokens] ==
        IF n = 0 THEN {[text |-> <<>>, items |-> <<>>]} ELSE Longer(of[n - 1], things)
  IN  UNION {of[n] : n \in 0..(MaxTokens \div 2)}

\* Of the members with one name the last counts.
Meant(members) ==
  [n \in {members[i].name : i \in DOMAIN members} |->
     members[Max({i \in DOMAIN members : members[i].name = n})].value]

\* What can be in an array, and in an object.
Items(inner) == {[text |-> g.text, item |-> g.value] : g \in inner}
NamedItems(inner) ==
  UNION {{[text |-> <<String(n), Mark(":")>> \o g.text, item |-> [name |-> n, value |-> g.value]] :
            g \in inner} : n \in TypedNames}

\* The texts of one level more than those that are inside.
Deeper(inner) ==
  {[text |-> <<s>>, value |-> s] : s \in Scalars}
  \cup {[text |-> <<Mark("[")>> \o l.text \o <<Mark("]")>>, value |-> Array(l.items)] :
          l \in Lists(Items(inner))}
  \cup {[text |-> <<Mark("{")>> \o l.text \o <<Mark("}")>>, value |-> Object(Meant(l.items))] :
          l \in Lists(NamedItems(inner))}

Grammar[depth \in 0..MaxDepth] == IF depth = 0 THEN {} ELSE Deeper(Grammar[depth - 1])

Texts == Grammar[MaxDepth]

\* What a text can begin with.
Beginnings == UNION {{SubSeq(g.text, 1, n) : n \in 0..Len(g.text)} : g \in Texts}

=============================================================================
