-------------------------------- MODULE Json --------------------------------
(* The engine's JSON values: what they are (json.hpp, Value), how they order  *)
(* and match (store.cpp, rankOf to matchesCondition), how they are written    *)
(* (dumpTo) and read (Parser).                                                *)
(*                                                                            *)
(* A text is a sequence of tokens: marks and scalars.  A string is a sequence *)
(* of code points, so that the order of strings is that of their UTF-8 bytes. *)
(* A number counts halves, which is enough for a fraction to be cut off.      *)
(* Escapes, white space and the fractions a half cannot make are left out.    *)
EXTENDS Integers, SequencesExt, FiniteSets

CONSTANTS
  MaxFinite,   \* the greatest finite number, in halves
  MaxWhole     \* 9e15 in halves: from here on a number may take an exponent

ASSUME MaxFiniteAssumption == MaxFinite \in Nat \ {0}
ASSUME MaxWholeAssumption == MaxWhole \in 1..MaxFinite

----------------------------------------------------------------------------
(* std::map and std::stable_sort                                              *)

\* o[key] = value.
Updated(f, key, value) ==
  [k \in DOMAIN f \cup {key} |-> IF k = key THEN value ELSE f[k]]

\* std::stable_sort and Array.prototype.sort by a relation: an element goes
\* after all that it does not precede.
StableSort(list, precedes) ==
  FoldLeft(LAMBDA sorted, r :
             InsertAt(sorted,
                      1 + Cardinality({i \in DOMAIN sorted : <<r, sorted[i]>> \notin precedes}), r),
           <<>>, list)

----------------------------------------------------------------------------
(* Values *)

Null == [kind |-> "null"]
Bool(b) == [kind |-> "boolean", truth |-> b]
Number(n) == [kind |-> "number", halves |-> n]
String(s) == [kind |-> "string", chars |-> s]

\* What strtod makes of 1e999.
Infinite == Number(MaxFinite + 1)

Kinds == {"null", "boolean", "number", "string", "array", "object"}

Mark(c) == [kind |-> c]
Marks == {Mark(c) : c \in {"[", "]", "{", "}", ",", ":"}}

ScalarValues ==
  {Null} \cup {Bool(b) : b \in BOOLEAN}
  \cup [kind : {"number"}, halves : Int] \cup [kind : {"string"}, chars : Seq(Int)]

Token == Marks \cup ScalarValues

\* The text of a value.  A compound value carries its own, made with it.
Dump(v) ==
  CASE v.kind \in {"array", "object"} -> v.dump
    [] v = Infinite                   -> <<Null>>
    [] OTHER                          -> <<v>>

Joined(s, t) == IF s = <<>> THEN t ELSE s \o <<Mark(",")>> \o t

Separated(texts) == FoldLeft(Joined, <<>>, texts)

Array(items) ==
  [kind  |-> "array",
   items |-> items,
   dump  |-> <<Mark("[")>> \o Separated([i \in DOMAIN items |-> Dump(items[i])]) \o <<Mark("]")>>]

\* The order of std::string, and of std::map and SQLite's keys.
Before(s, t) ==
  \/ Len(s) < Len(t) /\ s = SubSeq(t, 1, Len(s))
  \/ \E i \in DOMAIN s \cap DOMAIN t :
       s[i] < t[i] /\ \A j \in 1..(i - 1) : s[j] = t[j]

InOrder(names) == StableSort(SetToSeq(names), {p \in names \X names : Before(p[1], p[2])})

\* fields is a function from names; a std::map, so it is written in order.
Object(fields) ==
  LET names     == InOrder(DOMAIN fields)
      member(n) == <<String(n), Mark(":")>> \o Dump(fields[n])
  IN  [kind   |-> "object",
       fields |-> fields,
       dump   |-> <<Mark("{")>>
                    \o Separated([i \in DOMAIN names |-> member(names[i])])
                    \o <<Mark("}")>>]

\* A scalar, or a compound value with its text.
IsValue(v) ==
  v \in ScalarValues \/ (v.kind \in {"array", "object"} /\ v.dump \in Seq(Token))

\* operator[]: what is not there is null.
Field(v, name) ==
  IF v.kind = "object" /\ name \in DOMAIN v.fields THEN v.fields[name] ELSE Null

\* asInt: a fraction is cut off.  The cast of an infinite number is undefined:
\* the least int64 on x86, the greatest on ARM.
Ints(v) ==
  CASE v.kind # "number"                     -> {0}
    [] v = Infinite                          -> {-v.halves, v.halves}
    [] v.kind = "number" /\ v.halves >= 0    -> {v.halves \div 2}
    [] OTHER                                 -> {-((-v.halves) \div 2)}

----------------------------------------------------------------------------
(* Order and text *)

rankOf(v) ==
  [null |-> 0, boolean |-> 1, number |-> 2, string |-> 3, array |-> 4, object |-> 5][v.kind]

\* Characters.
Letter(c) ==
  CASE c = "[" -> 91 [] c = "]" -> 93 [] c = "{" -> 123 [] c = "}" -> 125
    [] c = "," -> 44 [] c = ":" -> 58

TrueText == <<116, 114, 117, 101>>
FalseText == <<102, 97, 108, 115, 101>>
NullText == <<110, 117, 108, 108>>

Digits(n) ==
  LET of[m \in 0..n] == IF m < 10 THEN <<48 + m>> ELSE Append(of[m \div 10], 48 + (m % 10))
  IN  of[n]

Decimal(halves) == Digits(halves \div 2) \o (IF halves % 2 = 0 THEN <<>> ELSE <<46, 53>>)

\* How many digits there are without the zeros at the end.
Significant(digits) ==
  Cardinality({i \in DOMAIN digits : \E j \in i..Len(digits) : digits[j] # 48})

\* d.ddde+XX
Scientific(digits) ==
  LET exponent == Digits(Len(digits) - 1)
  IN  <<digits[1]>>
        \o (IF Significant(digits) = 1 THEN <<>>
            ELSE <<46>> \o SubSeq(digits, 2, Significant(digits)))
        \o <<101, 43>> \o (IF Len(exponent) = 1 THEN <<48>> ELSE <<>>) \o exponent

\* dumpNumberTo, of a number that is not negative: %.*g, with no more digits
\* than it takes, writes an exponent where they are fewer than the places.
NumberText(halves) ==
  LET digits == Digits(halves \div 2)
  IN  IF halves >= MaxWhole /\ halves % 2 = 0 /\ Significant(digits) < Len(digits)
      THEN Scientific(digits)
      ELSE Decimal(halves)

Minus(halves) == IF halves < 0 THEN <<45>> ELSE <<>>
Size(halves) == IF halves < 0 THEN -halves ELSE halves

Spelled(t) ==
  CASE t.kind = "string"  -> <<34>> \o t.chars \o <<34>>
    [] t.kind = "number"  -> Minus(t.halves) \o NumberText(Size(t.halves))
    [] t.kind = "boolean" -> IF t.truth THEN TrueText ELSE FalseText
    [] t.kind = "null"    -> NullText
    [] OTHER              -> <<Letter(t.kind)>>

Characters(text) == FlattenSeq([i \in DOMAIN text |-> Spelled(text[i])])

\* What orders the values of one kind.
Weight(v) ==
  CASE v.kind = "null"    -> <<>>
    [] v.kind = "boolean" -> IF v.truth THEN <<1>> ELSE <<0>>
    [] v.kind = "number"  -> <<v.halves>>
    [] v.kind = "string"  -> v.chars
    [] OTHER              -> Characters(Dump(v))

Sign(less, equal) == IF equal THEN 0 ELSE IF less THEN -1 ELSE 1

\* Mutant of compareValues: by text, as compound values are.
compareTexts(a, b) == Sign(Before(Characters(Dump(a)), Characters(Dump(b))), a = b)

compareValues(a, b) ==
  IF rankOf(a) = rankOf(b)
  THEN Sign(Before(Weight(a), Weight(b)), Weight(a) = Weight(b))
  ELSE Sign(rankOf(a) < rankOf(b), FALSE)

asText(v) ==
  CASE v.kind = "null"   -> <<>>
    [] v.kind = "string" -> v.chars
    [] OTHER             -> Characters(Dump(v))

Includes(s, t) == \E i \in 0..(Len(s) - Len(t)) : SubSeq(s, i + 1, i + Len(t)) = t

Operators == {"eq", "ne", "gt", "gte", "lt", "lte", "contains"}

matchesCondition(actual, op, operand) ==
  LET c == compareValues(actual, operand)
  IN  \/ op = "eq"  /\ c = 0
      \/ op = "ne"  /\ c # 0
      \/ op = "gt"  /\ c > 0
      \/ op = "gte" /\ c >= 0
      \/ op = "lt"  /\ c < 0
      \/ op = "lte" /\ c <= 0
      \/ op = "contains" /\ Includes(asText(actual), asText(operand))

----------------------------------------------------------------------------
(* The parser, a token at a time.  stack holds the arrays and objects that    *)
(* are open; want is what may come next.                                      *)

At(stack, want) == [stack |-> stack, want |-> want]

Start == At(<<>>, "value")
Refusal == At(<<>>, "nothing")
Whole(v) == [stack |-> <<>>, want |-> "end", value |-> v]

\* A value is complete: it is the whole, or goes into what is open.
Delivered(stack, v) ==
  IF stack = <<>> THEN Whole(v)
  ELSE LET top  == Last(stack)
           kept == IF top.kind = "array"
                   THEN [top EXCEPT !.items = Append(@, v)]
                   ELSE [top EXCEPT !.fields = Updated(@, top.name, v)]
       IN  At(Append(Front(stack), kept), "more")

Closed(stack) ==
  Delivered(Front(stack),
            IF Last(stack).kind = "array" THEN Array(Last(stack).items) ELSE Object(Last(stack).fields))

Opened(stack, c) ==
  IF c = "["
  THEN At(Append(stack, [kind |-> "array", items |-> <<>>]), "first value")
  ELSE At(Append(stack, [kind |-> "object", fields |-> <<>>, name |-> <<>>]), "first name")

StartsValue(t) == t.kind \in {"[", "{"} \cup (Kinds \ {"array", "object"})

\* A list ends where it may, with its own mark.
Shuts(p, t) ==
  \/ p.want = "first value" /\ t.kind = "]"
  \/ p.want = "first name" /\ t.kind = "}"
  \/ p.want = "more" /\ t.kind = (IF Last(p.stack).kind = "array" THEN "]" ELSE "}")

Names(p, t) == p.want \in {"first name", "name"} /\ t.kind = "string"

\* A mark or a name inside what is open.
Within(p, t) ==
  CASE Shuts(p, t) -> Closed(p.stack)
    [] Names(p, t) ->
         At(Append(Front(p.stack), [Last(p.stack) EXCEPT !.name = t.chars]), "colon")
    [] p.want = "colon" /\ t.kind = ":" -> At(p.stack, "value")
    [] p.want = "more" /\ t.kind = "," ->
         At(p.stack, IF Last(p.stack).kind = "array" THEN "value" ELSE "name")
    [] OTHER -> Refusal

\* Mutant of Consume: depth++ > kMaxDepth.
ConsumeDeeper(p, t, levels) ==
  IF p.want \in {"value", "first value"} /\ StartsValue(t)
  THEN IF Len(p.stack) > levels THEN Refusal
       ELSE IF t.kind \in {"[", "{"} THEN Opened(p.stack, t.kind)
       ELSE Delivered(p.stack, t)
  ELSE Within(p, t)

\* A value that starts is one level deeper than what is open: ++depth.
Consume(p, t, levels) ==
  IF p.want \in {"value", "first value"} /\ StartsValue(t)
  THEN IF Len(p.stack) + 1 > levels THEN Refusal
       ELSE IF t.kind \in {"[", "{"} THEN Opened(p.stack, t.kind)
       ELSE Delivered(p.stack, t)
  ELSE Within(p, t)

\* json::parse, by a parser of so many levels: [want |-> "end", value |-> ...]
\* when it succeeds.
Read(text, levels) == FoldLeft(LAMBDA p, t : Consume(p, t, levels), Start, text)

Readable(text, levels) == Read(text, levels).want = "end"

\* On failure the engine's parse answers null.
Parsed(text, levels) ==
  LET p == Read(text, levels) IN IF p.want = "end" THEN p.value ELSE Null

=============================================================================
