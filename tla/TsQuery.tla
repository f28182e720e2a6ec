------------------------------- MODULE TsQuery -------------------------------
(* The TypeScript binding's query (store.ts, Local.query): the vocabulary of  *)
(* Json under JavaScript's own operators.                                     *)
EXTENDS Json

Undefined == [kind |-> "undefined"]

Scalar(v) == v.kind \in {"null", "boolean", "number", "string"}

\* row.value?.[field]
Member(v, name) ==
  IF v.kind = "object" /\ name \in DOMAIN v.fields THEN v.fields[name] ELSE Undefined

\* ===: arrays and objects are equal only to themselves, and each row is
\* parsed on its own.
Same(x, y) == x = y /\ (Scalar(x) \/ x = Undefined)

\* Strings compare by UTF-16 code unit.
Units(s) ==
  FlattenSeq([i \in DOMAIN s |->
    IF s[i] < 65536 THEN <<s[i]>>
    ELSE <<55296 + ((s[i] - 65536) \div 1024), 56320 + ((s[i] - 65536) % 1024)>>])

\* Anything else compares as numbers, here in halves.  No string here spells a
\* number; arrays and objects, which coerce by their text, are left out.
NotANumber == {"undefined", "string", "array", "object"}

Numeric(x) ==
  CASE x.kind = "boolean" -> IF x.truth THEN 2 ELSE 0
    [] x.kind = "number"  -> x.halves
    [] OTHER              -> 0

Below(x, y) ==
  IF x.kind = "string" /\ y.kind = "string"
  THEN Before(Units(x.chars), Units(y.chars))
  ELSE /\ {x.kind, y.kind} \cap NotANumber = {}
       /\ Numeric(x) < Numeric(y)

AtMost(x, y) ==
  IF x.kind = "string" /\ y.kind = "string"
  THEN ~Below(y, x)
  ELSE /\ {x.kind, y.kind} \cap NotANumber = {}
       /\ Numeric(x) <= Numeric(y)

\* String(v): below 1e21 a number is written in full.  Arrays and objects are
\* left out.
InfinityText == <<73, 110, 102, 105, 110, 105, 116, 121>>

JsText(v) ==
  CASE v.kind = "string"  -> v.chars
    [] v.kind = "number"  -> IF v = Infinite THEN InfinityText
                             ELSE Minus(v.halves) \o Decimal(Size(v.halves))
    [] v.kind = "boolean" -> IF v.truth THEN TrueText ELSE FalseText
    [] v.kind = "null"    -> NullText

\* String(actual ?? '') and String(operand).
JsIncludes(actual, operand) ==
  Includes(IF actual.kind \in {"undefined", "null"} THEN <<>> ELSE JsText(actual),
           JsText(operand))

jsMatches(actual, op, operand) ==
  \/ op = "eq"  /\ Same(actual, operand)
  \/ op = "ne"  /\ ~Same(actual, operand)
  \/ op = "gt"  /\ Below(operand, actual)
  \/ op = "gte" /\ AtMost(operand, actual)
  \/ op = "lt"  /\ Below(actual, operand)
  \/ op = "lte" /\ AtMost(actual, operand)
  \/ op = "contains" /\ JsIncludes(actual, operand)

----------------------------------------------------------------------------
(* What both lanes do, each with its own operators                            *)

Kept(rows, met) ==
  FoldLeft(LAMBDA kept, r : IF r \in met THEN Append(kept, r) ELSE kept, <<>>, rows)

\* Condition after condition, meets[c] being the rows that meet c; one with an
\* unknown operator refuses the query, if there is a row left to try it on.
Filtered(rows, where, meets) ==
  FoldLeft(LAMBDA left, c :
             IF left.refused THEN left
             ELSE IF c.op \notin Operators THEN [left EXCEPT !.refused = left.rows # <<>>]
             ELSE [left EXCEPT !.rows = Kept(@, meets[c])],
           [rows |-> rows, refused |-> FALSE],
           where)

\* The last clause first, so that the first is the primary one.
Ordered(rows, order, precedes) ==
  FoldLeft(LAMBDA sorted, c : StableSort(sorted, precedes[c]), rows, Reverse(order))

Pairs(rows) == ToSet(rows) \X ToSet(rows)

\* x === y ? 0 : (x > y ? sign : -sign)
JsPrecedes(c, a, b) ==
  LET x == Member(a.value, c.field)
      y == Member(b.value, c.field)
  IN  ~Same(x, y) /\ (Below(y, x) <=> c.dir = "desc")

\* Conditions apply in the order they were written in.
TsRows(rows, q) ==
  LET meets    == [c \in ToSet(q.where) |->
                     {r \in ToSet(rows) : jsMatches(Member(r.value, c.field), c.op, c.operand)}]
      precedes == [c \in ToSet(q.order) |-> {p \in Pairs(rows) : JsPrecedes(c, p[1], p[2])}]
      left     == Filtered(rows, q.where, meets)
  IN  IF left.refused THEN <<>> ELSE Ordered(left.rows, q.order, precedes)

----------------------------------------------------------------------------
(* Where the two vocabularies mean the same: the discipline that makes a      *)
(* query portable.                                                            *)

\* No code point above the surrogates: UTF-8 and UTF-16 then order alike.
Plain(v) == v.kind = "string" => \A i \in DOMAIN v.chars : v.chars[i] < 55296

\* A number that dumpNumberTo and String() both write in full.  (In the code it
\* is also no nearer to zero than 1e-4, which a half never is.)
InFull(v) == v.kind = "number" => -MaxWhole < v.halves /\ v.halves < MaxWhole

\* What is looked for, in what.
Searchable(actual, operand) == operand # Null /\ InFull(actual) /\ InFull(operand)

Alike(x, y) == x.kind = y.kind /\ Scalar(x) /\ Plain(x) /\ Plain(y)

Portable(rows, q) ==
  /\ q.limit = Null
  /\ \A i \in DOMAIN rows, j \in DOMAIN q.where :
       /\ q.where[j].op \in Operators
       /\ Alike(Member(rows[i].value, q.where[j].field), q.where[j].operand)
       /\ q.where[j].op = "contains" =>
            Searchable(Member(rows[i].value, q.where[j].field), q.where[j].operand)
  /\ \A i, k \in DOMAIN rows, j \in DOMAIN q.order :
       Alike(Member(rows[i].value, q.order[j].field), Member(rows[k].value, q.order[j].field))

=============================================================================
