----------------------------- MODULE MCDocuments -----------------------------
(* Documents for TLC: the values, queries and texts that are tried.           *)
EXTENDS Documents

\* Names and keys.
F == <<102>>
G == <<103>>
MCKeys == {<<97>>, <<98>>, <<99>>}
MCPutKeys == {<<97>>}

One == Number(2)
Two == Number(4)
Ten == Number(20)
Thirty == Number(60)   \* MaxWhole: 3e+01 to the engine, 30 to JavaScript
A == String(<<97>>)
AB == String(<<97, 98>>)
List(n) == Array(<<Number(n)>>)

\* Fields that are there and missing, of one kind and of several, equal and
\* not; [10] is written before [9]; a row need not be an object.
MCValues ==
  {Object(F :> Two @@ G :> A), Object(F :> Ten @@ G :> A), Object(F :> Two @@ G :> AB),
   Object(F :> Thirty), Object(F :> Null), Object(F :> Bool(TRUE) @@ G :> List(18)), Object(F :> A @@ G :> List(20)),
   Number(3)}

\* A text that is read as the value, as there is for all that was put.
ASSUME ValuesWerePut ==
  \A v \in MCValues :
    v # Null /\ Readable(Dump(v), MaxDepth) /\ Parsed(Dump(v), MaxDepth) = v

MCContents == UNION {[ks -> MCValues] : ks \in SUBSET MCKeys}
MCEntries == UNION {[ks -> {1, 2}] : ks \in SUBSET MCKeys}

Is(field, op, operand) == [field |-> field, op |-> op, operand |-> operand]
By(field, dir) == [field |-> field, dir |-> dir]

Wheres ==
  {<<Is(F, op, Two)>> : op \in Operators}
  \cup {<<Is(G, op, A)>> : op \in {"eq", "lt", "gte", "contains"}}
  \cup {<<Is(F, "gte", Two), Is(F, "lt", Ten)>>, <<Is(G, "eq", A), Is(F, "ne", Ten)>>,
        <<Is(F, "contains", Null)>>, <<Is(F, "contains", One)>>, <<Is(F, "eq", Null), Is(F, "between", Two)>>,
        <<Is(G, "between", A), Is(F, "eq", Null)>>}
Orders ==
  {<<>>, <<By(F, "asc")>>, <<By(F, "desc")>>, <<By(G, "desc")>>,
   <<By(G, "asc"), By(F, "desc")>>, <<By(F, "desc"), By(G, "asc")>>}
Limits == {Null, Number(1), One, Two, Infinite}

MCQueries ==
  {[where |-> w, order |-> <<>>, limit |-> Null] : w \in Wheres}
  \cup {[where |-> w, order |-> o, limit |-> l] :
          w \in {<<>>, <<Is(F, "lte", Two)>>}, o \in Orders, l \in Limits}

MCCounts == {Null, Number(0), Number(3), Two, Number(6), Infinite}

MCTokens ==
  {Mark(c) : c \in {"[", "]", "{", "}", ",", ":"}}
  \cup {Null, Two, Infinite, String(ValueName)}

=============================================================================
