------------------------------ MODULE Documents ------------------------------
(* What is in the rows: a caller of one handle puts JSON, gets it, queries a  *)
(* declared store and searches an index (store.cpp, Store::call, put, get,    *)
(* query, index.search; api.cpp, parseInput).  Other handles and scopes are   *)
(* in Rows, the tables of an index in Vectors: a read here is of one snapshot.*)
EXTENDS TsQuery, JsonGrammar

CONSTANTS
  Contents,      \* what the store may hold at first: functions from keys to values
  Entries,       \* what the index may hold: functions from keys to distances
  Queries,       \* [where, order, limit]: sequences of conditions and clauses, a value
  Counts,        \* the values of k
  PutKeys,       \* the keys that are put
  MaxK,          \* the most neighbours vec0 answers
  ReadErrors     \* may a SELECT end early?

ASSUME MaxKAssumption == MaxK \in Nat

\* Keys are strings, values are JSON, a where is a map of maps of operands.
Keyed(f) == IsFiniteSet(DOMAIN f) /\ DOMAIN f \subseteq Seq(Int)
Listed(s) == s \in Seq(ToSet(s))

ASSUME KeysAssumption == PutKeys \subseteq Seq(Int)
ASSUME ContentsAssumption ==
  \A c \in Contents : Keyed(c) /\ \A k \in DOMAIN c : IsValue(c[k])
ASSUME EntriesAssumption ==
  \A e \in Entries : Keyed(e) /\ \A k \in DOMAIN e : e[k] \in Int

VARIABLES
  rows,      \* the text in each key's row
  given,     \* history: the value each was put with, if JSON can carry it
  entries,   \* the index: each key's distance from the vector that is searched
  call,      \* the call that is being made
  answer     \* what the last call answered

vars == <<rows, given, entries, call, answer>>

Idle == [op |-> "none"]
Silent == [op |-> "none"]

\* put writes {} for a value that is null or missing.
Stored(value) == IF value = Null THEN Dump(Object(<<>>)) ELSE Dump(value)

Init ==
  /\ \/ given \in Contents /\ entries = <<>>
     \/ given = <<>> /\ entries \in Entries
  /\ rows = [k \in DOMAIN given |-> Stored(given[k])]
  /\ call = Idle
  /\ answer = Silent

Ready == call = Idle /\ answer = Silent

Answers(a) ==
  /\ answer' = a
  /\ call' = Idle

\* The caller has read the answer.
Return ==
  /\ answer # Silent
  /\ answer' = Silent
  /\ UNCHANGED <<rows, given, entries, call>>

----------------------------------------------------------------------------
(* put: the arguments are read token by token, the value written as a text *)

BeginPut ==
  /\ Ready
  /\ rows = <<>> /\ entries = <<>>        \* bound: only the first put is typed
  /\ call' = [op |-> "put", typed |-> <<>>, parser |-> Start]
  /\ UNCHANGED <<rows, given, entries, answer>>

Type ==
  /\ call.op = "put"
  /\ Len(call.typed) < MaxTokens
  /\ call.parser # Refusal                \* bound: nothing is typed after an error
  /\ \E t \in Tokens :
       call' = [op     |-> "put",
                typed  |-> Append(call.typed, t),
                parser |-> Consume(call.parser, t, MaxDepth)]
  /\ UNCHANGED <<rows, given, entries, answer>>

\* The text ends: an object is a call's arguments, anything else is refused.
Arguments == IF call.parser.want = "end" THEN call.parser.value ELSE Null

\* The member that is the value, and the one the typed names can spell.
ValueName == <<118>>

\* No text carries an infinite number, and put has its own meaning for null.
Carried(value) == value # Null /\ Infinite \notin ToSet(call.typed)

\* Mutant of Put: the value as text, not as JSON.
PutText(k) ==
  LET value == Field(Arguments, ValueName)
  IN  /\ call.op = "put"
      /\ Arguments.kind = "object"
      /\ rows' = Updated(rows, k, IF value.kind = "string" THEN <<Mark("text")>> ELSE Stored(value))
      /\ given' = IF Carried(value) THEN Updated(given, k, value) ELSE given
      /\ Answers([op |-> "put", ok |-> TRUE])
      /\ UNCHANGED entries

Put(k) ==
  LET value == Field(Arguments, ValueName)
  IN  /\ call.op = "put"
      /\ Arguments.kind = "object"
      /\ rows' = Updated(rows, k, Stored(value))
      /\ given' = IF Carried(value) THEN Updated(given, k, value) ELSE given
      /\ Answers([op |-> "put", ok |-> TRUE])
      /\ UNCHANGED entries

InvalidRequest ==
  /\ call.op = "put"
  /\ Arguments.kind # "object"
  /\ Answers([op |-> "put", ok |-> FALSE])
  /\ UNCHANGED <<rows, given, entries>>

Get(k) ==
  /\ Ready
  /\ k \in DOMAIN rows
  /\ Answers([op |-> "get", key |-> k, value |-> Parsed(rows[k], MaxDepth)])
  /\ UNCHANGED <<rows, given, entries>>

----------------------------------------------------------------------------
(* query *)

\* SELECT key, value ... ORDER BY key
Selected ==
  LET keys == InOrder(DOMAIN rows)
  IN  [i \in DOMAIN keys |-> [key |-> keys[i], value |-> Parsed(rows[keys[i]], MaxDepth)]]

\* The loop over rows ends at the first code that is not SQLITE_ROW, whatever
\* it is: at the end, or where reading failed.
Reads(all) == IF ReadErrors THEN Prefixes(all) ELSE {all}

\* args["where"] is a std::map of std::maps: fields and operators in order.
Alphabetical == <<"between", "contains", "eq", "gt", "gte", "lt", "lte", "ne">>
Position(op) == CHOOSE i \in DOMAIN Alphabetical : Alphabetical[i] = op

ASSUME QueriesAssumption ==
  \A q \in Queries :
    /\ Listed(q.where) /\ Listed(q.order) /\ IsValue(q.limit)
    /\ \A c \in ToSet(q.where) :
         c.field \in Seq(Int) /\ c.op \in ToSet(Alphabetical) /\ IsValue(c.operand)
ASSUME CountsAssumption == \A c \in Counts : IsValue(c)

ConditionPrecedes(c, d) ==
  IF c.field = d.field THEN Position(c.op) < Position(d.op) ELSE Before(c.field, d.field)

Conditions(where) ==
  StableSort(where, {p \in Pairs(where) : ConditionPrecedes(p[1], p[2])})

\* Mutant of ClausePrecedes: not strict, so that equal rows change places.
ClauseAtMost(c, a, b) ==
  LET sign == IF c.dir = "desc" THEN -1 ELSE 1
  IN  compareValues(Field(a.value, c.field), Field(b.value, c.field)) * sign <= 0

ClausePrecedes(c, a, b) ==
  LET sign == IF c.dir = "desc" THEN -1 ELSE 1
  IN  compareValues(Field(a.value, c.field), Field(b.value, c.field)) * sign < 0

\* limit is cut to an integer, and none of 0 or less.
Limited(found, limit) ==
  {IF n > 0 THEN SubSeq(found, 1, Min({n, Len(found)})) ELSE found : n \in Ints(limit)}

Query(q) ==
  /\ Ready
  /\ given \in Contents /\ entries = <<>>  \* bound: not of what was typed
  /\ \E read \in Reads(Selected) :
       LET meets    == [c \in ToSet(q.where) |->
                          {r \in ToSet(read) :
                             matchesCondition(Field(r.value, c.field), c.op, c.operand)}]
           precedes == [c \in ToSet(q.order) |->
                          {p \in Pairs(read) : ClausePrecedes(c, p[1], p[2])}]
           left     == Filtered(read, Conditions(q.where), meets)
       IN  IF left.refused
           THEN Answers([op |-> "query", query |-> q, read |-> read, ok |-> FALSE])
           ELSE \E found \in Limited(Ordered(left.rows, q.order, precedes), q.limit) :
                  Answers([op |-> "query", query |-> q, read |-> read, ok |-> TRUE, rows |-> found])
  /\ UNCHANGED <<rows, given, entries>>

----------------------------------------------------------------------------
(* index.search *)

\* vec0 answers the k nearest, those of one distance in any order, and nothing
\* but an error when asked for more than MaxK.
Nearest(k) ==
  IF k > MaxK THEN {<<>>}
  ELSE {s \in SetToAllKPermutations(DOMAIN entries) :
          /\ Len(s) = Min({k, Cardinality(DOMAIN entries)})
          /\ \A i \in DOMAIN s :
               /\ \A j \in 1..(i - 1) : entries[s[j]] <= entries[s[i]]
               /\ \A e \in DOMAIN entries \ ToSet(s) : entries[s[i]] <= entries[e]}

HitPrecedes(a, b) ==
  IF entries[a] = entries[b] THEN Before(a, b) ELSE entries[a] < entries[b]

\* Mutant of Hits: as vec0 answered them.
HitsUnsorted(found) == found

Hits(found) == StableSort(found, {p \in Pairs(found) : HitPrecedes(p[1], p[2])})

\* Without a k, or with one of 0 or less, all that the index counts.
Wanted(k) == IF k > 0 THEN k ELSE Cardinality(DOMAIN entries)

Search(count) ==
  /\ Ready
  /\ entries # <<>>
  /\ \E k \in Ints(count) :
     \E found \in Nearest(Wanted(k)) :
     \E read \in Reads(found) :
       Answers([op |-> "search", wanted |-> Wanted(k), failed |-> read # found,
                hits |-> Hits(read)])
  /\ UNCHANGED <<rows, given, entries>>

----------------------------------------------------------------------------

Next ==
  \/ Return
  \/ BeginPut \/ Type \/ InvalidRequest
  \/ \E k \in PutKeys : Put(k)
  \/ \E k \in DOMAIN rows : Get(k)
  \/ \E q \in Queries : Query(q)
  \/ \E c \in Counts : Search(c)

Spec == Init /\ [][Next]_vars

----------------------------------------------------------------------------
(* Properties *)

\* The parser takes a text exactly if the grammar has it within MaxDepth
\* levels, and for the value the grammar gives it; what it refuses is no
\* beginning of a text (json.hpp, Parser::parseValue: nested lists, commas,
\* equal names, and ++depth on the way in against the guard on the way out).
ParserExact ==
  call.op = "put" =>
    /\ call.parser.want = "end" => [text |-> call.typed, value |-> call.parser.value] \in Texts
    /\ call.parser = Refusal => call.typed \notin Beginnings

\* What was put is what a get answers, whatever its nesting, names and types:
\* the text that is kept parses again, within the depth the arguments were
\* parsed with, to the same value (store.cpp, put and get; dumpTo and Parser).
\* Not so for null, which is kept as {}, and an infinite number, kept as null.
KeptExactly ==
  /\ \A k \in DOMAIN rows : Readable(rows[k], MaxDepth)
  /\ answer.op = "get" /\ answer.key \in DOMAIN given => answer.value = given[answer.key]

\* A query answers those of the rows it read that meet every condition, by the
\* clauses from the first to the last and then by key, and of them the first
\* ones up to the limit (store.cpp, query: a filter per condition, a stable
\* sort per clause in reverse).
Meets(row, q) ==
  \A i \in DOMAIN q.where :
    matchesCondition(Field(row.value, q.where[i].field), q.where[i].op, q.where[i].operand)

Decides(q, a, b, i) ==
  compareValues(Field(a.value, q.order[i].field), Field(b.value, q.order[i].field)) # 0

Precedes(q, a, b) ==
  \/ \E i \in DOMAIN q.order :
       /\ Decides(q, a, b, i) /\ \A j \in 1..(i - 1) : ~Decides(q, a, b, j)
       /\ ClausePrecedes(q.order[i], a, b)
  \/ /\ \A i \in DOMAIN q.order : ~Decides(q, a, b, i)
     /\ Before(a.key, b.key)

QueryExact ==
  answer.op = "query" /\ answer.ok =>
    LET q     == answer.query
        meant == {answer.read[i] : i \in {j \in DOMAIN answer.read : Meets(answer.read[j], q)}}
        found == answer.rows
    IN  /\ ToSet(found) \subseteq meant
        /\ \A i, j \in DOMAIN found : i < j => Precedes(q, found[i], found[j])
        /\ \A r \in meant \ ToSet(found), i \in DOMAIN found : Precedes(q, found[i], r)
        /\ \E limit \in Ints(q.limit) :
             Len(found) = IF limit > 0 THEN Min({limit, Cardinality(meant)}) ELSE Cardinality(meant)

\* The native engine and the TypeScript binding answer a portable query with
\* the same rows in the same order ("three implementations can agree",
\* store.cpp, above rankOf), although each writes, orders and compares by
\* rules of its own.
LanesAgree ==
  answer.op = "query" /\ Portable(answer.read, answer.query) =>
    answer.ok /\ answer.rows = TsRows(answer.read, answer.query)

\* Whatever is wanted and wherever the reading ends, a search answers entries of
\* the index, nearest first and then by key, and leaves out none that is nearer
\* than one it answers; and it answers as many as were wanted and there are,
\* unless vec0 was asked for too many or the reading failed, where the caller is
\* told nothing (store.cpp, index.search).
SearchExact ==
  answer.op = "search" =>
    LET hits == answer.hits
    IN  /\ ToSet(hits) \subseteq DOMAIN entries
        /\ \A i, j \in DOMAIN hits : i < j => HitPrecedes(hits[i], hits[j])
        /\ \A i \in DOMAIN hits, e \in DOMAIN entries \ ToSet(hits) : entries[hits[i]] <= entries[e]
        /\ ~answer.failed /\ answer.wanted <= MaxK =>
             Len(hits) = Min({answer.wanted, Cardinality(DOMAIN entries)})

=============================================================================
